------------------------------ MODULE Firmware ------------------------------
(***************************************************************************)
(* The two firmware blobs on their way from the APK to the chip: copied to *)
(* the app's files by FirmwareManager, and from there uploaded chunk by    *)
(* chunk by mt7921_fw_upload (mt7921_shim.cpp), possibly while the copy is *)
(* under way or after one that was cut short.                              *)
(*                                                                         *)
(* A blob is Size blocks.  A block is what one turn of upload_blob sends:  *)
(* 4096 bytes, or what is left in the last turn; a file that ends inside a *)
(* block counts it.  The copy goes from the front, so a file is described  *)
(* by the number of its blocks.  The scatter header names the offset of a  *)
(* chunk, but not its blob, and both blobs begin at offset 0: which memory *)
(* the chip keeps them in is its own affair, and taken is what was sent.   *)
(***************************************************************************)
EXTENDS Integers, Sequences

CONSTANT Size      \* blocks in a complete blob

ASSUME SizeAssumption == Size \in Nat \ {0}

Blob == {"patch", "rom"}

\* FIRMWARE_FILES, in its order.
FirmwareFiles == <<"rom", "patch">>

Absent == -1

VARIABLES
    disk,      \* blocks in each file in filesDir, or Absent
    copying,   \* index of the file ensureFirmware is at, 0 outside a call
    open,      \* ensureFirmware has the file of that index open for writing
    allOk,     \* its local allOk
    ready,     \* what the last call returned ("none" before, or cut short)
    cutShort,  \* a copy was cut short since the files were last absent
    upload,    \* blob being uploaded, or "none", "done", "failed"
    size,      \* sz of each blob in this upload, Absent before it is read
    sent,      \* chunks of the current blob sent
    taken,     \* chunks of each blob that were sent since the chip had no power
    fwLoaded   \* dev->fw_loaded

copyVars == <<copying, open, allOk, ready, cutShort>>
uploadVars == <<upload, size, sent, taken, fwLoaded>>
vars == <<disk, copyVars, uploadVars>>

TypeOK ==
    /\ disk \in [Blob -> Absent..Size]
    /\ copying \in 0..Len(FirmwareFiles) + 1
    /\ open \in BOOLEAN /\ allOk \in BOOLEAN /\ cutShort \in BOOLEAN
    /\ ready \in {"none", "true", "false"}
    /\ upload \in Blob \cup {"none", "done", "failed"}
    /\ size \in [Blob -> Absent..Size]
    /\ sent \in 0..Size
    /\ taken \in [Blob -> SUBSET (0..Size - 1)]
    /\ fwLoaded \in BOOLEAN

Init ==
    /\ disk = [b \in Blob |-> Absent]
    /\ copying = 0
    /\ open = FALSE
    /\ allOk = TRUE
    /\ ready = "none"
    /\ cutShort = FALSE
    /\ upload = "none"
    /\ size = [b \in Blob |-> Absent]
    /\ sent = 0
    /\ taken = [b \in Blob |-> {}]
    /\ fwLoaded = FALSE

-----------------------------------------------------------------------------
(* FirmwareManager.                                                        *)

EnsureFirmware ==
    /\ copying = 0
    /\ copying' = 1
    /\ allOk' = TRUE
    /\ ready' = "none"
    /\ UNCHANGED <<disk, open, cutShort, uploadVars>>

InCopy == copying \in 1..Len(FirmwareFiles)
Current == FirmwareFiles[copying]

\* The file exists and is not empty: taken as it is.
SkipPresent ==
    /\ InCopy /\ ~open
    /\ disk[Current] > 0
    /\ copying' = copying + 1
    /\ UNCHANGED <<disk, open, allOk, ready, cutShort, uploadVars>>

OpenCopy ==
    /\ InCopy /\ ~open
    /\ disk[Current] <= 0
    /\ disk' = [disk EXCEPT ![Current] = 0]
    /\ open' = TRUE
    /\ UNCHANGED <<copying, allOk, ready, cutShort, uploadVars>>

CopyBlock ==
    /\ InCopy /\ open
    /\ disk[Current] \in 0..Size - 1
    /\ disk' = [disk EXCEPT ![Current] = @ + 1]
    /\ UNCHANGED <<copyVars, uploadVars>>

\* Variant: a copy that stops at a short read.
CopyEndsShort == disk[Current] > 0
CopyEnds == disk[Current] = Size

CopyDone ==
    /\ InCopy /\ open
    /\ CopyEnds
    /\ open' = FALSE
    /\ copying' = copying + 1
    /\ UNCHANGED <<disk, allOk, ready, cutShort, uploadVars>>

\* The asset is missing, or reading or writing throws: the catch block.
CopyFails ==
    /\ InCopy
    /\ ~open => disk[Current] <= 0
    /\ open' = FALSE
    /\ allOk' = FALSE
    /\ cutShort' = TRUE
    /\ copying' = copying + 1
    /\ UNCHANGED <<disk, ready, uploadVars>>

ReturnReady ==
    /\ copying = Len(FirmwareFiles) + 1
    /\ ready' = IF allOk THEN "true" ELSE "false"
    /\ copying' = 0
    /\ UNCHANGED <<disk, open, allOk, cutShort, uploadVars>>

ClearCache ==
    /\ copying = 0
    /\ disk' = [b \in Blob |-> Absent]
    /\ cutShort' = FALSE
    /\ ready' = "none"
    /\ UNCHANGED <<copying, open, allOk, uploadVars>>

\* The process dies: files stay as they are, the session and its flag go.
Crash ==
    /\ copying' = 0
    /\ open' = FALSE
    /\ allOk' = TRUE
    /\ ready' = "none"
    /\ cutShort' = (cutShort \/ InCopy)
    /\ upload' = "none"
    /\ size' = [b \in Blob |-> Absent]
    /\ sent' = 0
    /\ fwLoaded' = FALSE
    /\ UNCHANGED <<disk, taken>>

-----------------------------------------------------------------------------
(* mt7921_fw_upload in a new session: the patch, then the ROM.             *)

\* Variant: the ROM goes first, as in the parameter list.
FirstBlobRom == "rom"
FirstBlob == "patch"

StartUpload ==
    /\ upload = "none"
    /\ upload' = FirstBlob
    /\ UNCHANGED <<disk, copyVars, size, sent, taken, fwLoaded>>

UploadFails ==
    /\ upload' = "failed"
    /\ UNCHANGED <<disk, copyVars, size, sent, taken, fwLoaded>>

\* fopen, ftell and fread: the file as it is at this moment.
ReadBlob ==
    /\ upload \in Blob
    /\ size[upload] = Absent
    /\ disk[upload] # Absent
    /\ size' = [size EXCEPT ![upload] = disk[upload]]
    /\ UNCHANGED <<disk, copyVars, upload, sent, taken, fwLoaded>>

ReadFails ==
    /\ upload \in Blob
    /\ size[upload] = Absent
    /\ UploadFails

\* while (offset < sz).
\* Variant: a last chunk that is not full is left out.
ChunksLeftFull == sent < size[upload] - 1
ChunksLeft == sent < size[upload]

\* One turn of the loop.
SendChunk ==
    /\ upload \in Blob
    /\ size[upload] # Absent /\ ChunksLeft
    /\ taken' = [taken EXCEPT ![upload] = @ \cup {sent}]
    /\ sent' = sent + 1
    /\ UNCHANGED <<disk, copyVars, upload, size, fwLoaded>>

\* Variant: a failed transfer starts the blob over.
SendFailsRestarts ==
    /\ upload \in Blob
    /\ ChunksLeft
    /\ sent' = 0
    /\ UNCHANGED <<disk, copyVars, upload, size, taken, fwLoaded>>

SendFails ==
    /\ upload \in Blob
    /\ ChunksLeft
    /\ UploadFails

BlobDone ==
    /\ upload \in Blob
    /\ size[upload] # Absent
    /\ ~ChunksLeft
    /\ sent' = 0
    /\ upload' = IF upload = "patch" THEN "rom" ELSE "done"
    /\ fwLoaded' = (upload = "rom")
    /\ UNCHANGED <<disk, copyVars, size, taken>>

\* mt7921_close: the mt7921_dev_t and its flag are freed.
EndSession ==
    /\ upload \in {"done", "failed"}
    /\ upload' = "none"
    /\ size' = [b \in Blob |-> Absent]
    /\ sent' = 0
    /\ fwLoaded' = FALSE
    /\ UNCHANGED <<disk, copyVars, taken>>

\* The adapter loses power between two sessions.
PowerLoss ==
    /\ upload = "none"
    /\ taken' = [b \in Blob |-> {}]
    /\ UNCHANGED <<disk, copyVars, upload, size, sent, fwLoaded>>

-----------------------------------------------------------------------------
Copy == SkipPresent \/ OpenCopy \/ CopyBlock \/ CopyDone \/ CopyFails
        \/ ReturnReady

Upload == ReadBlob \/ ReadFails \/ SendChunk \/ SendFails \/ BlobDone

Next ==
    \/ EnsureFirmware \/ Copy \/ ClearCache \/ Crash
    \/ StartUpload \/ Upload \/ EndSession \/ PowerLoss

Spec == Init /\ [][Next]_vars

FairSpec == Spec /\ WF_vars(Copy) /\ WF_vars(Upload)

-----------------------------------------------------------------------------
\* fw_loaded is set only when every block that either file held when it was
\* read was sent: no chunk is left out at the front, at a boundary or at the
\* end of a blob.
LoadedWasSent ==
    fwLoaded => \A b \in Blob : 0..size[b] - 1 \subseteq taken[b]

\* The ROM is not begun before the whole patch was sent.
PatchBeforeRom ==
    upload = "rom" => /\ size["patch"] # Absent
                      /\ 0..size["patch"] - 1 \subseteq taken["patch"]

\* ensureFirmware may say that the blobs are ready when they are not only
\* after a copy was cut short.
ReadyUnlessCutShort ==
    ready = "true" /\ ~cutShort => \A b \in Blob : disk[b] = Size

\* A call of ensureFirmware and an upload both come to an end.
CopyAndUploadEnd ==
    /\ copying # 0 ~> copying = 0
    /\ upload \in Blob ~> upload \notin Blob
=============================================================================
