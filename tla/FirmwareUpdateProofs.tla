------------------------ MODULE FirmwareUpdateProofs ------------------------
(***************************************************************************)
(* What holds of a firmware update for every signature length, image size, *)
(* buffer size, chunk size and key.  First the device alone: the type      *)
(* invariant, the ownership of Update by the serial session, that only     *)
(* signed images boot, and that both routes together implement             *)
(* SignedUpdate.  Then the device and update_firmware() joined by the      *)
(* port: what a success of the host means, what its failures leave, and of *)
(* which release it is told that the signature is wrong.                   *)
(***************************************************************************)
EXTENDS OtaLink, SequenceTheorems, TLAPS

\* What a serial session guarantees, phase by phase.
SessionInv ==
  /\ IsActive => /\ updateOpen /\ shaInited
                 /\ ~uploading /\ ~restarting
                 /\ written = hashed
                 /\ bytesReceived = Len(hashed)
                 /\ MinBytes <= totalSize
  /\ phase = "AwaitingSignature" => hashed = <<>> /\ signatureBytesGot < SigLen
  /\ phase = "Streaming" => bytesReceived < totalSize

\* What an upload guarantees: the slot holds what was hashed, except after an
\* error, when nothing was hashed or the slot has been given up.
UploadInv ==
  /\ uploading => ~restarting
  /\ uploading /\ otaShaCtx =>
       IF otaError THEN httpHashed = <<>> \/ ~updateOpen
                   ELSE written = httpHashed

IInv == TypeOK /\ SessionInv /\ UploadInv /\ OnlySignedBoots

-----------------------------------------------------------------------------
\* The constants that are sizes, and the data they bound.
LEMMA Constants ==
  /\ SigLen \in Nat \ {0} /\ MinBytes \in Nat \ {0} /\ MaxRead \in Nat \ {0}
  /\ MaxBytes \in Nat
  /\ NoSignature \in Signature
  /\ Factory \in Seq(Byte)
  /\ <<>> \in Seq(Byte) /\ Len(<<>>) = 0
<1>1. NoSignature \in Signature
  BY UpdateAssumption DEF NoSignature, Signature
<1> QED
  BY <1>1, UpdateAssumption, EmptySeq

\* A buffer of the loop is a non-empty sequence of units.
LEMMA BufferIsSeq ==
  ASSUME NEW buf \in Buffer
  PROVE  buf \in Seq(Byte) /\ Len(buf) \in Nat \ {0}
<1>1. PICK n \in 1..MaxRead : buf \in [1..n -> Byte]
  BY DEF Buffer
<1>2. n \in Nat \ {0}
  BY <1>1, UpdateAssumption
<1> QED
  BY <1>1, <1>2

\* Extending a sequence of units by a buffer.
LEMMA Extended ==
  ASSUME NEW s \in Seq(Byte), NEW buf \in Buffer
  PROVE  /\ s \o buf \in Seq(Byte)
         /\ Len(s \o buf) = Len(s) + Len(buf)
         /\ Len(s) \in Nat
<1>1. buf \in Seq(Byte)
  BY BufferIsSeq
<1> QED
  BY <1>1, ConcatProperties, LenProperties

\* An image the key accepts is not empty.
LEMMA SignedIsLong ==
  ASSUME NEW image, NEW sig, Verified(image, sig)
  PROVE  image \in Seq(Byte) /\ image # <<>>
<1>1. image \in Seq(Byte) /\ Len(image) >= MinBytes
  BY UpdateAssumption DEF Verified
<1>2. MinBytes \in Nat /\ MinBytes > 0 /\ Len(<<>>) = 0
  BY UpdateAssumption, EmptySeq
<1> QED
  BY <1>1, <1>2

\* What a step prints is a sequence of lines.
LEMMA LinesAreLines ==
  /\ <<>> \in Seq(Line)
  /\ \A l \in Line : <<l>> \in Seq(Line)
  /\ \A l, m, n \in Line : <<l, m, n>> \in Seq(Line)
  OBVIOUS

LEMMA InitIInv == Init => IInv
<1> SUFFICES ASSUME Init PROVE IInv
  OBVIOUS
<1>1. SizesOK
  BY Constants DEF Init, SizesOK
<1>2. FlagsOK
  BY DEF Init, FlagsOK
<1>3. DataOK
  BY Constants, LinesAreLines DEF Init, DataOK, Phase
<1>4. SessionInv /\ UploadInv /\ OnlySignedBoots
  BY DEF Init, SessionInv, UploadInv, OnlySignedBoots, IsActive
<1> QED
  BY <1>1, <1>2, <1>3, <1>4 DEF IInv, TypeOK

-----------------------------------------------------------------------------
(* One lemma per action: it preserves the invariant.                       *)

\* Whatever empties the session leaves it well typed and holding nothing.
LEMMA SessionEmptied ==
  ASSUME IInv, ResetState, ~uploading', UNCHANGED httpVars,
         restarting' \in BOOLEAN, updateOpen' \in BOOLEAN, written' \in Seq(Byte)
  PROVE  /\ SizesOK' /\ FlagsOK'
         /\ phase' \in Phase /\ signature' \in Signature /\ otaSignature' \in Signature
         /\ hashed' \in Seq(Byte) /\ httpHashed' \in Seq(Byte)
         /\ SessionInv' /\ UploadInv'
<1> USE DEF IInv, TypeOK, ResetState, httpVars
<1>1. SizesOK'
  BY Constants DEF SizesOK
<1>2. FlagsOK'
  BY DEF FlagsOK
<1>3. SessionInv' /\ UploadInv'
  BY DEF SessionInv, UploadInv, IsActive
<1> QED
  BY <1>1, <1>2, <1>3, Constants DEF DataOK, Phase

LEMMA BeginStep ==
  ASSUME IInv, NEW size \in 0..MaxBytes, OtaBegin(size)
  PROVE  IInv'
<1> USE DEF IInv, TypeOK
<1>1. out' \in Seq(Line)
  <2>1. {"image_too_small", "update_begin_failed", "ota_awaiting_sig"} \subseteq Line
    BY DEF Line
  <2> QED
    BY <2>1, LinesAreLines DEF OtaBegin, BeginTooSmall, BeginRefused, BeginAccepted
<1>2. CASE BeginTooSmall(size) \/ BeginRefused(size)
  <2>1. ResetState /\ UNCHANGED <<updateOpen, written, bootImage, restarting>>
        /\ UNCHANGED httpVars /\ ~uploading'
    BY <1>2 DEF BeginTooSmall, BeginRefused, LineTurn, SerialTurn, Reset, IsActive,
                libVars, httpVars
  <2> QED
    BY <1>1, <2>1, SessionEmptied DEF DataOK, FlagsOK, OnlySignedBoots
<1>3. CASE BeginAccepted(size)
  <2> USE <1>3 DEF BeginAccepted, UpdateBegin, httpVars
  <2>1. size \in Nat /\ size <= MaxBytes
    BY Constants
  <2>2. SizesOK'
    BY <2>1, Constants DEF SizesOK
  <2>3. FlagsOK'
    BY DEF FlagsOK
  <2>4. DataOK'
    BY <1>1, Constants DEF DataOK, Phase
  <2>5. SessionInv' /\ UploadInv' /\ OnlySignedBoots'
    BY <2>1, Constants
    DEF LineTurn, SerialTurn, IsActive, SessionInv, UploadInv, OnlySignedBoots
  <2> QED
    BY <2>2, <2>3, <2>4, <2>5
<1> QED
  BY <1>2, <1>3 DEF OtaBegin

LEMMA AbortStep ==
  ASSUME IInv, OtaAbort
  PROVE  IInv'
<1> USE DEF IInv, TypeOK
<1>1. out' \in Seq(Line)
  BY LinesAreLines DEF OtaAbort, Line
<1>2. ResetState /\ UNCHANGED <<updateOpen, written, bootImage, restarting>>
      /\ UNCHANGED httpVars /\ ~uploading'
  BY DEF OtaAbort, LineTurn, SerialTurn, Reset, IsActive, libVars, httpVars
<1> QED
  BY <1>1, <1>2, SessionEmptied DEF DataOK, FlagsOK, OnlySignedBoots

LEMMA SignatureStep ==
  ASSUME IInv, NEW buf \in Buffer, ReadSignature(buf)
  PROVE  IInv'
<1> USE DEF IInv, TypeOK
<1>1. /\ buf \in Seq(Byte) /\ Len(buf) \in Nat \ {0}
      /\ signatureBytesGot \in Nat
      /\ signatureBytesGot + Len(buf) \in 0..SigLen
  BY Constants, BufferIsSeq DEF SizesOK, ReadSignature, SignatureBytesRemaining
<1>2. signature' \in Signature
  <2>1. SUFFICES ASSUME NEW i \in 1..SigLen,
                        i \in signatureBytesGot + 1 .. signatureBytesGot + Len(buf)
                 PROVE  buf[i - signatureBytesGot] \in Byte
    BY DEF ReadSignature, DataOK, Signature
  <2>2. i - signatureBytesGot \in 1..Len(buf)
    BY Constants, <1>1, <2>1
  <2> QED
    BY <1>1, <2>2, ElementOfSeq
<1>3. out' \in Seq(Line)
  <2>1. "ota_ready" \in Line
    BY DEF Line
  <2>2. out' \in {<<>>, <<"ota_ready">>}
    BY DEF ReadSignature
  <2> QED
    BY <2>1, <2>2, LinesAreLines
<1>4. SizesOK'
  BY <1>1 DEF ReadSignature, httpVars, SizesOK
<1>5. FlagsOK'
  BY DEF ReadSignature, httpVars, libVars, FlagsOK
<1>6. DataOK'
  BY <1>2, <1>3 DEF ReadSignature, httpVars, libVars, DataOK, Phase
<1>7. SessionInv' /\ UploadInv' /\ OnlySignedBoots'
  <2>1. totalSize > 0 /\ bytesReceived = 0
    <3>1. MinBytes <= totalSize /\ bytesReceived = Len(<<>>)
      BY DEF ReadSignature, SessionInv, IsActive
    <3>2. totalSize \in Nat
      BY Constants DEF SizesOK
    <3> QED
      BY <3>1, <3>2, Constants
  <2>2. SessionInv'
    BY <1>1, <2>1, Constants
    DEF ReadSignature, SerialTurn, libVars, httpVars, IsActive, SessionInv
  <2> QED
    BY <2>2 DEF ReadSignature, libVars, httpVars, UploadInv, OnlySignedBoots
<1> QED
  BY <1>4, <1>5, <1>6, <1>7

\* The four ways a session ends in image mode: the flash refuses a write, the
\* signature or the commit is rejected, or the image is installed.
LEMMA SessionEndStep ==
  ASSUME IInv, NEW buf \in Buffer,
         \/ ImageWriteFails(buf) \/ FinalizeRejects(buf)
         \/ FinalizeEndFails(buf) \/ FinalizeInstalls(buf)
  PROVE  IInv'
<1> USE DEF IInv, TypeOK
<1>1. out' \in Seq(Line)
  <2>1. {"write_failed", "ota_progress", "ota_finalizing", "signature_invalid",
         "update_end_failed", "ota_complete"} \subseteq Line
    BY DEF Line
  <2> QED
    BY <2>1, LinesAreLines
    DEF ImageWriteFails, FinalizeRejects, FinalizeEndFails, FinalizeInstalls, Finalizing
<1>2. /\ ResetState /\ updateOpen' = FALSE /\ written' = <<>>
      /\ UNCHANGED httpVars /\ ~uploading'
      /\ restarting' = restarting \/ restarting' = TRUE
  BY DEF ImageWriteFails, FinalizeRejects, FinalizeEndFails, FinalizeInstalls,
         UpdateAbort, LastChunk, ImageTurn, SerialTurn, httpVars
<1>3. bootImage' \in Seq(Byte) /\ OnlySignedBoots'
  <2>1. CASE FinalizeInstalls(buf)
    <3>1. bootImage' = hashed \o buf /\ <<hashed \o buf, signature>> \in Signed
      BY <2>1 DEF FinalizeInstalls, LastChunk, ImageTurn, Verified, SessionInv, IsActive
    <3>2. hashed \o buf \in Seq(Byte)
      BY Extended DEF DataOK
    <3> QED
      BY <3>1, <3>2 DEF OnlySignedBoots
  <2>2. CASE UNCHANGED bootImage
    BY <2>2 DEF OnlySignedBoots, DataOK
  <2> QED
    BY <2>1, <2>2 DEF ImageWriteFails, FinalizeRejects, FinalizeEndFails
<1>4. restarting' \in BOOLEAN /\ updateOpen' \in BOOLEAN /\ written' \in Seq(Byte)
  BY <1>2, Constants DEF FlagsOK
<1> QED
  BY <1>1, <1>2, <1>3, <1>4, SessionEmptied DEF DataOK

LEMMA ImageChunkStep ==
  ASSUME IInv, NEW buf \in Buffer, ImageChunk(buf)
  PROVE  IInv'
<1> USE DEF IInv, TypeOK, ImageChunk, UpdateWrite, httpVars
<1>1. /\ hashed \o buf \in Seq(Byte)
      /\ Len(hashed \o buf) = Len(hashed) + Len(buf)
      /\ written \o buf \in Seq(Byte)
      /\ Len(buf) \in Nat
  BY Extended, BufferIsSeq DEF DataOK
<1>2. phase = "Streaming" /\ bytesReceived + Len(buf) < totalSize
  BY <1>1, Constants DEF ImageTurn, BytesRemaining, SizesOK
<1>3. SizesOK'
  BY <1>1, <1>2, Constants DEF SizesOK
<1>4. FlagsOK'
  BY DEF FlagsOK
<1>5. DataOK'
  <2>1. "ota_progress" \in Line
    BY DEF Line
  <2>2. out' \in Seq(Line)
    BY <2>1, LinesAreLines
  <2> QED
    BY <1>1, <1>2, <2>2 DEF DataOK
<1>6. SessionInv'
  BY <1>1, <1>2 DEF SessionInv, IsActive
<1>7. UploadInv' /\ OnlySignedBoots'
  BY <1>2 DEF SessionInv, IsActive, UploadInv, OnlySignedBoots
<1> QED
  BY <1>3, <1>4, <1>5, <1>6, <1>7

LEMMA HttpStartStep ==
  ASSUME IInv, \/ \E authorized \in BOOLEAN : HttpStartRejected(authorized)
               \/ \E sig \in Signature : HttpStart(sig)
  PROVE  IInv'
<1> USE DEF IInv, TypeOK, HttpStartRejected, HttpStart, UpdateBegin, sessionVars, libVars
<1>1. SizesOK'
  BY DEF SizesOK
<1>2. FlagsOK'
  BY DEF FlagsOK
<1>3. DataOK'
  BY LinesAreLines, Constants DEF DataOK
<1>4. SessionInv' /\ UploadInv' /\ OnlySignedBoots'
  BY DEF HttpTurn, SessionInv, UploadInv, OnlySignedBoots, IsActive
<1> QED
  BY <1>1, <1>2, <1>3, <1>4

LEMMA HttpWriteStep ==
  ASSUME IInv, NEW buf \in Buffer, HttpWrite(buf)
  PROVE  IInv'
<1> USE DEF IInv, TypeOK, HttpWrite, UpdateWrite, UpdateAbort, sessionVars, libVars
<1>1. /\ written \o buf \in Seq(Byte)
      /\ httpHashed \o buf \in Seq(Byte)
      /\ Len(buf) \in Nat
  BY Extended, BufferIsSeq DEF DataOK
<1>2. SizesOK'
  BY <1>1 DEF SizesOK
<1>3. FlagsOK'
  BY DEF FlagsOK
<1>4. DataOK'
  BY <1>1, Constants, LinesAreLines DEF DataOK
<1>5. SessionInv' /\ OnlySignedBoots'
  <2>1. phase = "Idle" /\ phase' = "Idle"
    BY DEF HttpTurn, IsActive
  <2> QED
    BY <2>1 DEF SessionInv, OnlySignedBoots, IsActive
<1>6. UploadInv'
  <2>1. uploading' = TRUE /\ restarting' = FALSE /\ UNCHANGED otaShaCtx
    BY DEF HttpTurn, FlagsOK
  <2>2. CASE otaAuthOk /\ ~otaError /\ updateOpen
             /\ written' = written \o buf /\ httpHashed' = httpHashed \o buf
             /\ UNCHANGED otaError
    BY <2>1, <2>2 DEF UploadInv
  <2>3. CASE updateOpen' = FALSE /\ otaError' = TRUE
    BY <2>1, <2>3 DEF UploadInv
  <2>4. CASE UNCHANGED <<libVars, otaError, httpHashed>>
    BY <2>1, <2>4 DEF UploadInv
  <2> QED
    BY <2>2, <2>3, <2>4
<1> QED
  BY <1>2, <1>3, <1>4, <1>5, <1>6

LEMMA HttpEndStep ==
  ASSUME IInv, HttpEnd
  PROVE  IInv'
<1> USE DEF IInv, TypeOK
<1>1. /\ uploading' = FALSE /\ uploadSize' = 0
      /\ UNCHANGED sessionVars /\ UNCHANGED otaSignature
      /\ phase = "Idle" /\ out' = <<>>
  BY DEF HttpEnd, HttpTurn, IsActive
<1>2. SizesOK'
  BY <1>1 DEF SizesOK, sessionVars
<1>3. FlagsOK'
  BY <1>1 DEF HttpEnd, HttpReply, UpdateAbort, UpdateEnd, sessionVars, libVars, FlagsOK
<1>4. SessionInv' /\ UploadInv'
  BY <1>1 DEF SessionInv, UploadInv, IsActive, sessionVars
<1>5. httpHashed' \in Seq(Byte) /\ written' \in Seq(Byte)
  BY Constants DEF HttpEnd, UpdateAbort, UpdateEnd, libVars, DataOK
<1>6. bootImage' \in Seq(Byte) /\ OnlySignedBoots'
  <2>1. CASE UNCHANGED bootImage
    BY <2>1 DEF OnlySignedBoots, DataOK
  <2>2. CASE otaShaCtx /\ Verified(httpHashed, otaSignature) /\ UpdateEnd
    <3>1. httpHashed # <<>>
      BY <2>2, SignedIsLong
    <3>2. bootImage' = httpHashed
      BY <2>2, <3>1 DEF UploadInv, UpdateEnd, HttpEnd
    <3> QED
      BY <2>2, <3>2 DEF Verified, OnlySignedBoots, DataOK
  <2> QED
    BY <2>1, <2>2 DEF HttpEnd
<1>7. DataOK'
  BY <1>1, <1>5, <1>6, LinesAreLines DEF DataOK, sessionVars
<1> QED
  BY <1>2, <1>3, <1>4, <1>6, <1>7

LEMMA HttpAbortedStep ==
  ASSUME IInv, HttpAborted \/ HttpBare
  PROVE  IInv'
<1> USE DEF IInv, TypeOK, HttpAborted, HttpBare, HttpReply, sessionVars, libVars
<1>1. SizesOK'
  BY DEF SizesOK
<1>2. FlagsOK'
  BY DEF FlagsOK
<1>3. DataOK'
  BY LinesAreLines DEF DataOK
<1>4. SessionInv' /\ UploadInv' /\ OnlySignedBoots'
  BY DEF HttpTurn, SessionInv, UploadInv, OnlySignedBoots, IsActive
<1> QED
  BY <1>1, <1>2, <1>3, <1>4

LEMMA BootStep ==
  ASSUME IInv, Restart \/ PowerCut
  PROVE  IInv'
<1> USE DEF IInv, TypeOK, Boot
<1>1. Boot
  BY DEF Restart, PowerCut
<1>2. SizesOK'
  BY <1>1, Constants DEF SizesOK
<1>3. FlagsOK'
  BY <1>1 DEF FlagsOK
<1>4. DataOK'
  BY <1>1, Constants, LinesAreLines DEF DataOK, Phase
<1>5. SessionInv' /\ UploadInv' /\ OnlySignedBoots'
  BY <1>1 DEF SessionInv, UploadInv, OnlySignedBoots, IsActive
<1> QED
  BY <1>2, <1>3, <1>4, <1>5

LEMMA StutterStep ==
  ASSUME IInv, UNCHANGED fwVars
  PROVE  IInv'
<1> USE DEF fwVars, sessionVars, httpVars, libVars
<1>1. SizesOK' /\ FlagsOK' /\ DataOK'
  BY DEF IInv, TypeOK, SizesOK, FlagsOK, DataOK
<1>2. SessionInv' /\ UploadInv' /\ OnlySignedBoots'
  BY DEF IInv, SessionInv, UploadInv, OnlySignedBoots, IsActive
<1> QED
  BY <1>1, <1>2 DEF IInv, TypeOK

LEMMA NextIInv == IInv /\ [Next]_fwVars => IInv'
<1> SUFFICES ASSUME IInv, [Next]_fwVars PROVE IInv'
  OBVIOUS
<1>1. ASSUME NEW size \in 0..MaxBytes, OtaBegin(size) PROVE IInv'
  BY <1>1, BeginStep
<1>2. CASE OtaAbort
  BY <1>2, AbortStep
<1>3. ASSUME NEW buf \in Buffer, ReadSignature(buf) PROVE IInv'
  BY <1>3, SignatureStep
<1>4. ASSUME NEW buf \in Buffer, ReadImage(buf) PROVE IInv'
  BY <1>4, ImageChunkStep, SessionEndStep DEF ReadImage
<1>5. CASE SerialNext
  BY <1>1, <1>2, <1>3, <1>4, <1>5 DEF SerialNext
<1>6. CASE HttpNext
  BY <1>6, HttpStartStep, HttpWriteStep, HttpEndStep, HttpAbortedStep DEF HttpNext
<1>7. CASE Restart \/ PowerCut
  BY <1>7, BootStep
<1>8. CASE UNCHANGED fwVars
  BY <1>8, StutterStep
<1> QED
  BY <1>5, <1>6, <1>7, <1>8 DEF Next

\* The inductive invariant holds in every reachable state.
THEOREM Invariance == Spec => []IInv
  BY InitIInv, NextIInv, PTL DEF Spec

\* Types: in particular no read runs past the signature array and the byte
\* count never exceeds the announced size (the clipped reads of main.cpp).
THEOREM TypeCorrect == Spec => []TypeOK
<1>1. IInv => TypeOK
  BY DEF IInv
<1> QED
  BY <1>1, Invariance, PTL

\* The serial session owns the Update object: main.cpp does not reach
\* handleClient() while one is active.
THEOREM SessionOwnership == Spec => []SessionOwnsUpdate
<1>1. IInv => SessionOwnsUpdate
  BY DEF IInv, SessionInv, SessionOwnsUpdate, IsActive
<1> QED
  BY <1>1, Invariance, PTL

\* Neither raw mode is ever entered, or stayed in, with nothing left to read.
THEOREM NeverStarved == Spec => []SessionWantsMore
<1>1. ASSUME IInv PROVE SessionWantsMore
  <2>1. /\ SigLen \in Nat /\ signatureBytesGot \in Nat
        /\ totalSize \in Nat /\ bytesReceived \in Nat
    BY <1>1, Constants DEF IInv, TypeOK, SizesOK
  <2> QED
    BY <1>1, <2>1
    DEF IInv, SessionInv, SessionWantsMore, SignatureBytesRemaining, BytesRemaining
<1> QED
  BY <1>1, Invariance, PTL

\* Only the factory image or a signed image is ever booted.
THEOREM OnlySigned == Spec => []OnlySignedBoots
<1>1. IInv => OnlySignedBoots
  BY DEF IInv
<1> QED
  BY <1>1, Invariance, PTL

-----------------------------------------------------------------------------
(* The refinement of SignedUpdate.                                         *)

LEMMA InitRefines == Init => Promise!Init
  BY DEF Init, Promise!Init, IsActive

\* A serial step opens a session, ends it, or is invisible.
LEMMA SerialRefines ==
  ASSUME IInv, SerialNext
  PROVE  Promise!Next \/ UNCHANGED Promise!updateVars
<1> USE DEF Promise!Next, Promise!Open, Promise!Install, Promise!Abandon,
            Promise!updateVars, IsActive, httpVars
<1>1. ~uploading /\ UNCHANGED uploading
  BY DEF SerialNext, OtaBegin, BeginTooSmall, BeginRefused, BeginAccepted, OtaAbort,
         LineTurn, SerialTurn, ReadSignature, ReadImage, ImageWriteFails, ImageChunk,
         FinalizeRejects, FinalizeEndFails, FinalizeInstalls, LastChunk, ImageTurn
<1>2. ASSUME NEW size \in 0..MaxBytes, OtaBegin(size)
      PROVE  Promise!Next \/ UNCHANGED Promise!updateVars
  BY <1>1, <1>2 DEF OtaBegin, BeginTooSmall, BeginRefused, BeginAccepted, LineTurn,
                    Reset, ResetState
<1>3. CASE OtaAbort
  BY <1>1, <1>3 DEF OtaAbort, LineTurn, Reset, ResetState
<1>4. ASSUME NEW buf \in Buffer, ReadSignature(buf)
      PROVE  Promise!Next \/ UNCHANGED Promise!updateVars
  BY <1>1, <1>4 DEF ReadSignature
<1>5. ASSUME NEW buf \in Buffer, ReadImage(buf)
      PROVE  Promise!Next \/ UNCHANGED Promise!updateVars
  <2>1. phase = "Streaming"
    BY <1>5 DEF ReadImage, ImageWriteFails, ImageChunk, FinalizeRejects,
                FinalizeEndFails, FinalizeInstalls, LastChunk, ImageTurn
  <2>2. CASE ImageChunk(buf)
    BY <1>1, <2>2 DEF ImageChunk
  <2>3. CASE ImageWriteFails(buf) \/ FinalizeRejects(buf) \/ FinalizeEndFails(buf)
    BY <1>1, <2>1, <2>3
    DEF ImageWriteFails, FinalizeRejects, FinalizeEndFails, ResetState
  <2>4. CASE FinalizeInstalls(buf)
    <3>1. bootImage' = hashed \o buf /\ <<hashed \o buf, signature>> \in Signed
      BY <2>4 DEF FinalizeInstalls, LastChunk, ImageTurn, Verified, IInv, SessionInv
    <3>2. phase' = "Idle"
      BY <2>4 DEF FinalizeInstalls, ResetState
    <3> QED
      BY <1>1, <2>1, <3>1, <3>2
  <2> QED
    BY <1>5, <2>2, <2>3, <2>4 DEF ReadImage
<1> QED
  BY <1>2, <1>3, <1>4, <1>5 DEF SerialNext

\* So is a step of an upload.
LEMMA HttpRefines ==
  ASSUME IInv, HttpNext
  PROVE  Promise!Next \/ UNCHANGED Promise!updateVars
<1> USE DEF Promise!Next, Promise!Open, Promise!Install, Promise!Abandon,
            Promise!updateVars, IsActive, sessionVars
<1>1. phase = "Idle" /\ phase' = "Idle"
  BY DEF HttpNext, HttpStartRejected, HttpStart, HttpWrite, HttpEnd, HttpAborted, HttpBare,
         HttpTurn
<1>2. uploading \in BOOLEAN
  BY DEF IInv, TypeOK, FlagsOK
<1>3. CASE \/ \E authorized \in BOOLEAN : HttpStartRejected(authorized)
           \/ \E sig \in Signature : HttpStart(sig)
  BY <1>1, <1>2, <1>3 DEF HttpStartRejected, HttpStart
<1>4. CASE (\E buf \in Buffer : HttpWrite(buf)) \/ HttpAborted \/ HttpBare
  BY <1>1, <1>2, <1>4 DEF HttpWrite, HttpAborted, HttpBare
<1>5. CASE HttpEnd
  <2>1. uploading = TRUE /\ uploading' = FALSE
    BY <1>2, <1>5 DEF HttpEnd
  <2>2. CASE UNCHANGED bootImage
    BY <1>1, <2>1, <2>2
  <2>3. CASE otaShaCtx /\ Verified(httpHashed, otaSignature) /\ UpdateEnd
    <3>1. bootImage' = httpHashed
      BY <2>1, <2>3, SignedIsLong DEF IInv, UploadInv, UpdateEnd
    <3> QED
      BY <1>1, <2>1, <2>3, <3>1 DEF Verified
  <2> QED
    BY <1>5, <2>2, <2>3 DEF HttpEnd
<1> QED
  BY <1>3, <1>4, <1>5 DEF HttpNext

LEMMA StepRefines == IInv /\ [Next]_fwVars => [Promise!Next]_(Promise!updateVars)
<1> SUFFICES ASSUME IInv, [Next]_fwVars
             PROVE  Promise!Next \/ UNCHANGED Promise!updateVars
  OBVIOUS
<1>1. CASE SerialNext
  BY <1>1, SerialRefines
<1>2. CASE HttpNext
  BY <1>2, HttpRefines
<1>3. CASE Restart \/ PowerCut
  <2>1. UNCHANGED bootImage /\ ~(IsActive \/ uploading)'
    BY <1>3 DEF Restart, PowerCut, Boot, IsActive
  <2> QED
    BY <2>1 DEF Promise!Next, Promise!Abandon, Promise!updateVars, IsActive
<1>4. CASE UNCHANGED fwVars
  BY <1>4 DEF fwVars, sessionVars, httpVars, Promise!updateVars, IsActive
<1> QED
  BY <1>1, <1>2, <1>3, <1>4 DEF Next

\* The device keeps the promise of SignedUpdate: one session at a time, and the
\* boot image changes only when a session ends, to a signed image.
THEOREM Refinement == Spec => SignedUpdateSpec
  BY InitRefines, StepRefines, Invariance, PTL DEF Spec, SignedUpdateSpec, Promise!Spec

-----------------------------------------------------------------------------
(* The two action properties of the device.                                *)

\* The boot slot changes in two actions only, each of which empties the session.
LEMMA InstallStep ==
  ASSUME IInv, [Next]_fwVars, bootImage' # bootImage
  PROVE  \/ \E buf \in Buffer : FinalizeInstalls(buf)
         \/ /\ HttpEnd /\ otaAuthOk /\ otaShaCtx
            /\ Verified(httpHashed, otaSignature)
            /\ UpdateEnd /\ HttpReply(TRUE, otaError)
<1>1. ~UNCHANGED fwVars
  BY DEF fwVars
<1>2. CASE SerialNext
  BY <1>2
  DEF SerialNext, OtaBegin, BeginTooSmall, BeginRefused, BeginAccepted, OtaAbort,
      ReadSignature, ReadImage, ImageWriteFails, ImageChunk, FinalizeRejects,
      FinalizeEndFails
<1>3. CASE HttpNext
  BY <1>3 DEF HttpNext, HttpStartRejected, HttpStart, HttpWrite, HttpAborted, HttpBare, HttpEnd
<1>4. CASE Restart \/ PowerCut
  BY <1>4 DEF Restart, PowerCut, Boot
<1> QED
  BY <1>1, <1>2, <1>3, <1>4 DEF Next

\* The boot slot changes only to the whole of what a session carried.
THEOREM WholeInstall == Spec => InstallIsWhole
<1> DEFINE Whole == /\ IF uploading THEN bootImage' = httpHashed
                                    ELSE Len(bootImage') = totalSize
                    /\ restarting'
<1>1. ASSUME IInv, [Next]_fwVars, bootImage' # bootImage
      PROVE  Whole
  <2>1. ASSUME NEW buf \in Buffer, FinalizeInstalls(buf)
        PROVE  Whole
    <3>1. totalSize \in Nat /\ bytesReceived \in Nat
      BY <1>1, Constants DEF IInv, TypeOK, SizesOK
    <3>2. /\ ~uploading /\ restarting' /\ IsActive
          /\ bootImage' = hashed \o buf
          /\ Len(buf) = totalSize - bytesReceived
          /\ bytesReceived = Len(hashed)
      BY <2>1, <1>1, <3>1
      DEF FinalizeInstalls, LastChunk, ImageTurn, SerialTurn, BytesRemaining, IsActive,
          IInv, SessionInv
    <3>3. Len(hashed \o buf) = Len(hashed) + Len(buf)
      BY <1>1, Extended DEF IInv, TypeOK, DataOK
    <3> QED
      BY <3>1, <3>2, <3>3
  <2>2. CASE /\ HttpEnd /\ otaShaCtx
             /\ Verified(httpHashed, otaSignature)
             /\ UpdateEnd /\ HttpReply(TRUE, otaError)
    <3>1. uploading /\ httpHashed # <<>>
      BY <2>2, SignedIsLong DEF HttpEnd
    <3>2. updateOpen /\ bootImage' = written
      BY <2>2 DEF UpdateEnd
    <3>3. ~otaError /\ written = httpHashed
      BY <1>1, <2>2, <3>1, <3>2 DEF IInv, UploadInv
    <3> QED
      BY <2>2, <3>1, <3>2, <3>3 DEF HttpReply
  <2> QED
    BY <1>1, <2>1, <2>2, InstallStep
<1>2. IInv /\ [Next]_fwVars => [bootImage' # bootImage => Whole]_fwVars
  BY <1>1
<1> QED
  BY <1>2, Invariance, PTL DEF Spec, InstallIsWhole

\* A session that ends gives the Update object back, unless it was an upload
\* cut off in the middle or never authorized.
THEOREM UpdateReleased == Spec => FailedSessionReleasesUpdate
<1> DEFINE Ends == (IsActive \/ uploading) /\ ~(IsActive' \/ uploading')
           Released == ~updateOpen' \/ HttpAborted \/ ~otaAuthOk
<1>1. ASSUME IInv, [Next]_fwVars, Ends
      PROVE  Released
  <2>1. ~UNCHANGED fwVars
    BY <1>1 DEF fwVars, sessionVars, httpVars, IsActive
  <2>2. CASE SerialNext
    <3>1. UNCHANGED uploading
      BY <2>2
      DEF SerialNext, OtaBegin, BeginTooSmall, BeginRefused, BeginAccepted, OtaAbort,
          ReadSignature, ReadImage, ImageWriteFails, ImageChunk, FinalizeRejects,
          FinalizeEndFails, FinalizeInstalls, httpVars
    <3>2. IsActive /\ phase' = "Idle"
      BY <1>1, <3>1 DEF IsActive
    <3> QED
      BY <2>2, <3>2
      DEF SerialNext, OtaBegin, BeginTooSmall, BeginRefused, BeginAccepted, OtaAbort,
          LineTurn, IsActive, ReadSignature, ReadImage, ImageWriteFails, ImageChunk,
          ImageTurn, FinalizeRejects, FinalizeEndFails, FinalizeInstalls, UpdateAbort
  <2>3. CASE HttpNext
    <3>1. UNCHANGED phase /\ uploading /\ ~uploading'
      BY <1>1, <2>3
      DEF HttpNext, HttpTurn, HttpStartRejected, HttpStart, HttpWrite, HttpEnd,
          HttpAborted, HttpBare, sessionVars, IsActive
    <3>2. HttpEnd \/ HttpAborted
      BY <2>3, <3>1 DEF HttpNext, HttpStartRejected, HttpStart, HttpWrite, HttpBare
    <3> QED
      BY <3>2 DEF HttpEnd, UpdateAbort, UpdateEnd
  <2>4. CASE Restart \/ PowerCut
    BY <2>4 DEF Restart, PowerCut, Boot
  <2> QED
    BY <1>1, <2>1, <2>2, <2>3, <2>4 DEF Next
<1>2. IInv /\ [Next]_fwVars => [Ends => Released]_fwVars
  BY <1>1
<1> QED
  BY <1>2, Invariance, PTL DEF Spec, FailedSessionReleasesUpdate

-----------------------------------------------------------------------------
(* How long a session can be.                                              *)

\* What a session has still to be given: its signature and its image.
StillWanted == CASE phase = "AwaitingSignature" -> (SigLen - signatureBytesGot) + totalSize
                 [] phase = "Streaming" -> totalSize - bytesReceived
                 [] OTHER -> 0

\* No step of a session leaves it wanting as much as before, so it ends after
\* no more steps than its signature and image have units: the early return of
\* loop() (main.cpp:759) can last only while nothing comes over the port.
SessionRunsDown == [][IsActive => StillWanted' \in Nat /\ StillWanted' < StillWanted]_fwVars

\* What a session wants is a number, and not 0.
LEMMA Wanting ==
  ASSUME IInv
  PROVE  /\ StillWanted \in Nat
         /\ IsActive => StillWanted > 0
<1>1. /\ SigLen \in Nat /\ signatureBytesGot \in Nat /\ totalSize \in Nat
      /\ bytesReceived \in Nat
  BY Constants DEF IInv, TypeOK, SizesOK
<1>2. /\ phase = "AwaitingSignature" => signatureBytesGot < SigLen
      /\ phase = "Streaming" => bytesReceived < totalSize
  BY DEF IInv, SessionInv
<1>3. phase \in {"Idle", "AwaitingSignature", "Streaming"}
  BY DEF IInv, TypeOK, DataOK, Phase
<1>4. CASE phase = "AwaitingSignature"
  BY <1>1, <1>2, <1>4 DEF StillWanted
<1>5. CASE phase = "Streaming"
  BY <1>1, <1>2, <1>5 DEF StillWanted
<1>6. CASE phase = "Idle"
  BY <1>6 DEF StillWanted, IsActive
<1> QED
  BY <1>3, <1>4, <1>5, <1>6

\* A step of an active session brings it nearer to its end.
LEMMA NearerTheEnd ==
  ASSUME IInv, Next, IsActive
  PROVE  StillWanted' \in Nat /\ StillWanted' < StillWanted
<1>1. /\ SigLen \in Nat /\ signatureBytesGot \in Nat /\ totalSize \in Nat
      /\ bytesReceived \in Nat /\ StillWanted \in Nat /\ StillWanted > 0
  BY Wanting, Constants DEF IInv, TypeOK, SizesOK
<1>2. ASSUME phase' = "Idle" PROVE StillWanted' \in Nat /\ StillWanted' < StillWanted
  <2>1. StillWanted' = 0
    BY <1>2 DEF StillWanted
  <2> QED
    BY <1>1, <2>1
<1>3. ASSUME NEW buf \in Buffer, ReadSignature(buf)
      PROVE  StillWanted' \in Nat /\ StillWanted' < StillWanted
  <2>1. /\ Len(buf) \in Nat \ {0} /\ signatureBytesGot + Len(buf) <= SigLen
        /\ phase = "AwaitingSignature" /\ bytesReceived = 0
        /\ StillWanted = (SigLen - signatureBytesGot) + totalSize
    <3>1. phase = "AwaitingSignature" /\ Len(buf) <= SignatureBytesRemaining
      BY <1>3 DEF ReadSignature
    <3>2. hashed = <<>> /\ bytesReceived = Len(hashed) /\ signatureBytesGot < SigLen
      BY <3>1 DEF IInv, SessionInv, IsActive
    <3>3. Len(buf) \in Nat \ {0}
      BY <1>3, BufferIsSeq
    <3>4. signatureBytesGot + Len(buf) <= SigLen
      BY <1>1, <3>1, <3>2, <3>3 DEF SignatureBytesRemaining
    <3> QED
      BY <3>1, <3>2, <3>3, <3>4, EmptySeq DEF StillWanted
  <2>2. CASE signatureBytesGot + Len(buf) = SigLen
    <3>1. StillWanted' = totalSize - bytesReceived
      BY <1>3, <2>2 DEF ReadSignature, StillWanted
    <3> QED
      BY <1>1, <2>1, <2>2, <3>1
  <2>3. CASE signatureBytesGot + Len(buf) # SigLen
    <3>1. StillWanted' = (SigLen - (signatureBytesGot + Len(buf))) + totalSize
      BY <1>3, <2>1, <2>3 DEF ReadSignature, StillWanted
    <3> QED
      BY <1>1, <2>1, <3>1
  <2> QED
    BY <2>2, <2>3
<1>4. ASSUME NEW buf \in Buffer, ReadImage(buf)
      PROVE  StillWanted' \in Nat /\ StillWanted' < StillWanted
  <2>1. CASE ImageChunk(buf)
    <3>1. /\ Len(buf) \in Nat \ {0} /\ bytesReceived + Len(buf) < totalSize
          /\ phase = "Streaming"
      BY <1>1, <2>1, BufferIsSeq DEF ImageChunk, ImageTurn, BytesRemaining
    <3>2. /\ StillWanted = totalSize - bytesReceived
          /\ StillWanted' = totalSize - (bytesReceived + Len(buf))
      BY <2>1, <3>1 DEF ImageChunk, StillWanted
    <3> QED
      BY <1>1, <3>1, <3>2
  <2>2. CASE ~ImageChunk(buf)
    BY <1>2, <1>4, <2>2
    DEF ReadImage, ImageWriteFails, FinalizeRejects, FinalizeEndFails, FinalizeInstalls,
        ResetState
  <2> QED
    BY <2>1, <2>2
<1>5. CASE SerialNext
  BY <1>3, <1>4, <1>5
  DEF SerialNext, OtaBegin, BeginTooSmall, BeginRefused, BeginAccepted, OtaAbort, LineTurn
<1>6. ~HttpNext
  BY DEF HttpNext, HttpTurn, HttpStartRejected, HttpStart, HttpWrite, HttpEnd, HttpAborted,
         HttpBare
<1>7. CASE Restart \/ PowerCut
  BY <1>2, <1>7 DEF Restart, PowerCut, Boot
<1> QED
  BY <1>5, <1>6, <1>7 DEF Next

\* A session of the device runs down.
THEOREM SessionIsFinite == Spec => SessionRunsDown
<1> DEFINE Nearer == StillWanted' \in Nat /\ StillWanted' < StillWanted
<1>1. ASSUME IInv, [Next]_fwVars PROVE [IsActive => Nearer]_fwVars
  BY <1>1, NearerTheEnd
<1> QED
  BY <1>1, Invariance, PTL DEF Spec, SessionRunsDown

-----------------------------------------------------------------------------
(* Both ends of the cable.                                                 *)

\* Items of some kinds: data is always raw, and only text has another kind.
ItemOf(kinds) == [kind : kinds, unit : Byte, size : 0..MaxBytes]
Bound == {"attempts", "deaths", "pings", "beacons", "cuts"}

LinkTypeOK ==
  /\ rx \in Seq(ItemOf(Kind)) /\ tx \in Seq(Line)
  /\ hostPc \in Updating \cup {"idle", "ok", "failed", "dead"}
  /\ release \in Releases /\ sent \in 0..Len(Image)
  /\ hostErr \in Line \cup {"none", "timeout", "port_lost"}
  /\ spent \in [Bound -> Nat] /\ disturbed \in BOOLEAN

\* What the device does in the link: a step of its own, or a line printed
\* while no session is active.
Prints == \E lines \in Seq(Line) : Answer(lines)

\* The constants of a release, and the sizes of the link.
LEMMA LinkConstants ==
  ASSUME NEW r \in Releases
  PROVE  /\ r[1] \in Seq(Byte) /\ r[2] \in Signature /\ r = <<r[1], r[2]>>
         /\ Len(r[1]) \in 0..MaxBytes
         /\ 0 \in Byte /\ MaxBytes \in Nat /\ Chunk \in Nat \ {0}
<1>1. r \in Seq(Byte) \X Signature
  BY LinkAssumption
<1>2. r[1] \in Seq(Byte) /\ r[2] \in Signature /\ r = <<r[1], r[2]>>
  BY <1>1
<1>3. Len(r[1]) \in Nat /\ Len(r[1]) <= MaxBytes /\ MaxBytes \in Nat
  BY <1>2, LinkAssumption, Constants, LenProperties
<1> QED
  BY <1>2, <1>3, LinkAssumption, UpdateAssumption

\* What is left of the port after n items of it were read.
LEMMA Taken ==
  ASSUME NEW S, NEW s \in Seq(S), NEW n \in 1..Len(s)
  PROVE  /\ SubSeq(s, n + 1, Len(s)) \in Seq(S)
         /\ Len(SubSeq(s, n + 1, Len(s))) = Len(s) - n
         /\ \A i \in 1..Len(s) - n : SubSeq(s, n + 1, Len(s))[i] = s[n + i]
<1>1. Len(s) \in Nat /\ n \in Nat /\ n <= Len(s)
  BY LenProperties
<1>2. \A i \in n + 1 .. Len(s) : s[i] \in S
  BY <1>1, ElementOfSeq
<1>3. /\ SubSeq(s, n + 1, Len(s)) \in Seq(S)
      /\ Len(SubSeq(s, n + 1, Len(s))) = IF n + 1 <= Len(s) THEN Len(s) - (n + 1) + 1 ELSE 0
      /\ \A i \in 1 .. Len(s) - (n + 1) + 1 :
            SubSeq(s, n + 1, Len(s))[i] = s[(n + 1) + i - 1]
  <2>1. n + 1 \in Int /\ Len(s) \in Int
    BY <1>1
  <2> QED
    BY <1>2, <2>1, SubSeqProperties, SMTT(20)
<1>4. \A i \in 1..Len(s) - n : SubSeq(s, n + 1, Len(s))[i] = s[n + i]
  <2> SUFFICES ASSUME NEW i \in 1..Len(s) - n
               PROVE  SubSeq(s, n + 1, Len(s))[i] = s[n + i]
    OBVIOUS
  <2>1. i \in 1 .. Len(s) - (n + 1) + 1 /\ (n + 1) + i - 1 = n + i
    BY <1>1
  <2> QED
    BY <1>3, <2>1
<1> QED
  BY <1>1, <1>3, <1>4

\* What was read is a buffer of the device.
LEMMA UnitsRead ==
  ASSUME LinkTypeOK, NEW n \in 1..Len(rx), n <= MaxRead
  PROVE  /\ Units(n) \in Buffer /\ Units(n) \in Seq(Byte)
         /\ Len(Units(n)) = n
         /\ \A i \in 1..n : Units(n)[i] = rx[i].unit
<1>1. n \in 1..MaxRead /\ n \in Nat
  BY LenProperties, Constants DEF LinkTypeOK
<1>2. \A i \in 1..n : rx[i].unit \in Byte
  <2>1. \A i \in 1..n : rx[i] \in ItemOf(Kind)
    BY LenProperties, ElementOfSeq DEF LinkTypeOK
  <2> QED
    BY <2>1 DEF ItemOf
<1>3. Units(n) \in [1..n -> Byte]
  BY <1>2 DEF Units
<1> QED
  BY <1>1, <1>3, BufferIsSeq DEF Units, Buffer

\* What the host writes is typed as it should be.
LEMMA RawWritten ==
  ASSUME NEW units \in Seq(Byte)
  PROVE  /\ Raw(units) \in Seq(ItemOf({"raw"}))
         /\ Len(Raw(units)) = Len(units)
         /\ \A i \in 1..Len(units) : Raw(units)[i].unit = units[i]
<1>1. Len(units) \in Nat /\ DOMAIN units = 1..Len(units)
      /\ \A i \in 1..Len(units) : units[i] \in Byte
  BY LenProperties, ElementOfSeq
<1>2. \A i \in 1..Len(units) : Item("raw", units[i], 0) \in ItemOf({"raw"})
  BY <1>1, Constants DEF Item, ItemOf
<1>3. Raw(units) \in [1..Len(units) -> ItemOf({"raw"})]
  BY <1>1, <1>2 DEF Raw
<1> QED
  BY <1>1, <1>3 DEF Raw, Item

\* A command is one item, of its own kind.
LEMMA CommandWritten ==
  ASSUME NEW kind, NEW size \in 0..MaxBytes
  PROVE  /\ Command(kind, size) \in Seq(ItemOf({kind}))
         /\ Len(Command(kind, size)) = 1
         /\ Command(kind, size)[1] = Item(kind, 0, size)
         /\ Head(Command(kind, size)) = Item(kind, 0, size)
<1>1. Item(kind, 0, size) \in ItemOf({kind})
  BY UpdateAssumption DEF Item, ItemOf
<1> QED
  BY <1>1 DEF Command

\* Sequences over fewer kinds are sequences over more.
LEMMA KindsGrow ==
  ASSUME NEW K1, NEW K2, K1 \subseteq K2, NEW s \in Seq(ItemOf(K1))
  PROVE  s \in Seq(ItemOf(K2))
<1>1. ItemOf(K1) \subseteq ItemOf(K2)
  BY DEF ItemOf
<1> QED
  BY <1>1, SeqMonotonic

\* Lines said by the device are appended to the ones not yet read.
LEMMA LinesSaid ==
  ASSUME NEW S, NEW s \in Seq(S)
  PROVE  /\ s \o <<>> = s
         /\ \A l \in S : s \o <<l>> \in Seq(S)
         /\ \A l, m, n \in S : s \o <<l, m, n>> \in Seq(S)
<1>1. s \o <<>> = s
  BY ConcatEmptySeq
<1>2. \A l \in S : s \o <<l>> \in Seq(S)
  <2>1. \A l \in S : <<l>> \in Seq(S)
    OBVIOUS
  <2> QED
    BY <2>1, ConcatProperties
<1>3. \A l, m, n \in S : s \o <<l, m, n>> \in Seq(S)
  <2>1. \A l, m, n \in S : <<l, m, n>> \in Seq(S)
    OBVIOUS
  <2> QED
    BY <2>1, ConcatProperties
<1> QED
  BY <1>1, <1>2, <1>3

-----------------------------------------------------------------------------
\* Each step of the link is one of the device, a line printed, or the host's.
LEMMA LinkMovesDevice ==
  ASSUME LinkTypeOK, [LinkNext]_linkVars
  PROVE  Prints \/ [Next]_fwVars
<1>1. CASE DevData
  <2>1. PICK n \in 1..Len(rx) :
               n <= MaxRead /\ (ReadSignature(Units(n)) \/ ReadImage(Units(n)))
    BY <1>1 DEF DevData
  <2>2. Units(n) \in Buffer
    BY <2>1, UnitsRead
  <2> QED
    BY <2>1, <2>2 DEF Next, SerialNext
<1>2. CASE DevCommand
  <2>1. Head(rx).size \in 0..MaxBytes
    <3>1. Head(rx) \in ItemOf(Kind)
      BY <1>2, HeadTailProperties DEF DevCommand, LinkTypeOK
    <3> QED
      BY <3>1 DEF ItemOf
  <2>2. <<"pong">> \in Seq(Line)
    BY LinesAreLines DEF Line
  <2>3. OtaBegin(Head(rx).size) \/ Answer(<<"pong">>)
    BY <1>2 DEF DevCommand
  <2>4. Answer(<<"pong">>) => Prints
    BY <2>2 DEF Prints
  <2>5. OtaBegin(Head(rx).size) => Next
    BY <2>1 DEF Next, SerialNext
  <2> QED
    BY <2>3, <2>4, <2>5
<1>3. CASE DevJunk \/ DevBeacon
  <2>1. {<<"invalid_json">>, <<>>, <<"mqtt_connected">>} \subseteq Seq(Line)
    BY LinesAreLines DEF Line
  <2> QED
    BY <1>3, <2>1 DEF DevJunk, DevBeacon, Prints
<1>4. CASE DevRestart \/ DevPowerCut
  BY <1>4 DEF DevRestart, DevPowerCut, Next
<1>5. CASE HostStep
  BY <1>5
  DEF HostStep, HostSkips, HostSignature, HostReady, HostComplete, HostRejected,
      HostWrites, HostDiscards, HostDrained, HostTimesOut, Reply
<1>6. CASE (\E r \in Releases : HostBegin(r)) \/ HostDies \/ HostPings
  BY <1>6 DEF HostBegin, HostDies, HostPings
<1>7. CASE UNCHANGED linkVars
  BY <1>7 DEF linkVars
<1> QED
  BY <1>1, <1>2, <1>3, <1>4, <1>5, <1>6, <1>7 DEF LinkNext, Device

\* A line printed disturbs nothing but what was printed.
LEMMA PrintsStep ==
  ASSUME IInv, Prints
  PROVE  IInv'
<1> USE DEF IInv, TypeOK, Prints, Answer, sessionVars, libVars, httpVars
<1>1. SizesOK' /\ FlagsOK' /\ DataOK'
  BY DEF SizesOK, FlagsOK, DataOK
<1>2. SessionInv' /\ UploadInv' /\ OnlySignedBoots'
  BY DEF SessionInv, UploadInv, OnlySignedBoots, IsActive
<1> QED
  BY <1>1, <1>2

\* The invariant of the device alone survives in the link.
LEMMA LinkKeepsIInv == IInv /\ LinkTypeOK /\ [LinkNext]_linkVars => IInv'
  BY LinkMovesDevice, PrintsStep, NextIInv

-----------------------------------------------------------------------------
\* The link starts typed as it should be.
LEMMA LinkInitTypes == LinkInit => LinkTypeOK
<1> SUFFICES ASSUME LinkInit PROVE LinkTypeOK
  OBVIOUS
<1>1. rx \in Seq(ItemOf(Kind)) /\ tx \in Seq(Line)
  BY EmptySeq DEF LinkInit
<1>2. release \in Releases /\ sent \in 0..Len(Image)
  BY LinkConstants DEF LinkInit, Image
<1>3. spent \in [Bound -> Nat]
  BY DEF LinkInit, Bound
<1>4. disturbed \in BOOLEAN
  BY DEF LinkInit
<1> QED
  BY <1>1, <1>2, <1>3, <1>4 DEF LinkInit, LinkTypeOK

\* A bound is used up one by one, and never given back.
LEMMA Spending ==
  ASSUME LinkTypeOK, NEW what \in Bound, NEW bound, Spend(what, bound)
  PROVE  /\ spent' \in [Bound -> Nat]
         /\ spent'[what] = spent[what] + 1
         /\ \A b \in Bound : spent'[b] >= spent[b]
<1>1. spent \in [Bound -> Nat] /\ spent' = [spent EXCEPT ![what] = spent[what] + 1]
  BY DEF Spend, LinkTypeOK
<1>2. spent[what] + 1 \in Nat
  BY <1>1
<1> QED
  BY <1>1, <1>2

\* What disturbs an update is recorded, and a restart settles it.
LEMMA DisturbedTyped ==
  ASSUME LinkTypeOK, LinkNext
  PROVE  disturbed' \in BOOLEAN
<1>1. CASE Device
  BY <1>1 DEF Device, DevData, DevCommand, DevJunk, DevBeacon, DevRestart, DevPowerCut,
              PortLost, LinkTypeOK
<1>2. CASE HostStep
  BY <1>2
  DEF HostStep, HostSkips, HostSignature, HostReady, HostComplete, HostRejected,
      HostWrites, HostDiscards, HostDrained, HostTimesOut, Reply, LinkTypeOK
<1>3. CASE (\E r \in Releases : HostBegin(r)) \/ HostDies \/ HostPings
  BY <1>3 DEF HostBegin, HostDies, HostPings, LinkTypeOK
<1> QED
  BY <1>1, <1>2, <1>3 DEF LinkNext

\* The device takes items off the port and adds lines to it.
LEMMA DeviceTypes ==
  ASSUME IInv, LinkTypeOK, Device
  PROVE  LinkTypeOK'
<1>0. disturbed' \in BOOLEAN
  BY DisturbedTyped DEF LinkNext
<1>1. IInv'
  BY LinkKeepsIInv DEF LinkNext
<1>2. out' \in Seq(Line)
  BY <1>1 DEF IInv, TypeOK, DataOK
<1>3. CASE DevData \/ DevCommand \/ DevJunk
  <2>1. Emit /\ UNCHANGED <<hostVars, spent>> /\ \E n \in 1..Len(rx) : Took(n)
    <3>1. rx # <<>> => 1 \in 1..Len(rx)
      BY EmptySeq DEF LinkTypeOK
    <3> QED
      BY <1>3, <3>1 DEF DevData, DevCommand, DevJunk
  <2>2. rx' \in Seq(ItemOf(Kind))
    BY <2>1, Taken DEF Took, LinkTypeOK
  <2>3. tx' \in Seq(Line)
    BY <1>2, <2>1, ConcatProperties, EmptySeq DEF Emit, LinkTypeOK
  <2> QED
    BY <1>0, <2>1, <2>2, <2>3 DEF LinkTypeOK, hostVars, Image
<1>4. CASE DevBeacon
  <2>1. tx' \in Seq(Line)
    BY <1>2, <1>4, ConcatProperties, EmptySeq DEF DevBeacon, Emit, LinkTypeOK
  <2>2. spent' \in [Bound -> Nat]
    BY <1>4, Spending DEF DevBeacon, Bound
  <2> QED
    BY <1>0, <1>4, <2>1, <2>2 DEF DevBeacon, LinkTypeOK, hostVars, Image
<1>5. CASE DevRestart \/ DevPowerCut
  <2>1. PortLost
    BY <1>5 DEF DevRestart, DevPowerCut
  <2>2. spent' \in [Bound -> Nat]
    BY <1>5, Spending DEF DevRestart, DevPowerCut, Bound, LinkTypeOK
  <2>3. rx' \in Seq(ItemOf(Kind)) /\ tx' \in Seq(Line)
    BY <2>1, EmptySeq DEF PortLost
  <2> QED
    BY <1>0, <2>1, <2>2, <2>3 DEF PortLost, LinkTypeOK, Image
<1> QED
  BY <1>3, <1>4, <1>5 DEF Device

\* The next chunk of the image is what follows the units already sent.
LEMMA ChunkIsNext ==
  ASSUME LinkTypeOK
  PROVE  /\ NextChunk \in Seq(Byte)
         /\ sent + Len(NextChunk) \in sent..Len(Image)
         /\ \A i \in 1..Len(NextChunk) : NextChunk[i] = Image[sent + i]
<1>1. /\ Image \in Seq(Byte) /\ Len(Image) \in Nat /\ Chunk \in Nat \ {0}
      /\ sent \in Nat /\ sent <= Len(Image)
  BY LinkConstants DEF LinkTypeOK, Image
<1> DEFINE last == IF sent + Chunk <= Len(Image) THEN sent + Chunk ELSE Len(Image)
<1>2. last \in Nat /\ sent <= last /\ last <= Len(Image)
  BY <1>1
<1>3. \A i \in sent + 1 .. last : Image[i] \in Byte
  BY <1>1, <1>2, ElementOfSeq
<1>4. NextChunk = SubSeq(Image, sent + 1, last)
  BY DEF NextChunk
<1> HIDE DEF last
<1>5. sent + 1 \in Int /\ last \in Int
  BY <1>1, <1>2
<1>6. /\ NextChunk \in Seq(Byte)
      /\ Len(NextChunk) = IF sent + 1 <= last THEN last - (sent + 1) + 1 ELSE 0
      /\ \A i \in 1 .. last - (sent + 1) + 1 : NextChunk[i] = Image[sent + 1 + i - 1]
  BY <1>3, <1>4, <1>5, SubSeqProperties
<1>7. Len(NextChunk) = last - sent
  BY <1>1, <1>2, <1>6
<1>8. \A i \in 1..Len(NextChunk) : NextChunk[i] = Image[sent + i]
  <2> SUFFICES ASSUME NEW i \in 1..Len(NextChunk) PROVE NextChunk[i] = Image[sent + i]
    OBVIOUS
  <2>1. i \in 1 .. last - (sent + 1) + 1 /\ sent + 1 + i - 1 = sent + i
    BY <1>1, <1>2, <1>7
  <2> QED
    BY <1>6, <2>1
<1> QED
  BY <1>1, <1>2, <1>6, <1>7, <1>8

\* A step of update_firmware() keeps the types.
LEMMA HostTypes ==
  ASSUME LinkTypeOK, HostStep
  PROVE  LinkTypeOK'
<1>0. disturbed' \in BOOLEAN
  BY DisturbedTyped DEF LinkNext
<1>1. tx # <<>> => Tail(tx) \in Seq(Line) /\ Head(tx) \in Line
  BY HeadTailProperties DEF LinkTypeOK
<1>2. {"raw"} \subseteq Kind
  BY DEF Kind
<1>3. CASE HostSkips \/ HostDiscards \/ HostDrained \/ HostTimesOut
  <2>1. CASE HostSkips \/ HostDiscards
    BY <1>0, <1>1, <2>1 DEF HostSkips, HostDiscards, hostVars, LinkTypeOK, Image
  <2>2. CASE HostDrained
    BY <1>0, <2>2 DEF HostDrained, LinkTypeOK, Updating, Waiting, Image
  <2>3. CASE HostTimesOut
    BY <1>0, <2>3 DEF HostTimesOut, LinkTypeOK, Image
  <2> QED
    BY <1>3, <2>1, <2>2, <2>3
<1>4. CASE HostReady \/ HostComplete \/ HostRejected
  BY <1>0, <1>1, <1>4
  DEF HostReady, HostComplete, HostRejected, Reply, LinkTypeOK, Updating, Waiting, Image
<1>5. CASE HostSignature
  <2>0. Sig \in Signature
    BY LinkConstants DEF LinkTypeOK, Sig
  <2>1. Sig \in Seq(Byte)
    BY <2>0, Constants DEF Signature
  <2>2. Raw(Sig) \in Seq(ItemOf(Kind))
    BY <1>2, <2>1, RawWritten, KindsGrow
  <2>3. rx \o Raw(Sig) \in Seq(ItemOf(Kind))
    BY <2>2, ConcatProperties DEF LinkTypeOK
  <2> QED
    BY <1>0, <1>1, <1>5, <2>3 DEF HostSignature, Reply, LinkTypeOK, Updating, Waiting, Image
<1>6. CASE HostWrites
  <2>1. /\ NextChunk \in Seq(Byte)
        /\ sent + Len(NextChunk) \in 0..Len(Image)
    BY ChunkIsNext DEF LinkTypeOK
  <2>2. Raw(NextChunk) \in Seq(ItemOf(Kind))
    BY <1>2, <2>1, RawWritten, KindsGrow
  <2>3. rx \o Raw(NextChunk) \in Seq(ItemOf(Kind))
    BY <2>2, ConcatProperties DEF LinkTypeOK
  <2>4. hostPc' \in Updating /\ tx' \in Seq(Line)
    BY <1>6 DEF HostWrites, Updating, LinkTypeOK
  <2> QED
    BY <1>0, <1>6, <2>1, <2>3, <2>4 DEF HostWrites, LinkTypeOK, Image
<1> QED
  BY <1>3, <1>4, <1>5, <1>6 DEF HostStep

\* So do the beginning of an update, its death and a ping.
LEMMA OtherTypes ==
  ASSUME LinkTypeOK,
         (\E r \in Releases : HostBegin(r)) \/ HostDies \/ HostPings
  PROVE  LinkTypeOK'
<1>0. disturbed' \in BOOLEAN
  BY DisturbedTyped DEF LinkNext
<1> {"ota_begin"} \subseteq Kind /\ {"ping"} \subseteq Kind
  BY DEF Kind
<1>1. ASSUME NEW r \in Releases, HostBegin(r) PROVE LinkTypeOK'
  <2>1. Command("ota_begin", Len(r[1])) \in Seq(ItemOf(Kind))
    <3>1. Len(r[1]) \in 0..MaxBytes
      BY LinkConstants
    <3>2. Command("ota_begin", Len(r[1])) \in Seq(ItemOf({"ota_begin"}))
      BY <3>1, CommandWritten
    <3> QED
      BY <3>2, KindsGrow
  <2>a. rx' \in Seq(ItemOf(Kind))
    BY <1>1, <2>1, ConcatProperties DEF HostBegin, LinkTypeOK
  <2>2. spent' \in [Bound -> Nat]
    BY <1>1, Spending DEF HostBegin, Bound
  <2>3. release' = r /\ sent' \in 0..Len(r[1])
    BY <1>1, LinkConstants DEF HostBegin
  <2>4. tx' \in Seq(Line) /\ hostPc' \in Updating
    BY <1>1, EmptySeq DEF HostBegin, Updating, Waiting
  <2> QED
    BY <1>0, <1>1, <2>a, <2>2, <2>3, <2>4 DEF HostBegin, LinkTypeOK, Image
<1>2. CASE HostDies
  <2>1. PICK n \in 0..Len(rx) : rx' = SubSeq(rx, 1, n)
    BY <1>2 DEF HostDies
  <2>2. rx' \in Seq(ItemOf(Kind))
    <3>1. n \in Int /\ n <= Len(rx) /\ Len(rx) \in Nat
      BY LenProperties DEF LinkTypeOK
    <3>2. \A i \in 1..n : rx[i] \in ItemOf(Kind)
      BY <3>1, ElementOfSeq DEF LinkTypeOK
    <3> QED
      BY <2>1, <3>1, <3>2, SubSeqProperties
  <2>3. spent' \in [Bound -> Nat]
    BY <1>2, Spending DEF HostDies, Bound
  <2> QED
    BY <1>0, <1>2, <2>2, <2>3, EmptySeq DEF HostDies, LinkTypeOK, Image
<1>3. CASE HostPings
  <2>1. Command("ping", 0) \in Seq(ItemOf(Kind))
    <3>1. Command("ping", 0) \in Seq(ItemOf({"ping"}))
      BY Constants, CommandWritten
    <3> QED
      BY <3>1, KindsGrow
  <2>a. rx' \in Seq(ItemOf(Kind))
    BY <1>3, <2>1, ConcatProperties DEF HostPings, LinkTypeOK
  <2>2. spent' \in [Bound -> Nat]
    BY <1>3, Spending DEF HostPings, Bound
  <2> QED
    BY <1>0, <1>3, <2>a, <2>2 DEF HostPings, hostVars, LinkTypeOK, Image
<1> QED
  BY <1>1, <1>2, <1>3

\* So does every step.
LEMMA LinkKeepsTypes == IInv /\ LinkTypeOK /\ [LinkNext]_linkVars => LinkTypeOK'
<1> SUFFICES ASSUME IInv, LinkTypeOK, [LinkNext]_linkVars PROVE LinkTypeOK'
  OBVIOUS
<1>1. CASE UNCHANGED linkVars
  BY <1>1 DEF linkVars, hostVars, LinkTypeOK, Image
<1> QED
  BY <1>1, DeviceTypes, HostTypes, OtherTypes DEF LinkNext

-----------------------------------------------------------------------------
(* What the host may rely on, stage by stage.                              *)

Sending == {"stream", "drain", "final"}

\* The ota_begin line is on its way, behind pings that outside a session the
\* device may not have read.
BeginSent ==
  /\ Len(rx) > 0 /\ rx[Len(rx)] = Item("ota_begin", 0, Len(Image))
  /\ \A i \in 1..Len(rx) - 1 : rx[i].kind = "ping"
  /\ phase # "Idle" => Len(rx) = 1

\* Lines nobody asked for, or a ping did.
Idly == {"mqtt_connected", "pong"}

\* The ota_begin line is on its way; or it was answered by something else than
\* a session, if only because a session left behind took it for data; or the
\* session is this host's and its answer the last line said.
BeginInv ==
  hostPc = "ackBegin" =>
    /\ sent = 0
    /\ \/ BeginSent /\ tx \in Seq(Idly)
       \/ /\ rx = <<>>
          /\ tx \in Seq(Line \ {"ota_awaiting_sig"})
       \/ /\ rx = <<>>
          /\ phase = "AwaitingSignature" /\ signatureBytesGot = 0
          /\ totalSize = Len(Image)
          /\ Len(tx) > 0 /\ tx[Len(tx)] = "ota_awaiting_sig"
          /\ \A i \in 1..Len(tx) - 1 : tx[i] \in Idly

\* The signature is what the device has of it and what is on its way.
SignatureInv ==
  hostPc = "ackReady" =>
    /\ sent = 0 /\ totalSize = Len(Image)
    /\ rx \in Seq(ItemOf({"raw"}))
    /\ \/ /\ phase = "AwaitingSignature" /\ tx = <<>>
          /\ signatureBytesGot + Len(rx) = SigLen
          /\ \A i \in 1..SigLen : Sig[i] = IF i <= signatureBytesGot
                                           THEN signature[i]
                                           ELSE rx[i - signatureBytesGot].unit
       \/ /\ phase = "Streaming" /\ tx = <<"ota_ready">>
          /\ rx = <<>> /\ hashed = <<>> /\ signature = Sig

\* So is what was sent of the image; once the session is over, what has been
\* said of it is true.
StreamInv ==
  hostPc \in Sending =>
    /\ rx \in Seq(ItemOf({"raw"}))
    /\ hostPc = "final" => sent = Len(Image)
    /\ \/ /\ phase = "Streaming" /\ totalSize = Len(Image) /\ signature = Sig
          /\ tx \in Seq({"ota_progress"})
          /\ Len(hashed) + Len(rx) = sent
          /\ \A i \in 1..sent : Image[i] = IF i <= Len(hashed)
                                           THEN hashed[i]
                                           ELSE rx[i - Len(hashed)].unit
       \/ /\ phase = "Idle"
          /\ release \in Signed => tx \in Seq(Line \ {"signature_invalid"})
          /\ bootImage # Image => tx \in Seq(Line \ {"ota_complete"})

\* Nothing that could begin another session follows a success.
SuccessInv ==
  hostPc = "ok" => /\ phase = "Idle" /\ bootImage = Image
                   /\ rx \in Seq(ItemOf({"raw", "ping"}))

\* While nothing disturbs it, no session outlives its host and the ota_begin is
\* answered by the device alone.
QuietInv ==
  ~disturbed =>
    /\ hostPc \notin Updating => phase = "Idle" /\ rx \in Seq(ItemOf({"raw", "ping"}))
    /\ hostPc = "ackBegin" =>
         \/ BeginSent /\ Len(rx) = 1 /\ phase = "Idle" /\ tx = <<>>
         \/ /\ rx = <<>> /\ phase = "Idle"
            /\ tx \in {<<"image_too_small">>, <<"update_begin_failed">>}
         \/ rx = <<>> /\ phase = "AwaitingSignature" /\ tx = <<"ota_awaiting_sig">>

HostInv == BeginInv /\ SignatureInv /\ StreamInv /\ SuccessInv /\ QuietInv
LinkIInv == IInv /\ LinkTypeOK /\ HostInv

\* The stages are apart.
LEMMA Stages ==
  /\ \A pc : pc \in Updating <=> pc \in Sending \cup {"ackBegin", "ackReady"}
  /\ {"idle", "ok", "failed", "dead"} \cap Updating = {}
  /\ Waiting = {"ackBegin", "ackReady", "final"}
  BY DEF Updating, Waiting, Sending

\* The files of the update and the sizes the proofs count with.
LEMMA Counts ==
  ASSUME IInv, LinkTypeOK
  PROVE  /\ Image \in Seq(Byte) /\ Sig \in [1..SigLen -> Byte] /\ release = <<Image, Sig>>
         /\ Len(Image) \in 0..MaxBytes /\ MaxBytes \in Nat /\ sent \in 0..Len(Image)
         /\ Len(rx) \in Nat /\ Len(hashed) \in Nat /\ SigLen \in Nat \ {0}
         /\ signatureBytesGot \in 0..SigLen
         /\ totalSize \in Nat /\ bytesReceived \in Nat
<1>1. /\ Image \in Seq(Byte) /\ Sig \in [1..SigLen -> Byte] /\ release = <<Image, Sig>>
      /\ Len(Image) \in 0..MaxBytes /\ MaxBytes \in Nat
  BY LinkConstants DEF LinkTypeOK, Image, Sig, Signature
<1>2. Len(rx) \in Nat /\ Len(hashed) \in Nat
  BY LenProperties DEF LinkTypeOK, IInv, TypeOK, DataOK
<1>3. SigLen \in Nat \ {0} /\ signatureBytesGot \in 0..SigLen
  BY Constants DEF IInv, TypeOK, SizesOK
<1>4. totalSize \in Nat /\ bytesReceived \in Nat
  BY Constants DEF IInv, TypeOK, SizesOK
<1> QED
  BY <1>1, <1>2, <1>3, <1>4 DEF LinkTypeOK

\* Nothing is under way at first.
LEMMA LinkInitInv == LinkInit => LinkIInv
<1> SUFFICES ASSUME LinkInit PROVE LinkIInv
  OBVIOUS
<1>1. IInv /\ LinkTypeOK
  BY InitIInv, LinkInitTypes DEF LinkInit
<1>2. rx \in Seq(ItemOf({"raw", "ping"})) /\ phase = "Idle" /\ hostPc = "idle"
  BY EmptySeq DEF LinkInit, Init
<1> QED
  BY <1>1, <1>2
  DEF LinkIInv, HostInv, BeginInv, SignatureInv, StreamInv, SuccessInv, QuietInv, Sending

-----------------------------------------------------------------------------
(* The device reads data.                                                  *)

\* At the end of the stream the device has hashed the whole image.
LEMMA WholeImage ==
  ASSUME LinkIInv, hostPc \in Sending, NEW n \in 1..Len(rx), n <= MaxRead,
         LastChunk(Units(n))
  PROVE  hashed \o Units(n) = Image /\ signature = Sig
<1>1. /\ phase = "Streaming" /\ totalSize = Len(Image) /\ signature = Sig
      /\ Len(hashed) + Len(rx) = sent
      /\ \A i \in 1..sent : Image[i] = IF i <= Len(hashed)
                                       THEN hashed[i]
                                       ELSE rx[i - Len(hashed)].unit
  BY DEF LinkIInv, HostInv, StreamInv, LastChunk, ImageTurn
<1>2. /\ Image \in Seq(Byte) /\ Len(Image) \in Nat /\ sent \in 0..Len(Image)
      /\ Len(rx) \in Nat /\ Len(hashed) \in Nat /\ hashed \in Seq(Byte)
  BY Counts DEF LinkIInv, IInv, TypeOK, DataOK
<1>3. /\ Units(n) \in Seq(Byte) /\ Len(Units(n)) = n
      /\ \A i \in 1..n : Units(n)[i] = rx[i].unit
  BY UnitsRead DEF LinkIInv
<1>4. Len(hashed) + n = Len(Image)
  <2>1. bytesReceived = Len(hashed) /\ bytesReceived < totalSize
    BY <1>1 DEF LinkIInv, IInv, SessionInv, IsActive
  <2> QED
    BY <1>1, <1>2, <1>3, <2>1 DEF LastChunk, BytesRemaining
<1>5. sent = Len(Image)
  BY <1>1, <1>2, <1>4
<1>6. /\ hashed \o Units(n) \in Seq(Byte)
      /\ Len(hashed \o Units(n)) = Len(Image)
      /\ \A i \in 1..Len(Image) : (hashed \o Units(n))[i] =
            IF i <= Len(hashed) THEN hashed[i] ELSE Units(n)[i - Len(hashed)]
  <2>1. /\ hashed \o Units(n) \in Seq(Byte)
        /\ Len(hashed \o Units(n)) = Len(hashed) + Len(Units(n))
        /\ \A i \in 1..Len(hashed) + Len(Units(n)) : (hashed \o Units(n))[i] =
              IF i <= Len(hashed) THEN hashed[i] ELSE Units(n)[i - Len(hashed)]
    BY <1>2, <1>3, ConcatProperties
  <2>2. Len(hashed) + Len(Units(n)) = Len(Image)
    BY <1>3, <1>4
  <2> QED
    BY <2>1, <2>2
<1>7. ASSUME NEW i \in 1..Len(Image) PROVE (hashed \o Units(n))[i] = Image[i]
  <2>1. CASE i <= Len(hashed)
    BY <1>1, <1>2, <1>5, <1>6, <2>1
  <2>2. CASE i > Len(hashed)
    <3>1. i - Len(hashed) \in 1..n
      BY <1>2, <1>4, <2>2
    <3>2. (hashed \o Units(n))[i] = Units(n)[i - Len(hashed)]
      BY <1>2, <1>6, <2>2
    <3>3. Units(n)[i - Len(hashed)] = rx[i - Len(hashed)].unit
      BY <1>3, <3>1
    <3>4. Image[i] = rx[i - Len(hashed)].unit
      BY <1>1, <1>2, <1>5, <2>2
    <3> QED
      BY <3>2, <3>3, <3>4
  <2>3. i <= Len(hashed) \/ i > Len(hashed)
    BY <1>2
  <2> QED
    BY <2>1, <2>2, <2>3
<1> QED
  BY <1>1, <1>2, <1>6, <1>7, SeqEqual

\* Neither what the device reads of the signature nor what it reads of the
\* image is answered as an ota_begin is.
LEMMA DataSays ==
  ASSUME IInv, NEW buf \in Buffer, ReadSignature(buf) \/ ReadImage(buf)
  PROVE  out' \in Seq(Line \ {"ota_awaiting_sig"})
<1> DEFINE S == Line \ {"ota_awaiting_sig"}
<1>1. /\ <<>> \in Seq(S) /\ \A l \in S : <<l>> \in Seq(S)
      /\ \A l, m, k \in S : <<l, m, k>> \in Seq(S)
  OBVIOUS
<1>2. {"ota_ready", "write_failed", "ota_progress", "ota_finalizing", "signature_invalid",
       "update_end_failed", "ota_complete"} \subseteq S
  BY DEF Line
<1> HIDE DEF S
<1> QED
  BY <1>1, <1>2
  DEF ReadSignature, ReadImage, ImageWriteFails, ImageChunk, FinalizeRejects,
      FinalizeEndFails, FinalizeInstalls, Finalizing, S

\* The signature arrives as it was sent.
LEMMA SignatureArrives ==
  ASSUME LinkIInv, hostPc = "ackReady", hostPc' = hostPc, UNCHANGED <<release, sent>>,
         NEW n \in 1..Len(rx), n <= MaxRead, ReadSignature(Units(n)), Took(n), Emit
  PROVE  SignatureInv'
<1>1. /\ sent = 0 /\ totalSize = Len(Image) /\ rx \in Seq(ItemOf({"raw"}))
      /\ tx = <<>> /\ signatureBytesGot + Len(rx) = SigLen
      /\ \A i \in 1..SigLen : Sig[i] = IF i <= signatureBytesGot
                                       THEN signature[i]
                                       ELSE rx[i - signatureBytesGot].unit
  BY DEF LinkIInv, HostInv, SignatureInv, ReadSignature
<1>2. /\ Sig \in [1..SigLen -> Byte] /\ SigLen \in Nat /\ signatureBytesGot \in Nat
      /\ Len(rx) \in Nat /\ n \in Nat /\ n <= Len(rx)
  BY Counts DEF LinkIInv
<1>3. /\ Len(Units(n)) = n
      /\ \A i \in 1..n : Units(n)[i] = rx[i].unit
  BY UnitsRead DEF LinkIInv
<1>4. /\ rx' \in Seq(ItemOf({"raw"}))
      /\ Len(rx') = Len(rx) - n
      /\ \A i \in 1..Len(rx) - n : rx'[i] = rx[n + i]
  BY <1>1, Taken DEF Took
<1>5. /\ signatureBytesGot' = signatureBytesGot + n
      /\ signature' = [i \in 1..SigLen |->
                         IF i \in signatureBytesGot + 1 .. signatureBytesGot + n
                         THEN Units(n)[i - signatureBytesGot] ELSE signature[i]]
      /\ UNCHANGED <<totalSize, hashed>>
  BY <1>3 DEF ReadSignature
<1>6. ASSUME NEW i \in 1..SigLen
      PROVE  Sig[i] = IF i <= signatureBytesGot + n
                      THEN signature'[i]
                      ELSE rx'[i - (signatureBytesGot + n)].unit
  <2>1. CASE i <= signatureBytesGot
    BY <1>1, <1>2, <1>5, <2>1
  <2>2. CASE i > signatureBytesGot /\ i <= signatureBytesGot + n
    <3>1. i - signatureBytesGot \in 1..n
      BY <1>2, <2>2
    <3>2. Sig[i] = Units(n)[i - signatureBytesGot]
      <4>1. Sig[i] = rx[i - signatureBytesGot].unit
        BY <1>1, <1>2, <2>2
      <4> QED
        BY <1>3, <3>1, <4>1
    <3>3. signature'[i] = Units(n)[i - signatureBytesGot]
      BY <1>2, <1>5, <2>2
    <3> QED
      BY <2>2, <3>2, <3>3
  <2>3. CASE i > signatureBytesGot + n
    <3>1. /\ i - (signatureBytesGot + n) \in 1..Len(rx) - n
          /\ n + (i - (signatureBytesGot + n)) = i - signatureBytesGot
          /\ ~(i <= signatureBytesGot)
      BY <1>1, <1>2, <2>3
    <3>2. rx'[i - (signatureBytesGot + n)] = rx[i - signatureBytesGot]
      BY <1>4, <3>1
    <3> QED
      BY <1>1, <1>2, <2>3, <3>1, <3>2
  <2> QED
    BY <1>2, <2>1, <2>2, <2>3
<1>7. CASE signatureBytesGot + n < SigLen
  <2>1. phase' = "AwaitingSignature" /\ out' = <<>>
    BY <1>2, <1>5, <1>7 DEF ReadSignature
  <2>2. tx' = <<>>
    BY <1>1, <2>1 DEF Emit
  <2>3. signatureBytesGot' + Len(rx') = SigLen
    BY <1>1, <1>2, <1>4, <1>5
  <2> QED
    BY <1>1, <1>4, <1>5, <1>6, <2>1, <2>2, <2>3 DEF SignatureInv, Image, Sig
<1>8. CASE signatureBytesGot + n = SigLen
  <2>1. phase' = "Streaming" /\ out' = <<"ota_ready">>
    BY <1>5, <1>8 DEF ReadSignature
  <2>2. tx' = <<"ota_ready">>
    BY <1>1, <2>1 DEF Emit, Updating, Waiting
  <2>3. rx' = <<>>
    BY <1>1, <1>2, <1>4, <1>8, EmptySeq
  <2>4. hashed' = <<>>
    BY <1>5 DEF ReadSignature, LinkIInv, IInv, SessionInv
  <2>5. signature' = Sig
    <3>1. \A i \in 1..SigLen : Sig[i] = signature'[i]
      BY <1>2, <1>6, <1>8
    <3> QED
      BY <1>2, <1>5, <3>1
  <2> QED
    BY <1>1, <1>4, <1>5, <2>1, <2>2, <2>3, <2>4, <2>5 DEF SignatureInv, Image, Sig
<1> QED
  BY <1>1, <1>2, <1>7, <1>8

\* A chunk of the image arrives as it was sent.
LEMMA ChunkArrives ==
  ASSUME LinkIInv, hostPc \in Sending, hostPc' = hostPc, UNCHANGED <<release, sent>>,
         NEW n \in 1..Len(rx), n <= MaxRead, ImageChunk(Units(n)), Took(n), Emit
  PROVE  StreamInv'
<1>1. /\ phase = "Streaming" /\ totalSize = Len(Image) /\ signature = Sig
      /\ rx \in Seq(ItemOf({"raw"})) /\ tx \in Seq({"ota_progress"})
      /\ Len(hashed) + Len(rx) = sent
      /\ hostPc = "final" => sent = Len(Image)
      /\ \A i \in 1..sent : Image[i] = IF i <= Len(hashed)
                                       THEN hashed[i]
                                       ELSE rx[i - Len(hashed)].unit
  BY DEF LinkIInv, HostInv, StreamInv, ImageChunk, ImageTurn
<1>2. /\ sent \in Nat /\ n \in Nat /\ n <= Len(rx)
      /\ Len(rx) \in Nat /\ Len(hashed) \in Nat /\ hashed \in Seq(Byte)
  BY Counts DEF LinkIInv, IInv, TypeOK, DataOK
<1>3. /\ Units(n) \in Seq(Byte) /\ Len(Units(n)) = n
      /\ \A i \in 1..n : Units(n)[i] = rx[i].unit
  BY UnitsRead DEF LinkIInv
<1>4. /\ rx' \in Seq(ItemOf({"raw"}))
      /\ Len(rx') = Len(rx) - n
      /\ \A i \in 1..Len(rx) - n : rx'[i] = rx[n + i]
  BY <1>1, Taken DEF Took
<1>5. /\ UNCHANGED <<phase, totalSize, signature>>
      /\ hashed' = hashed \o Units(n)
      /\ out' \in {<<>>, <<"ota_progress">>}
  BY DEF ImageChunk
<1>6. /\ Len(hashed') = Len(hashed) + n
      /\ \A i \in 1..Len(hashed) + n :
            hashed'[i] = IF i <= Len(hashed) THEN hashed[i] ELSE Units(n)[i - Len(hashed)]
  <2>1. /\ Len(hashed \o Units(n)) = Len(hashed) + Len(Units(n))
        /\ \A i \in 1..Len(hashed) + Len(Units(n)) : (hashed \o Units(n))[i] =
              IF i <= Len(hashed) THEN hashed[i] ELSE Units(n)[i - Len(hashed)]
    BY <1>2, <1>3, ConcatProperties
  <2> QED
    BY <1>3, <1>5, <2>1
<1>7. tx' \in Seq({"ota_progress"})
  BY <1>1, <1>5, LinesSaid, EmptySeq DEF Emit
<1>8. ASSUME NEW i \in 1..sent
      PROVE  Image[i] = IF i <= Len(hashed')
                        THEN hashed'[i]
                        ELSE rx'[i - Len(hashed')].unit
  <2>1. CASE i <= Len(hashed)
    BY <1>1, <1>2, <1>6, <2>1
  <2>2. CASE i > Len(hashed) /\ i <= Len(hashed) + n
    <3>1. i - Len(hashed) \in 1..n /\ i \in 1..Len(hashed) + n /\ ~(i <= Len(hashed))
      BY <1>2, <2>2
    <3>2. hashed'[i] = rx[i - Len(hashed)].unit
      BY <1>3, <1>6, <3>1
    <3>3. Image[i] = rx[i - Len(hashed)].unit
      BY <1>1, <3>1
    <3> QED
      BY <1>6, <2>2, <3>2, <3>3
  <2>3. CASE i > Len(hashed) + n
    <3>1. /\ i - (Len(hashed) + n) \in 1..Len(rx) - n
          /\ n + (i - (Len(hashed) + n)) = i - Len(hashed)
          /\ ~(i <= Len(hashed)) /\ ~(i <= Len(hashed) + n)
      BY <1>1, <1>2, <2>3
    <3>2. rx'[i - (Len(hashed) + n)] = rx[i - Len(hashed)]
      BY <1>4, <3>1
    <3>3. Image[i] = rx[i - Len(hashed)].unit
      BY <1>1, <3>1
    <3> QED
      BY <1>6, <3>1, <3>2, <3>3
  <2>4. i <= Len(hashed) \/ (i > Len(hashed) /\ i <= Len(hashed) + n) \/ i > Len(hashed) + n
    BY <1>2
  <2> QED
    BY <2>1, <2>2, <2>3, <2>4
<1>9. Len(hashed') + Len(rx') = sent
  <2>1. Len(hashed') = Len(hashed) + n /\ Len(rx') = Len(rx) - n
    BY <1>4, <1>6
  <2>2. Len(hashed) + Len(rx) = sent
    BY <1>1
  <2> QED
    BY <1>2, <2>1, <2>2
<1> QED
  BY <1>1, <1>4, <1>5, <1>7, <1>8, <1>9 DEF StreamInv, Image, Sig

\* What ends the stream is said truly.
LEMMA StreamEnds ==
  ASSUME LinkIInv, hostPc \in Sending, hostPc' = hostPc, UNCHANGED <<release, sent>>,
         NEW n \in 1..Len(rx), n <= MaxRead, Took(n), Emit,
         \/ ImageWriteFails(Units(n)) \/ FinalizeRejects(Units(n))
         \/ FinalizeEndFails(Units(n)) \/ FinalizeInstalls(Units(n))
  PROVE  StreamInv'
<1> DEFINE Unsigned == Line \ {"signature_invalid"}
           Incomplete == Line \ {"ota_complete"}
<1>1. /\ phase = "Streaming" /\ rx \in Seq(ItemOf({"raw"})) /\ tx \in Seq({"ota_progress"})
      /\ hostPc = "final" => sent = Len(Image)
  BY DEF LinkIInv, HostInv, StreamInv, ImageWriteFails, FinalizeRejects,
         FinalizeEndFails, FinalizeInstalls, LastChunk, ImageTurn
<1>2. rx' \in Seq(ItemOf({"raw"}))
  BY <1>1, Taken DEF Took
<1>3. phase' = "Idle"
  BY DEF ImageWriteFails, FinalizeRejects, FinalizeEndFails, FinalizeInstalls, ResetState
<1>4. tx' = tx \o out'
  BY Stages DEF Emit
<1>5. tx \in Seq(Unsigned) /\ tx \in Seq(Incomplete)
  <2>1. {"ota_progress"} \subseteq Unsigned /\ {"ota_progress"} \subseteq Incomplete
    BY DEF Line
  <2> HIDE DEF Unsigned, Incomplete
  <2> QED
    BY <1>1, <2>1, SeqMonotonic
<1>6. release \in Signed => tx' \in Seq(Unsigned)
  <2>1. {"write_failed", "ota_progress", "ota_finalizing", "update_end_failed",
         "ota_complete"} \subseteq Unsigned
    BY DEF Line
  <2>2. CASE FinalizeRejects(Units(n))
    <3>1. <<hashed \o Units(n), signature>> \notin Signed
      BY <2>2 DEF FinalizeRejects, Verified
    <3>2. <<Image, Sig>> \notin Signed
      BY <2>2, <3>1, WholeImage DEF FinalizeRejects
    <3> QED
      BY <3>2, Counts DEF LinkIInv
  <2>3. CASE ~FinalizeRejects(Units(n))
    <3> HIDE DEF Unsigned
    <3>1. /\ \A l \in Unsigned : tx \o <<l>> \in Seq(Unsigned)
          /\ \A l, m, k \in Unsigned : tx \o <<l, m, k>> \in Seq(Unsigned)
      BY <1>5, LinesSaid
    <3> QED
      BY <1>4, <2>1, <2>3, <3>1
      DEF ImageWriteFails, FinalizeEndFails, FinalizeInstalls, Finalizing
  <2> QED
    BY <2>2, <2>3
<1>7. bootImage' # Image => tx' \in Seq(Incomplete)
  <2>1. {"write_failed", "ota_progress", "ota_finalizing", "update_end_failed",
         "signature_invalid"} \subseteq Incomplete
    BY DEF Line
  <2>2. CASE FinalizeInstalls(Units(n))
    <3>1. bootImage' = written \o Units(n) /\ written = hashed
      BY <1>1, <2>2 DEF FinalizeInstalls, LinkIInv, IInv, SessionInv, IsActive
    <3>2. hashed \o Units(n) = Image
      BY <2>2, WholeImage DEF FinalizeInstalls
    <3> QED
      BY <3>1, <3>2
  <2>3. CASE ~FinalizeInstalls(Units(n))
    <3> HIDE DEF Incomplete
    <3>1. /\ \A l \in Incomplete : tx \o <<l>> \in Seq(Incomplete)
          /\ \A l, m, k \in Incomplete : tx \o <<l, m, k>> \in Seq(Incomplete)
      BY <1>5, LinesSaid
    <3> QED
      BY <1>4, <2>1, <2>3, <3>1
      DEF ImageWriteFails, FinalizeEndFails, FinalizeRejects, Finalizing
  <2> QED
    BY <2>2, <2>3
<1> QED
  BY <1>1, <1>2, <1>3, <1>6, <1>7 DEF StreamInv, Image

\* Whatever the device reads as data, the host may still rely on all of it.
LEMMA DataKeeps ==
  ASSUME LinkIInv, DevData
  PROVE  HostInv'
<1>1. PICK n \in 1..Len(rx) :
             /\ n <= MaxRead /\ Took(n)
             /\ ReadSignature(Units(n)) \/ ReadImage(Units(n))
  BY DEF DevData
<1>2. /\ Emit /\ UNCHANGED <<hostPc, release, sent>> /\ UNCHANGED disturbed
  BY DEF DevData, hostVars
<1>3. phase # "Idle" /\ rx # <<>>
  <2>1. phase # "Idle"
    BY <1>1 DEF ReadSignature, ReadImage, ImageWriteFails, ImageChunk, FinalizeRejects,
                FinalizeEndFails, FinalizeInstalls, LastChunk, ImageTurn
  <2>2. Len(<<>>) = 0
    BY EmptySeq
  <2> QED
    BY <1>1, <2>1, <2>2
<1>4. BeginInv'
  <2> SUFFICES ASSUME hostPc = "ackBegin" PROVE BeginInv'
    BY <1>2 DEF BeginInv
  <2>1. sent = 0 /\ Len(rx) = 1 /\ tx \in Seq(Idly)
    BY <1>3 DEF LinkIInv, HostInv, BeginInv, BeginSent
  <2>2. rx' = <<>>
    <3>1. Len(rx) = 1
      BY <2>1
    <3>2. n = 1 /\ rx' = SubSeq(rx, 2, 1)
      BY <1>1, <3>1 DEF Took
    <3> QED
      BY <3>2, SubSeqEmpty
  <2>3. tx' \in Seq(Line \ {"ota_awaiting_sig"})
    <3>1. out' \in Seq(Line \ {"ota_awaiting_sig"})
      BY <1>1, UnitsRead, DataSays DEF LinkIInv
    <3>2. tx \in Seq(Line \ {"ota_awaiting_sig"})
      <4>1. Idly \subseteq Line \ {"ota_awaiting_sig"}
        BY DEF Line, Idly
      <4> QED
        BY <2>1, <4>1, SeqMonotonic
    <3> QED
      BY <1>2, <3>1, <3>2, ConcatProperties, EmptySeq DEF Emit
  <2> QED
    BY <1>2, <2>1, <2>2, <2>3 DEF BeginInv
<1>5. SignatureInv'
  <2>1. CASE hostPc = "ackReady"
    <3>1. ReadSignature(Units(n))
      BY <1>1, <1>3, <2>1, EmptySeq
      DEF LinkIInv, HostInv, SignatureInv, ReadImage, ImageWriteFails, ImageChunk,
          FinalizeRejects, FinalizeEndFails, FinalizeInstalls, LastChunk, ImageTurn
    <3> QED
      BY <1>1, <1>2, <2>1, <3>1, SignatureArrives
  <2> QED
    BY <1>2, <2>1 DEF SignatureInv
<1>6. StreamInv'
  <2>1. CASE hostPc \in Sending
    <3>1. ReadImage(Units(n))
      BY <1>1, <1>3, <2>1 DEF LinkIInv, HostInv, StreamInv, ReadSignature
    <3> QED
      BY <1>1, <1>2, <2>1, <3>1, ChunkArrives, StreamEnds DEF ReadImage
  <2> QED
    BY <1>2, <2>1 DEF StreamInv
<1>7. SuccessInv' /\ QuietInv'
  <2>1. hostPc # "ok"
    BY <1>3 DEF LinkIInv, HostInv, SuccessInv
  <2>2. ASSUME ~disturbed PROVE hostPc \in Updating /\ hostPc # "ackBegin"
    <3>1. hostPc \in Updating
      BY <1>3, <2>2 DEF LinkIInv, HostInv, QuietInv
    <3>2. hostPc # "ackBegin"
      BY <1>3, <2>2 DEF LinkIInv, HostInv, QuietInv
    <3> QED
      BY <3>1, <3>2
  <2> QED
    BY <1>2, <2>1, <2>2 DEF SuccessInv, QuietInv
<1> QED
  BY <1>4, <1>5, <1>6, <1>7 DEF HostInv

-----------------------------------------------------------------------------
(* The device reads a line, prints one, or goes away.                      *)

\* The lengths of what is not empty.
LEMMA OneOrMore ==
  ASSUME NEW S, NEW s \in Seq(S), s # <<>>
  PROVE  /\ Len(s) = 1 \/ Len(s) > 1
         /\ ~(Len(s) = 1 /\ Len(s) > 1)
<1>1. Len(s) \in Nat \ {0}
  BY EmptySeq, LenProperties
<1>2. ASSUME NEW n \in Nat \ {0} PROVE (n = 1 \/ n > 1) /\ ~(n = 1 /\ n > 1)
  OBVIOUS
<1> QED
  BY <1>1, <1>2

\* The line at the head of the port is no data, so the host in mid-update is
\* the one that wrote it.
LEMMA LineAtHead ==
  ASSUME LinkIInv, rx # <<>>, phase = "Idle", Head(rx).kind # "raw"
  PROVE  /\ hostPc \notin Sending \cup {"ackReady"}
         /\ hostPc = "ackBegin" =>
              /\ BeginSent
              /\ \/ Len(rx) = 1 /\ Head(rx) = Item("ota_begin", 0, Len(Image))
                 \/ Len(rx) > 1 /\ Head(rx).kind = "ping" /\ disturbed
         /\ Head(rx).kind = "ota_begin" =>
              hostPc # "ok" /\ (~disturbed => hostPc \in Updating)
<1>1. ASSUME NEW kinds, rx \in Seq(ItemOf(kinds)) PROVE Head(rx).kind \in kinds
  <2>1. Head(rx) \in ItemOf(kinds)
    BY <1>1, HeadTailProperties
  <2> QED
    BY <2>1 DEF ItemOf
<1>2. hostPc \notin Sending
  BY <1>1 DEF LinkIInv, HostInv, StreamInv
<1>3. hostPc # "ackReady"
  BY DEF LinkIInv, HostInv, SignatureInv
<1>4. ASSUME hostPc = "ackBegin"
      PROVE  /\ BeginSent
             /\ \/ Len(rx) = 1 /\ Head(rx) = Item("ota_begin", 0, Len(Image))
                \/ Len(rx) > 1 /\ Head(rx).kind = "ping" /\ disturbed
  <2>1. BeginSent
    BY <1>4 DEF LinkIInv, HostInv, BeginInv
  <2>2. Len(rx) \in Nat
    BY LenProperties DEF LinkIInv, LinkTypeOK
  <2>6. (Len(rx) = 1 \/ Len(rx) > 1) /\ ~(Len(rx) = 1 /\ Len(rx) > 1)
    BY OneOrMore DEF LinkIInv, LinkTypeOK
  <2>0. Head(rx) = rx[1]
    BY DEF LinkIInv, LinkTypeOK
  <2>3. CASE Len(rx) = 1
    BY <2>0, <2>1, <2>3 DEF BeginSent
  <2>4. CASE Len(rx) > 1
    <3>1. Head(rx).kind = "ping"
      <4>1. 1 \in 1..Len(rx) - 1
        BY <2>2, <2>4
      <4> QED
        BY <2>0, <2>1, <4>1 DEF BeginSent
    <3>2. ASSUME ~disturbed PROVE FALSE
      <4>1. Len(rx) = 1 \/ rx = <<>>
        BY <1>4, <3>2 DEF LinkIInv, HostInv, QuietInv
      <4> QED
        BY <2>4, <2>6, <4>1
    <3> QED
      BY <2>1, <2>4, <3>1, <3>2
  <2> QED
    BY <2>3, <2>4, <2>6
<1>5. Head(rx).kind = "ota_begin" => hostPc # "ok"
  BY <1>1 DEF LinkIInv, HostInv, SuccessInv
<1>6. Head(rx).kind = "ota_begin" => (~disturbed => hostPc \in Updating)
  BY <1>1 DEF LinkIInv, HostInv, QuietInv
<1> QED
  BY <1>2, <1>3, <1>4, <1>5, <1>6

\* The device answers the ota_begin of the host that waits for it.
LEMMA BeginAnswered ==
  ASSUME LinkIInv, hostPc = "ackBegin", hostPc' = hostPc,
         UNCHANGED <<release, sent, disturbed>>,
         BeginSent, Len(rx) = 1, OtaBegin(Len(Image)), Took(1), Emit
  PROVE  BeginInv' /\ QuietInv'
<1> DEFINE Other == Line \ {"ota_awaiting_sig"}
<1>1. rx' = <<>>
  BY SubSeqEmpty DEF Took
<1>2. sent = 0 /\ tx \in Seq(Idly) /\ rx # <<>>
  <2>1. rx # <<>>
    BY EmptySeq
  <2> QED
    BY <2>1 DEF LinkIInv, HostInv, BeginInv
<1>3. disturbed' = disturbed /\ UNCHANGED Image
  BY DEF Image
<1>4. ~disturbed => tx = <<>>
  BY <1>2 DEF LinkIInv, HostInv, QuietInv
<1>5. tx' = tx \o out'
  BY Stages DEF Emit
<1>6. CASE BeginTooSmall(Len(Image)) \/ BeginRefused(Len(Image))
  <2>1. PICK l \in {"image_too_small", "update_begin_failed"} : out' = <<l>>
    BY <1>6 DEF BeginTooSmall, BeginRefused
  <2>2. phase' = "Idle"
    BY <1>6 DEF BeginTooSmall, BeginRefused, Reset, ResetState
  <2>3. tx' \in Seq(Other)
    <3>1. Idly \subseteq Other /\ l \in Other
      BY DEF Line, Idly
    <3> HIDE DEF Other
    <3>2. tx \in Seq(Other)
      BY <1>2, <3>1, SeqMonotonic
    <3> QED
      BY <1>5, <2>1, <3>1, <3>2, LinesSaid
  <2>4. ~disturbed => tx' = <<l>>
    BY <1>4, <1>5, <2>1
  <2> QED
    BY <1>1, <1>2, <1>3, <2>2, <2>3, <2>4, Stages DEF BeginInv, QuietInv
<1>7. CASE BeginAccepted(Len(Image))
  <2>1. /\ out' = <<"ota_awaiting_sig">> /\ phase' = "AwaitingSignature"
        /\ totalSize' = Len(Image) /\ signatureBytesGot' = 0
    BY <1>7 DEF BeginAccepted
  <2>2. Len(tx) \in Nat /\ \A i \in 1..Len(tx) : tx[i] \in Idly
    BY <1>2, LenProperties, ElementOfSeq
  <2>3. /\ Len(tx') = Len(tx) + 1 /\ tx'[Len(tx')] = "ota_awaiting_sig"
        /\ \A i \in 1..Len(tx') - 1 : tx'[i] \in Idly
    <3>1. tx \in Seq(Line) /\ "ota_awaiting_sig" \in Line
      BY DEF LinkIInv, LinkTypeOK, Line
    <3>2. tx' = Append(tx, "ota_awaiting_sig")
      BY <1>5, <2>1, <3>1, AppendIsConcat
    <3>3. /\ Len(tx') = Len(tx) + 1 /\ tx'[Len(tx) + 1] = "ota_awaiting_sig"
          /\ \A i \in 1..Len(tx) : tx'[i] = tx[i]
      BY <3>1, <3>2, AppendProperties
    <3> QED
      BY <2>2, <3>3
  <2>4. ~disturbed => tx' = <<"ota_awaiting_sig">>
    BY <1>4, <1>5, <2>1
  <2>5. Len(tx') > 0
    BY <2>2, <2>3
  <2>6. BeginInv'
    BY <1>1, <1>2, <1>3, <2>1, <2>3, <2>5 DEF BeginInv
  <2>7. QuietInv'
    BY <1>1, <1>3, <2>1, <2>4, Stages DEF QuietInv
  <2> QED
    BY <2>6, <2>7
<1> QED
  BY <1>6, <1>7 DEF OtaBegin

\* A command line reaches the device outside any session.
LEMMA CommandKeeps ==
  ASSUME LinkIInv, DevCommand
  PROVE  HostInv'
<1>1. /\ rx # <<>> /\ Took(1) /\ Emit /\ UNCHANGED <<hostPc, release, sent, disturbed>>
      /\ 1 \in 1..Len(rx)
  <2>1. rx # <<>>
    BY DEF DevCommand
  <2>2. 1 \in 1..Len(rx)
    BY <2>1, EmptySeq DEF LinkIInv, LinkTypeOK
  <2> QED
    BY <2>1, <2>2 DEF DevCommand, hostVars
<1>2. phase = "Idle" /\ Head(rx).kind # "raw"
  BY DEF DevCommand, Answer, OtaBegin, BeginTooSmall, BeginRefused, BeginAccepted,
         LineTurn, IsActive
<1>3. hostPc \notin Sending \cup {"ackReady"}
  BY <1>1, <1>2, LineAtHead
<1>4. SignatureInv' /\ StreamInv'
  BY <1>1, <1>3 DEF SignatureInv, StreamInv
<1>5. CASE Head(rx).kind = "ota_begin" /\ OtaBegin(Head(rx).size)
  <2>1. CASE hostPc = "ackBegin"
    <3>1. BeginSent /\ Len(rx) = 1 /\ Head(rx) = Item("ota_begin", 0, Len(Image))
      BY <1>1, <1>2, <1>5, <2>1, LineAtHead
    <3>2. Head(rx).size = Len(Image)
      BY <3>1 DEF Item
    <3>3. BeginInv' /\ QuietInv'
      BY <1>1, <1>5, <2>1, <3>1, <3>2, BeginAnswered
    <3> QED
      BY <1>1, <1>4, <2>1, <3>3 DEF HostInv, SuccessInv
  <2>2. CASE hostPc # "ackBegin"
    <3>1. hostPc # "ok" /\ (~disturbed => hostPc \in Updating)
      BY <1>1, <1>2, <1>5, LineAtHead
    <3> QED
      BY <1>1, <1>4, <2>2, <3>1 DEF HostInv, BeginInv, SuccessInv, QuietInv
  <2> QED
    BY <2>1, <2>2
<1>6. CASE Head(rx).kind = "ping" /\ Answer(<<"pong">>)
  <2>1. ASSUME NEW kinds, rx \in Seq(ItemOf(kinds)) PROVE rx' \in Seq(ItemOf(kinds))
    BY <1>1, <2>1, Taken DEF Took
  <2>2. UNCHANGED <<phase, bootImage>> /\ out' = <<"pong">>
    BY <1>6 DEF Answer, sessionVars
  <2>3. SuccessInv'
    BY <1>1, <2>1, <2>2 DEF LinkIInv, HostInv, SuccessInv, Image
  <2>4. CASE hostPc # "ackBegin"
    <3>1. QuietInv'
      BY <1>1, <2>4, <2>1, <2>2 DEF LinkIInv, HostInv, QuietInv
    <3> QED
      BY <1>1, <1>4, <2>3, <2>4, <3>1 DEF HostInv, BeginInv
  <2>5. CASE hostPc = "ackBegin"
    <3>1. BeginSent /\ Len(rx) > 1 /\ disturbed
      <4>1. Item("ota_begin", 0, Len(Image)).kind = "ota_begin"
        BY DEF Item
      <4> QED
        BY <1>1, <1>2, <1>6, <2>5, <4>1, LineAtHead
    <3>2. /\ Len(rx) \in Nat /\ Len(rx') = Len(rx) - 1
          /\ \A i \in 1..Len(rx) - 1 : rx'[i] = rx[1 + i]
      BY <1>1, Taken, LenProperties DEF Took, LinkIInv, LinkTypeOK
    <3>3. BeginSent'
      <4>1. Len(rx') > 0 /\ rx'[Len(rx')] = rx[Len(rx)]
        BY <3>1, <3>2
      <4>2. \A i \in 1..Len(rx') - 1 : rx'[i].kind = "ping"
        BY <3>1, <3>2 DEF BeginSent
      <4> QED
        BY <1>1, <1>2, <2>2, <3>1, <4>1, <4>2 DEF BeginSent, Image
    <3>4. sent = 0 /\ tx \in Seq(Idly)
      <4>1. rx # <<>>
        BY <1>1
      <4> QED
        BY <2>5, <4>1 DEF LinkIInv, HostInv, BeginInv
    <3>5. tx' \in Seq(Idly)
      <4>1. tx' = tx \o <<"pong">> /\ "pong" \in Idly
        BY <1>1, <2>2, <2>5, Stages DEF Emit, Idly
      <4> QED
        BY <3>4, <4>1, LinesSaid
    <3> QED
      BY <1>1, <1>4, <2>3, <2>5, <3>1, <3>3, <3>4, <3>5 DEF HostInv, BeginInv, QuietInv
  <2> QED
    BY <2>4, <2>5
<1> QED
  BY <1>5, <1>6 DEF DevCommand

\* Left-over data taken for a line say nothing a host waits for.
LEMMA JunkKeeps ==
  ASSUME LinkIInv, DevJunk
  PROVE  HostInv'
<1>1. PICK n \in 1..Len(rx) :
             /\ \A i \in 1..n : rx[i].kind # "raw" => i = n /\ n > 1
             /\ Answer(<<"invalid_json">>) \/ Answer(<<>>)
             /\ Took(n)
  BY DEF DevJunk
<1>2. /\ Emit /\ UNCHANGED <<hostPc, release, sent, disturbed>>
      /\ phase = "Idle" /\ UNCHANGED <<phase, bootImage>>
  BY <1>1 DEF DevJunk, hostVars, Answer, LineTurn, IsActive, sessionVars
<1>3. ASSUME NEW kinds, rx \in Seq(ItemOf(kinds)) PROVE rx' \in Seq(ItemOf(kinds))
  BY <1>1, <1>3, Taken DEF Took
<1>4. rx # <<>> /\ ~BeginSent
  <2>1. rx # <<>> /\ Len(rx) \in Nat \ {0}
    <3>1. rx # <<>>
      BY <1>1, EmptySeq
    <3> QED
      BY <3>1, EmptySeq, LenProperties DEF LinkIInv, LinkTypeOK
  <2>2. CASE BeginSent
    <3>1. rx[1].kind # "raw"
      BY <2>1, <2>2 DEF BeginSent, Item
    <3> QED
      BY <1>1, <2>1, <3>1
  <2> QED
    BY <2>1, <2>2
<1>5. hostPc # "ackBegin" /\ hostPc # "ackReady"
  BY <1>2, <1>4 DEF LinkIInv, HostInv, BeginInv, SignatureInv
<1>6. StreamInv'
  <2> SUFFICES ASSUME hostPc \in Sending PROVE StreamInv'
    BY <1>2 DEF StreamInv
  <2>1. /\ rx \in Seq(ItemOf({"raw"})) /\ (hostPc = "final" => sent = Len(Image))
        /\ release \in Signed => tx \in Seq(Line \ {"signature_invalid"})
        /\ bootImage # Image => tx \in Seq(Line \ {"ota_complete"})
    BY <1>2 DEF LinkIInv, HostInv, StreamInv
  <2>2. tx' = tx \o out' /\ out' \in {<<>>, <<"invalid_json">>}
    BY <1>1, <1>2, Stages DEF Emit, Answer
  <2>3. ASSUME NEW S, tx \in Seq(S), "invalid_json" \in S PROVE tx' \in Seq(S)
    BY <2>2, <2>3, LinesSaid
  <2>4. /\ "invalid_json" \in Line \ {"signature_invalid"}
        /\ "invalid_json" \in Line \ {"ota_complete"}
    BY DEF Line
  <2> QED
    BY <1>2, <1>3, <2>1, <2>3, <2>4 DEF StreamInv, Image
<1>7. SuccessInv'
  BY <1>2, <1>3 DEF LinkIInv, HostInv, SuccessInv, Image
<1>8. QuietInv'
  BY <1>2, <1>3, <1>5 DEF LinkIInv, HostInv, QuietInv
<1> QED
  BY <1>2, <1>5, <1>6, <1>7, <1>8 DEF HostInv, BeginInv, SignatureInv

\* A beacon is no answer, and whoever takes it for one is disturbed.
LEMMA BeaconKeeps ==
  ASSUME LinkIInv, DevBeacon
  PROVE  HostInv'
<1>1. /\ Emit /\ UNCHANGED <<rx, hostPc, release, sent>>
      /\ phase = "Idle" /\ UNCHANGED <<phase, bootImage>> /\ out' = <<"mqtt_connected">>
  BY DEF DevBeacon, hostVars, Answer, LineTurn, IsActive, sessionVars
<1>2. disturbed' = (disturbed \/ hostPc \in Updating)
  BY DEF DevBeacon
<1>3. ASSUME NEW S, tx \in Seq(S), "mqtt_connected" \in S, hostPc \in Updating
      PROVE  tx' \in Seq(S)
  BY <1>1, <1>3, LinesSaid DEF Emit
<1>4. {"mqtt_connected"} \subseteq Line \ {"ota_awaiting_sig", "signature_invalid",
                                            "ota_complete"}
  BY DEF Line
<1>5. BeginInv'
  <2>1. CASE hostPc = "ackBegin"
    <3>1. sent = 0 /\ \/ BeginSent /\ tx \in Seq(Idly)
                      \/ rx = <<>> /\ tx \in Seq(Line \ {"ota_awaiting_sig"})
      BY <1>1, <2>1 DEF LinkIInv, HostInv, BeginInv
    <3>2. hostPc \in Updating
      BY <2>1, Stages
    <3>3. "mqtt_connected" \in Idly /\ (BeginSent => BeginSent')
      BY <1>1 DEF Idly, BeginSent, Image
    <3> QED
      BY <1>1, <1>3, <1>4, <2>1, <3>1, <3>2, <3>3 DEF BeginInv
  <2> QED
    BY <1>1, <2>1 DEF BeginInv
<1>6. SignatureInv'
  BY <1>1 DEF LinkIInv, HostInv, SignatureInv
<1>7. StreamInv'
  BY <1>1, <1>3, <1>4, Stages DEF LinkIInv, HostInv, StreamInv, Image
<1>8. SuccessInv' /\ QuietInv'
  BY <1>1, <1>2, Stages DEF LinkIInv, HostInv, SuccessInv, QuietInv, Image
<1> QED
  BY <1>5, <1>6, <1>7, <1>8 DEF HostInv

\* A restart empties the session and the port, and fails the update.
LEMMA PortLostKeeps ==
  ASSUME LinkIInv, DevRestart \/ DevPowerCut
  PROVE  HostInv'
<1>1. PortLost /\ phase' = "Idle" /\ UNCHANGED bootImage
  BY DEF DevRestart, DevPowerCut, Restart, PowerCut, Boot
<1>2. /\ rx' = <<>> /\ hostPc' \notin Updating /\ UNCHANGED release
      /\ hostPc' = "ok" => hostPc = "ok"
  BY <1>1, Stages DEF PortLost
<1>3. rx' \in Seq(ItemOf({"raw", "ping"}))
  BY <1>2, EmptySeq
<1> QED
  BY <1>1, <1>2, <1>3, Stages
  DEF LinkIInv, HostInv, BeginInv, SignatureInv, StreamInv, SuccessInv, QuietInv, Image

-----------------------------------------------------------------------------
(* The host reads a line.                                                  *)

\* The first line not read yet is of the kind the rest are, and so is the rest.
LEMMA LineRead ==
  ASSUME NEW S, NEW s \in Seq(S), s # <<>>
  PROVE  Head(s) \in S /\ Tail(s) \in Seq(S)
  BY HeadTailProperties

\* The answer the host waits for at the beginning is the only line there is.
LEMMA BeginHeard ==
  ASSUME LinkIInv, hostPc = "ackBegin", tx # <<>>, Head(tx) = "ota_awaiting_sig"
  PROVE  /\ sent = 0 /\ rx = <<>> /\ Tail(tx) = <<>>
         /\ phase = "AwaitingSignature" /\ signatureBytesGot = 0
         /\ totalSize = Len(Image)
<1>1. ~(tx \in Seq(Idly)) /\ ~(tx \in Seq(Line \ {"ota_awaiting_sig"}))
  BY LineRead DEF Idly
<1>2. /\ sent = 0 /\ rx = <<>>
      /\ phase = "AwaitingSignature" /\ signatureBytesGot = 0
      /\ totalSize = Len(Image)
      /\ \A i \in 1..Len(tx) - 1 : tx[i] \in Idly
  BY <1>1 DEF LinkIInv, HostInv, BeginInv
<1>3. tx \in Seq(Line) /\ Len(tx) \in Nat /\ Len(tx) > 0 /\ Head(tx) = tx[1]
  BY EmptySeq DEF LinkIInv, LinkTypeOK
<1>4. Len(tx) = 1
  <2>1. CASE Len(tx) > 1
    <3>1. 1 \in 1..Len(tx) - 1
      BY <1>3, <2>1
    <3> QED
      BY <1>2, <1>3, <3>1 DEF Idly
  <2>2. Len(tx) \in Nat /\ Len(tx) > 0
    BY <1>3
  <2> QED
    BY <2>1, <2>2
<1>5. Tail(tx) \in Seq(Line) /\ Len(Tail(tx)) = 0
  BY <1>3, <1>4, HeadTailProperties
<1> QED
  BY <1>2, <1>5, EmptySeq

\* The signature is written once the session is the host's own.
LEMMA SignatureKeeps ==
  ASSUME LinkIInv, HostSignature
  PROVE  HostInv'
<1>1. /\ hostPc = "ackBegin" /\ tx # <<>> /\ Head(tx) = "ota_awaiting_sig"
      /\ tx' = Tail(tx) /\ rx' = rx \o Raw(Sig) /\ hostPc' = "ackReady"
      /\ UNCHANGED <<release, sent>>
      /\ UNCHANGED <<phase, totalSize, signature, signatureBytesGot>>
  BY DEF HostSignature, Reply, fwVars, sessionVars
<1>2. /\ sent = 0 /\ rx = <<>> /\ tx' = <<>>
      /\ phase = "AwaitingSignature" /\ signatureBytesGot = 0
      /\ totalSize = Len(Image)
  BY <1>1, BeginHeard
<1>3. Sig \in [1..SigLen -> Byte] /\ SigLen \in Nat /\ Sig \in Seq(Byte) /\ Len(Sig) = SigLen
  <2>1. Sig \in [1..SigLen -> Byte] /\ SigLen \in Nat
    BY Counts DEF LinkIInv
  <2> QED
    BY <2>1
<1>4. /\ Raw(Sig) \in Seq(ItemOf({"raw"})) /\ Len(Raw(Sig)) = SigLen
      /\ \A i \in 1..SigLen : Raw(Sig)[i].unit = Sig[i]
  BY <1>3, RawWritten
<1>5. rx' = Raw(Sig)
  BY <1>1, <1>2, <1>4, ConcatEmptySeq
<1>6. ASSUME NEW i \in 1..SigLen
      PROVE  Sig[i] = IF i <= 0 THEN signature[i] ELSE rx'[i - 0].unit
  <2>1. ~(i <= 0) /\ i - 0 = i
    BY <1>3
  <2> QED
    BY <1>4, <1>5, <2>1
<1>7. SignatureInv'
  <2>1. signatureBytesGot' + Len(rx') = SigLen
    BY <1>1, <1>2, <1>3, <1>4, <1>5
  <2> QED
    BY <1>1, <1>2, <1>4, <1>5, <1>6, <2>1 DEF SignatureInv, Image, Sig
<1> QED
  BY <1>1, <1>7, Stages DEF HostInv, BeginInv, StreamInv, SuccessInv, QuietInv, Sending

\* Streaming begins with nothing sent and nothing hashed.
LEMMA ReadyKeeps ==
  ASSUME LinkIInv, HostReady
  PROVE  HostInv'
<1>1. /\ hostPc = "ackReady" /\ tx # <<>>
      /\ tx' = Tail(tx) /\ hostPc' = "stream" /\ UNCHANGED rx
      /\ UNCHANGED <<release, sent>>
      /\ UNCHANGED <<phase, totalSize, signature, hashed>>
  BY DEF HostReady, Reply, fwVars, sessionVars
<1>2. /\ sent = 0 /\ totalSize = Len(Image) /\ rx \in Seq(ItemOf({"raw"}))
      /\ phase = "Streaming" /\ tx = <<"ota_ready">>
      /\ rx = <<>> /\ hashed = <<>> /\ signature = Sig
  BY <1>1 DEF LinkIInv, HostInv, SignatureInv
<1>3. tx' = <<>> /\ tx' \in Seq({"ota_progress"})
  BY <1>1, <1>2, EmptySeq
<1>4. Len(hashed') + Len(rx') = sent'
  BY <1>1, <1>2, EmptySeq
<1>5. StreamInv'
  BY <1>1, <1>2, <1>3, <1>4 DEF StreamInv, Image, Sig
<1> QED
  BY <1>1, <1>5, Stages DEF HostInv, BeginInv, SignatureInv, SuccessInv, QuietInv, Sending

\* ota_complete is read only when the image is installed.
LEMMA CompleteKeeps ==
  ASSUME LinkIInv, HostComplete
  PROVE  HostInv'
<1>1. /\ hostPc = "final" /\ tx # <<>> /\ Head(tx) = "ota_complete"
      /\ hostPc' = "ok" /\ UNCHANGED <<rx, release, phase, bootImage>>
  BY DEF HostComplete, Reply, fwVars, sessionVars
<1>2. /\ ~(tx \in Seq({"ota_progress"})) /\ ~(tx \in Seq(Line \ {"ota_complete"}))
  BY <1>1, LineRead
<1>3. rx \in Seq(ItemOf({"raw"})) /\ phase = "Idle" /\ bootImage = Image
  BY <1>1, <1>2 DEF LinkIInv, HostInv, StreamInv, Sending
<1>4. rx \in Seq(ItemOf({"raw", "ping"}))
  BY <1>3, KindsGrow
<1> QED
  BY <1>1, <1>3, <1>4, Stages
  DEF HostInv, BeginInv, SignatureInv, StreamInv, SuccessInv, QuietInv, Image, Sending

\* Any other answer ends the update; undisturbed, the device has none open then.
LEMMA RejectedKeeps ==
  ASSUME LinkIInv, HostRejected
  PROVE  HostInv'
<1>1. /\ hostPc \in Waiting /\ tx # <<>>
      /\ Head(tx) \notin Skipped \cup {Wanted[hostPc]}
      /\ hostPc' = "failed" /\ UNCHANGED <<rx, disturbed, phase>>
  BY DEF HostRejected, Reply, fwVars, sessionVars
<1>2. hostPc \in {"ackBegin", "ackReady", "final"}
  BY <1>1, Stages
<1>3. ASSUME ~disturbed PROVE phase = "Idle" /\ rx \in Seq(ItemOf({"raw", "ping"}))
  <2>1. CASE hostPc = "ackBegin"
    <3>1. Head(tx) # "ota_awaiting_sig"
      BY <1>1, <2>1, Stages DEF Wanted
    <3>2. rx = <<>> /\ phase = "Idle"
      BY <1>1, <1>3, <2>1, <3>1 DEF LinkIInv, HostInv, QuietInv
    <3> QED
      BY <3>2, EmptySeq
  <2>2. CASE hostPc = "ackReady"
    <3>1. Head(tx) # "ota_ready"
      BY <1>1, <2>2, Stages DEF Wanted
    <3> QED
      BY <1>1, <2>2, <3>1 DEF LinkIInv, HostInv, SignatureInv
  <2>3. CASE hostPc = "final"
    <3>1. ~(tx \in Seq({"ota_progress"}))
      BY <1>1, LineRead DEF Skipped
    <3>2. rx \in Seq(ItemOf({"raw"})) /\ phase = "Idle"
      BY <2>3, <3>1 DEF LinkIInv, HostInv, StreamInv, Sending
    <3> QED
      BY <3>2, KindsGrow
  <2> QED
    BY <1>2, <2>1, <2>2, <2>3
<1>4. QuietInv'
  BY <1>1, <1>3 DEF QuietInv
<1> QED
  BY <1>1, <1>4, Stages DEF HostInv, BeginInv, SignatureInv, StreamInv, SuccessInv, Sending

\* A line thrown away was not the one the host waits for.
LEMMA SkipsKeeps ==
  ASSUME LinkIInv, HostSkips \/ HostDiscards
  PROVE  HostInv'
<1>1. /\ tx # <<>> /\ tx' = Tail(tx)
      /\ UNCHANGED <<rx, hostPc, release, sent, disturbed>>
      /\ UNCHANGED <<phase, totalSize, signature, hashed, bootImage>>
      /\ UNCHANGED <<signatureBytesGot>>
  BY DEF HostSkips, HostDiscards, hostVars, fwVars, sessionVars
<1>2. hostPc \notin {"idle", "ok", "failed", "dead"}
      /\ (hostPc \in {"ackBegin", "ackReady"} => Head(tx) \in Skipped)
  BY Stages DEF HostSkips, HostDiscards, Updating
<1>3. ASSUME NEW S, tx \in Seq(S) PROVE tx' \in Seq(S)
  BY <1>1, <1>3, LineRead
<1>4. CASE hostPc = "ackBegin"
  <2>1. Head(tx) \notin Idly \cup {"ota_awaiting_sig", "image_too_small",
                                  "update_begin_failed"}
    BY <1>2, <1>4 DEF Skipped, Idly
  <2>2. ~(tx \in Seq(Idly))
    BY <1>1, <2>1, LineRead
  <2>3. tx \in Seq(Line) /\ Len(tx) \in Nat /\ Len(tx) > 0 /\ Head(tx) = tx[1]
    BY <1>1, EmptySeq DEF LinkIInv, LinkTypeOK
  <2>4. ~(tx[Len(tx)] = "ota_awaiting_sig" /\ \A i \in 1..Len(tx) - 1 : tx[i] \in Idly)
    <3>1. CASE Len(tx) = 1
      BY <2>1, <2>3, <3>1
    <3>2. CASE Len(tx) > 1
      <4>1. 1 \in 1..Len(tx) - 1
        BY <2>3, <3>2
      <4> QED
        BY <2>1, <2>3, <4>1
    <3>3. Len(tx) = 1 \/ Len(tx) > 1
      <4>1. \A k \in Nat : k > 0 => k = 1 \/ k > 1
        OBVIOUS
      <4> QED
        BY ONLY <2>3, <4>1
    <3> QED
      BY <3>1, <3>2, <3>3
  <2>5. sent = 0 /\ rx = <<>> /\ tx \in Seq(Line \ {"ota_awaiting_sig"})
    BY <1>4, <2>2, <2>4 DEF LinkIInv, HostInv, BeginInv
  <2>6. BeginInv'
    BY <1>1, <1>3, <2>5 DEF BeginInv
  <2>7. disturbed
    BY <1>1, <1>4, <2>1 DEF LinkIInv, HostInv, QuietInv
  <2> QED
    BY <1>1, <1>4, <2>6, <2>7
    DEF HostInv, SignatureInv, StreamInv, SuccessInv, QuietInv, Sending
<1>5. CASE hostPc = "ackReady"
  BY <1>1, <1>2, <1>5 DEF LinkIInv, HostInv, SignatureInv, Skipped
<1>6. CASE hostPc \in Sending
  <2>1. StreamInv'
    BY <1>1, <1>3 DEF LinkIInv, HostInv, StreamInv, Image, Sig
  <2> QED
    BY <1>1, <1>6, <2>1, Stages
    DEF HostInv, BeginInv, SignatureInv, SuccessInv, QuietInv, Sending
<1>7. hostPc \in Sending \cup {"ackBegin", "ackReady"}
  BY <1>2, Stages DEF LinkIInv, LinkTypeOK
<1> QED
  BY <1>4, <1>5, <1>6, <1>7

-----------------------------------------------------------------------------
(* The host writes, waits, stops and starts.                               *)

\* A chunk written continues what the device has hashed and has yet to read.
LEMMA WritesKeeps ==
  ASSUME LinkIInv, HostWrites
  PROVE  HostInv'
<1>1. /\ hostPc = "stream" /\ hostPc' = "drain"
      /\ rx' = rx \o Raw(NextChunk) /\ sent' = sent + Len(NextChunk)
      /\ UNCHANGED <<tx, release>>
      /\ UNCHANGED <<phase, totalSize, signature, hashed, bootImage>>
  BY DEF HostWrites, fwVars, sessionVars
<1>2. /\ NextChunk \in Seq(Byte) /\ Len(NextChunk) \in Nat
      /\ \A i \in 1..Len(NextChunk) : NextChunk[i] = Image[sent + i]
  <2>1. NextChunk \in Seq(Byte)
    BY ChunkIsNext DEF LinkIInv
  <2> QED
    BY <2>1, ChunkIsNext, LenProperties DEF LinkIInv
<1>3. /\ Raw(NextChunk) \in Seq(ItemOf({"raw"})) /\ Len(Raw(NextChunk)) = Len(NextChunk)
      /\ \A i \in 1..Len(NextChunk) : Raw(NextChunk)[i].unit = NextChunk[i]
  BY <1>2, RawWritten
<1>4. rx \in Seq(ItemOf({"raw"}))
  BY <1>1 DEF LinkIInv, HostInv, StreamInv, Sending
<1>5. /\ rx' \in Seq(ItemOf({"raw"}))
      /\ Len(rx') = Len(rx) + Len(NextChunk)
      /\ \A i \in 1..Len(rx) + Len(NextChunk) :
            rx'[i] = IF i <= Len(rx) THEN rx[i] ELSE Raw(NextChunk)[i - Len(rx)]
  <2>1. ASSUME NEW S, NEW s \in Seq(S), NEW t \in Seq(S)
        PROVE  /\ s \o t \in Seq(S) /\ Len(s \o t) = Len(s) + Len(t)
               /\ \A i \in 1..Len(s) + Len(t) :
                     (s \o t)[i] = IF i <= Len(s) THEN s[i] ELSE t[i - Len(s)]
    BY ConcatProperties
  <2>2. /\ rx \o Raw(NextChunk) \in Seq(ItemOf({"raw"}))
        /\ Len(rx \o Raw(NextChunk)) = Len(rx) + Len(Raw(NextChunk))
        /\ \A i \in 1..Len(rx) + Len(Raw(NextChunk)) :
              (rx \o Raw(NextChunk))[i] =
                 IF i <= Len(rx) THEN rx[i] ELSE Raw(NextChunk)[i - Len(rx)]
    BY <1>3, <1>4, <2>1
  <2> QED
    BY <1>1, <1>3, <2>2
<1>6. StreamInv'
  <2>1. CASE phase = "Idle"
    BY <1>1, <1>5, <2>1 DEF LinkIInv, HostInv, StreamInv, Sending, Image
  <2>2. CASE phase # "Idle"
    <3>1. /\ phase = "Streaming" /\ totalSize = Len(Image) /\ signature = Sig
          /\ tx \in Seq({"ota_progress"})
          /\ Len(hashed) + Len(rx) = sent
          /\ \A i \in 1..sent : Image[i] = IF i <= Len(hashed)
                                           THEN hashed[i]
                                           ELSE rx[i - Len(hashed)].unit
      BY <1>1, <2>2 DEF LinkIInv, HostInv, StreamInv, Sending
    <3>2. Len(rx) \in Nat /\ Len(hashed) \in Nat /\ sent \in Nat
      BY Counts DEF LinkIInv
    <3>3. Len(hashed) + Len(rx') = sent'
      <4>1. Len(rx') = Len(rx) + Len(NextChunk) /\ sent' = sent + Len(NextChunk)
            /\ Len(hashed) + Len(rx) = sent /\ Len(NextChunk) \in Nat
        BY <1>1, <1>2, <1>5, <3>1
      <4> QED
        BY <3>2, <4>1
    <3>4. ASSUME NEW i \in 1..sent + Len(NextChunk)
          PROVE  Image[i] = IF i <= Len(hashed)
                            THEN hashed[i]
                            ELSE rx'[i - Len(hashed)].unit
      <4>1. CASE i <= Len(hashed)
        <5>1. i \in 1..sent
          BY <3>1, <3>2, <4>1
        <5> QED
          BY <3>1, <4>1, <5>1
      <4>2. CASE i > Len(hashed) /\ i <= sent
        <5>1. /\ i \in 1..sent /\ ~(i <= Len(hashed))
              /\ i - Len(hashed) \in 1..Len(rx) + Len(NextChunk)
              /\ i - Len(hashed) <= Len(rx)
          BY <1>2, <3>1, <3>2, <4>2
        <5>2. rx'[i - Len(hashed)] = rx[i - Len(hashed)]
          BY <1>5, <5>1
        <5> QED
          BY <3>1, <5>1, <5>2
      <4>3. CASE i > sent
        <5>1. /\ i - sent \in 1..Len(NextChunk) /\ sent + (i - sent) = i
              /\ ~(i <= Len(hashed)) /\ ~(i - Len(hashed) <= Len(rx))
              /\ i - Len(hashed) \in 1..Len(rx) + Len(NextChunk)
              /\ (i - Len(hashed)) - Len(rx) = i - sent
          <6>1. Len(hashed) + Len(rx) = sent /\ Len(NextChunk) \in Nat
            BY <1>2, <3>1
          <6> QED
            BY ONLY <3>2, <3>4, <4>3, <6>1
        <5>2. rx'[i - Len(hashed)] = Raw(NextChunk)[i - sent]
          BY <1>5, <5>1
        <5>3. Raw(NextChunk)[i - sent].unit = Image[i]
          BY <1>2, <1>3, <5>1
        <5> QED
          BY <5>1, <5>2, <5>3
      <4>4. i <= Len(hashed) \/ (i > Len(hashed) /\ i <= sent) \/ i > sent
        BY <1>2, <3>2
      <4> QED
        BY <4>1, <4>2, <4>3, <4>4
    <3> QED
      BY <1>1, <1>5, <3>1, <3>3, <3>4 DEF StreamInv, Image, Sig
  <2> QED
    BY <2>1, <2>2
<1> QED
  BY <1>1, <1>6, Stages DEF HostInv, BeginInv, SignatureInv, SuccessInv, QuietInv, Sending

\* The stream ends when all of the image is written.
LEMMA DrainedKeeps ==
  ASSUME LinkIInv, HostDrained
  PROVE  HostInv'
<1>1. /\ hostPc = "drain" /\ hostPc' \in {"final", "stream"}
      /\ hostPc' = "final" => sent = Len(Image)
      /\ UNCHANGED <<rx, tx, release, sent>>
      /\ UNCHANGED <<phase, totalSize, signature, hashed, bootImage>>
  BY DEF HostDrained, fwVars, sessionVars
<1>2. StreamInv'
  BY <1>1 DEF LinkIInv, HostInv, StreamInv, Sending, Image, Sig
<1> QED
  BY <1>1, <1>2, Stages DEF HostInv, BeginInv, SignatureInv, SuccessInv, QuietInv, Sending

\* A deadline leaves a session, or what may become one, only where it is said.
LEMMA TimesOutKeeps ==
  ASSUME LinkIInv, HostTimesOut
  PROVE  HostInv'
<1>1. /\ hostPc \in {"ackBegin", "ackReady", "final"} /\ tx = <<>>
      /\ IsActive => rx = <<>>
      /\ hostPc' = "failed" /\ UNCHANGED <<rx, phase>>
      /\ disturbed' = (disturbed \/ (hostPc = "ackBegin" /\ rx # <<>>))
  BY Stages DEF HostTimesOut, fwVars, sessionVars
<1>2. rx = <<>> => Len(rx) = 0 /\ rx \in Seq(ItemOf({"raw", "ping"}))
  BY EmptySeq
<1>3. ASSUME ~disturbed' PROVE phase = "Idle" /\ rx \in Seq(ItemOf({"raw", "ping"}))
  <2>1. CASE hostPc = "ackBegin"
    <3>1. rx = <<>> /\ ~disturbed
      BY <1>1, <1>3, <2>1
    <3>2. ~(Len(rx) = 1)
      BY <1>2, <3>1
    <3> QED
      BY <1>1, <1>2, <2>1, <3>1, <3>2 DEF LinkIInv, HostInv, QuietInv
  <2>2. CASE hostPc = "ackReady"
    <3>1. phase = "AwaitingSignature" /\ signatureBytesGot + Len(rx) = SigLen
      BY <1>1, <2>2 DEF LinkIInv, HostInv, SignatureInv
    <3>2. signatureBytesGot < SigLen /\ signatureBytesGot \in Nat /\ Len(rx) = 0
      BY <1>1, <1>2, <3>1, Counts DEF LinkIInv, IInv, SessionInv, IsActive
    <3> QED
      BY <3>1, <3>2
  <2>3. CASE hostPc = "final" /\ phase # "Idle"
    <3>0. Len(rx) = 0
      BY <1>1, <1>2, <2>3 DEF IsActive
    <3>1. phase = "Streaming" /\ totalSize = Len(Image) /\ Len(hashed) + 0 = sent
          /\ sent = Len(Image)
      BY <2>3, <3>0 DEF LinkIInv, HostInv, StreamInv, Sending
    <3>2. bytesReceived = Len(hashed) /\ bytesReceived < totalSize
      BY <3>1 DEF LinkIInv, IInv, SessionInv, IsActive
    <3>3. Len(hashed) \in Nat /\ totalSize \in Nat
      BY Counts DEF LinkIInv
    <3> QED
      BY <3>1, <3>2, <3>3
  <2>4. CASE hostPc = "final" /\ phase = "Idle"
    <3>1. rx \in Seq(ItemOf({"raw"}))
      BY <2>4 DEF LinkIInv, HostInv, StreamInv, Sending
    <3> QED
      BY <2>4, <3>1, KindsGrow
  <2> QED
    BY <1>1, <2>1, <2>2, <2>3, <2>4
<1>4. QuietInv'
  BY <1>1, <1>3 DEF QuietInv
<1> QED
  BY <1>1, <1>4, Stages DEF HostInv, BeginInv, SignatureInv, StreamInv, SuccessInv, Sending

\* One item written behind what is on the way: it is the last, and nothing
\* in front of it moves (update_firmware, serial_client.py:347).
LEMMA OneAppended ==
  ASSUME NEW S, NEW s \in Seq(S), NEW t \in Seq(S), Len(t) = 1
  PROVE  /\ Len(s) \in Nat
         /\ Len(s \o t) = Len(s) + 1
         /\ (s \o t)[Len(s) + 1] = t[1]
         /\ \A i \in 1..Len(s) : (s \o t)[i] = s[i]
<1>1. Len(s) \in Nat
  BY LenProperties
<1>2. Len(s \o t) = Len(s) + Len(t)
  BY ConcatProperties
<1>3. \A i \in 1..(Len(s) + Len(t)) :
        (s \o t)[i] = IF i <= Len(s) THEN s[i] ELSE t[i - Len(s)]
  BY ConcatProperties
<1> QED
  BY <1>1, <1>2, <1>3

\* An update begins with one line on the port, behind the pings.
LEMMA BeginKeeps ==
  ASSUME LinkIInv, NEW r \in Releases, HostBegin(r)
  PROVE  HostInv'
<1>1. /\ hostPc \notin Updating /\ hostPc' = "ackBegin"
      /\ release' = r /\ sent' = 0 /\ tx' = <<>>
      /\ rx' = rx \o Command("ota_begin", Len(r[1])) /\ UNCHANGED phase
      /\ IF IsActive THEN rx = <<>> ELSE \A i \in 1..Len(rx) : rx[i].kind = "ping"
      /\ disturbed' = ((disturbed /\ IsActive) \/ rx # <<>>)
  BY DEF HostBegin, fwVars, sessionVars
<1> DEFINE line == Command("ota_begin", Len(r[1]))
<1>2. line \in Seq(ItemOf({"ota_begin"})) /\ Len(line) = 1 /\ Image' = r[1]
      /\ line[1] = Item("ota_begin", 0, Len(Image'))
  <2>1. Len(r[1]) \in 0..MaxBytes /\ Image' = r[1]
    BY <1>1, LinkConstants DEF Image
  <2> QED
    BY <2>1, CommandWritten
<1>3. /\ Len(rx) \in Nat /\ Len(rx') = Len(rx) + 1
      /\ rx'[Len(rx) + 1] = line[1]
      /\ \A i \in 1..Len(rx) : rx'[i] = rx[i]
  <2>1. rx \in Seq(ItemOf(Kind)) /\ line \in Seq(ItemOf(Kind)) /\ Len(rx) \in Nat
    <3>1. {"ota_begin"} \subseteq Kind
      BY DEF Kind
    <3> QED
      BY <1>2, <3>1, KindsGrow, LenProperties DEF LinkIInv, LinkTypeOK
  <2>2. rx' = rx \o line
    BY <1>1
  <2> HIDE DEF line
  <2> QED
    BY <1>2, <2>1, <2>2, OneAppended
<1> HIDE DEF line
<1>4. BeginSent' /\ (rx = <<>> => Len(rx') = 1)
  <2>1. rx = <<>> => Len(rx) = 0
    BY EmptySeq
  <2>2. \A i \in 1..Len(rx') - 1 : rx'[i].kind = "ping"
    BY <1>1, <1>3, <2>1
  <2>3. rx'[Len(rx')] = Item("ota_begin", 0, Len(Image')) /\ Len(rx') > 0
    BY <1>2, <1>3
  <2> QED
    BY <1>1, <1>3, <2>1, <2>2, <2>3 DEF BeginSent, IsActive
<1>5. tx' \in Seq(Idly)
  BY <1>1, EmptySeq
<1>6. BeginInv'
  BY <1>1, <1>4, <1>5 DEF BeginInv
<1>7. QuietInv'
  <2> SUFFICES ASSUME ~disturbed' PROVE QuietInv'
    BY DEF QuietInv
  <2>1. rx = <<>> /\ phase = "Idle"
    BY <1>1 DEF LinkIInv, HostInv, QuietInv, IsActive
  <2> QED
    BY <1>1, <1>4, <2>1, Stages DEF QuietInv
<1> QED
  BY <1>1, <1>6, <1>7 DEF HostInv, SignatureInv, StreamInv, SuccessInv, Sending

\* A host killed leaves no promise behind but that this was a disturbance.
LEMMA DiesKeeps ==
  ASSUME LinkIInv, HostDies
  PROVE  HostInv'
<1>1. hostPc' = "dead" /\ disturbed'
  BY DEF HostDies
<1> QED
  BY <1>1
  DEF HostInv, BeginInv, SignatureInv, StreamInv, SuccessInv, QuietInv, Sending

\* A ping opens no session.
LEMMA PingsKeeps ==
  ASSUME LinkIInv, HostPings
  PROVE  HostInv'
<1>1. /\ hostPc \notin Updating /\ rx' = rx \o Command("ping", 0)
      /\ UNCHANGED <<hostPc, release, phase, bootImage, disturbed>>
  BY DEF HostPings, hostVars, fwVars, sessionVars
<1>2. rx \in Seq(ItemOf({"raw", "ping"})) => rx' \in Seq(ItemOf({"raw", "ping"}))
  <2>1. Command("ping", 0) \in Seq(ItemOf({"ping"}))
    BY Constants, CommandWritten
  <2>2. Command("ping", 0) \in Seq(ItemOf({"raw", "ping"}))
    BY <2>1, KindsGrow
  <2> QED
    BY <1>1, <2>2, ConcatProperties
<1>3. SuccessInv' /\ QuietInv'
  BY <1>1, <1>2, Stages DEF LinkIInv, HostInv, SuccessInv, QuietInv, Image
<1> QED
  BY <1>1, <1>3, Stages DEF HostInv, BeginInv, SignatureInv, StreamInv

\* Nothing changes, nothing is lost.
LEMMA LinkStutters ==
  ASSUME LinkIInv, UNCHANGED linkVars
  PROVE  HostInv'
<1> USE DEF linkVars, fwVars, sessionVars, hostVars
<1>1. BeginInv'
  BY DEF LinkIInv, HostInv, BeginInv, BeginSent, Image
<1>2. SignatureInv'
  BY DEF LinkIInv, HostInv, SignatureInv, Image, Sig
<1>3. StreamInv'
  BY DEF LinkIInv, HostInv, StreamInv, Image, Sig
<1>4. SuccessInv' /\ QuietInv'
  BY DEF LinkIInv, HostInv, SuccessInv, QuietInv, BeginSent, Image
<1> QED
  BY <1>1, <1>2, <1>3, <1>4 DEF HostInv

\* What the host may rely on is inductive.
LEMMA LinkNextInv == LinkIInv /\ [LinkNext]_linkVars => LinkIInv'
<1> SUFFICES ASSUME LinkIInv, [LinkNext]_linkVars PROVE LinkIInv'
  OBVIOUS
<1>1. IInv' /\ LinkTypeOK'
  BY LinkKeepsIInv, LinkKeepsTypes DEF LinkIInv
<1>2. ASSUME Device PROVE HostInv'
  BY <1>2, DataKeeps, CommandKeeps, JunkKeeps, BeaconKeeps, PortLostKeeps DEF Device
<1>3. ASSUME HostStep PROVE HostInv'
  BY <1>3, SkipsKeeps, SignatureKeeps, ReadyKeeps, CompleteKeeps, RejectedKeeps,
     WritesKeeps, DrainedKeeps, TimesOutKeeps DEF HostStep
<1>4. ASSUME (\E r \in Releases : HostBegin(r)) \/ HostDies \/ HostPings
      PROVE  HostInv'
  BY <1>4, BeginKeeps, DiesKeeps, PingsKeeps
<1>5. HostInv'
  BY <1>2, <1>3, <1>4, LinkStutters DEF LinkNext
<1> QED
  BY <1>1, <1>5 DEF LinkIInv

-----------------------------------------------------------------------------
(* What follows for the two ends.                                          *)

\* What the host may rely on holds at every moment of every update.
THEOREM LinkInvariance == LinkSpec => []LinkIInv
  BY LinkInitInv, LinkNextInv, PTL DEF LinkSpec

\* Both ends and the port are typed as they should be, and whatever comes over
\* the port the device boots only the factory image or a signed one.
THEOREM LinkCorrect == LinkSpec => [](TypeOK /\ LinkTypeOK /\ OnlySignedBoots)
<1>1. LinkIInv => TypeOK /\ LinkTypeOK /\ OnlySignedBoots
  BY DEF LinkIInv, IInv
<1> QED
  BY <1>1, LinkInvariance, PTL

\* update_firmware() returns without an exception only when the device will
\* boot the image it was given, for every image, chunk size and schedule.
THEOREM HostSuccess == LinkSpec => []HostSuccessMeansInstalled
<1>1. LinkIInv => HostSuccessMeansInstalled
  BY DEF LinkIInv, HostInv, SuccessInv, HostSuccessMeansInstalled
<1> QED
  BY <1>1, LinkInvariance, PTL

\* A host leaves a session behind only where it was killed, took somebody else's
\* line for its answer, or gave up an ota_begin that was still to be read.
THEOREM StoppedHostLeavesNothing == LinkSpec => []FailureEndsSession
<1>1. LinkIInv => FailureEndsSession
  BY DEF LinkIInv, HostInv, QuietInv, FailureEndsSession, IsActive
<1> QED
  BY <1>1, LinkInvariance, PTL

\* Once the session is the host's own, update_firmware() (serial_client.py:353-433)
\* and the device never wait for each other: as long as the session is open there
\* is something for the device to read, or for the host.  At the beginning that
\* may fail for an update that was disturbed.
OneHasToRead ==
  \/ hostPc = "ackReady"
  \/ hostPc = "final" /\ IsActive
  \/ hostPc = "ackBegin" /\ ~disturbed
  => rx # <<>> \/ tx # <<>>

\* No host waits in vain for the end of a session of its own: what the device lacks
\* of the signature or of the image is on the port, for all sizes of image, chunk
\* and read.
THEOREM NobodyWaitsForBoth == LinkSpec => []OneHasToRead
<1>1. ASSUME LinkIInv, rx = <<>>, tx = <<>>
      PROVE  /\ hostPc = "ackBegin" => disturbed
             /\ hostPc # "ackReady"
             /\ hostPc = "final" => ~IsActive
  <2>0. Len(rx) = 0
    BY <1>1, EmptySeq
  <2>1. hostPc = "ackBegin" => disturbed
    BY <1>1, <2>0 DEF LinkIInv, HostInv, QuietInv
  <2>2. hostPc # "ackReady"
    <3>1. SUFFICES ASSUME hostPc = "ackReady" PROVE FALSE
      OBVIOUS
    <3>3. phase = "AwaitingSignature" /\ signatureBytesGot + 0 = SigLen
      BY <1>1, <2>0, <3>1 DEF LinkIInv, HostInv, SignatureInv
    <3>4. signatureBytesGot < SigLen /\ signatureBytesGot \in Nat
      BY <1>1, <3>3, Counts DEF LinkIInv, IInv, SessionInv
    <3> QED
      BY <3>3, <3>4
  <2>3. hostPc = "final" => ~IsActive
    <3>1. SUFFICES ASSUME hostPc = "final", IsActive PROVE FALSE
      OBVIOUS
    <3>3. /\ phase = "Streaming" /\ totalSize = Len(Image)
          /\ Len(hashed) + 0 = sent /\ sent = Len(Image)
      BY <1>1, <2>0, <3>1 DEF LinkIInv, HostInv, StreamInv, Sending, IsActive
    <3>4. bytesReceived = Len(hashed) /\ bytesReceived < totalSize
      BY <1>1, <3>1, <3>3 DEF LinkIInv, IInv, SessionInv
    <3>5. Len(hashed) \in Nat /\ totalSize \in Nat
      BY <1>1, Counts DEF LinkIInv
    <3> QED
      BY <3>3, <3>4, <3>5
  <2> QED
    BY <2>1, <2>2, <2>3
<1>2. LinkIInv => OneHasToRead
  BY <1>1 DEF OneHasToRead
<1> QED
  BY <1>2, LinkInvariance, PTL

\* The host is told that a signature does not match only by a reply it reads.
LEMMA SignatureBlamed ==
  ASSUME LinkIInv, [LinkNext]_linkVars,
         hostErr # "signature_invalid", hostErr' = "signature_invalid"
  PROVE  HostRejected /\ Head(tx) = "signature_invalid"
<1>1. CASE Device
  <2>1. CASE DevData \/ DevCommand \/ DevJunk \/ DevBeacon
    BY <2>1 DEF DevData, DevCommand, DevJunk, DevBeacon, hostVars
  <2>2. CASE DevRestart \/ DevPowerCut
    BY <2>2 DEF DevRestart, DevPowerCut, PortLost
  <2> QED
    BY <1>1, <2>1, <2>2 DEF Device
<1>2. CASE HostStep
  BY <1>2
  DEF HostStep, HostSkips, HostSignature, HostReady, HostComplete, HostRejected,
      HostWrites, HostDiscards, HostDrained, HostTimesOut, hostVars
<1>3. CASE (\E r \in Releases : HostBegin(r)) \/ HostDies \/ HostPings
  BY <1>3 DEF HostBegin, HostDies, HostPings, hostVars
<1>4. CASE UNCHANGED linkVars
  BY <1>4 DEF linkVars, hostVars
<1> QED
  BY <1>1, <1>2, <1>3, <1>4 DEF LinkNext

\* A correctly signed release is told so only before its session has begun,
\* and then only where a session was left behind.
THEOREM GenuineAccepted == LinkSpec => GenuineVerifies
<1> DEFINE Blamed == /\ hostErr # "signature_invalid" /\ hostErr' = "signature_invalid"
                     /\ release \in Signed
<1>1. ASSUME LinkIInv, [LinkNext]_linkVars, Blamed
      PROVE  hostPc = "ackBegin" /\ disturbed
  <2>1. HostRejected /\ Head(tx) = "signature_invalid"
    BY <1>1, SignatureBlamed
  <2>2. tx # <<>> /\ hostPc \in {"ackBegin", "ackReady", "final"}
    BY <2>1, Stages DEF HostRejected
  <2>3. hostPc # "ackReady"
    BY <1>1, <2>1, <2>2 DEF LinkIInv, HostInv, SignatureInv
  <2>4. hostPc # "final"
    <3>1. ~(tx \in Seq({"ota_progress"})) /\ ~(tx \in Seq(Line \ {"signature_invalid"}))
      BY <2>1, <2>2, LineRead
    <3> QED
      BY <1>1, <3>1 DEF LinkIInv, HostInv, StreamInv, Sending
  <2>5. hostPc = "ackBegin"
    BY <2>2, <2>3, <2>4
  <2>6. disturbed
    BY <1>1, <2>1, <2>2, <2>5 DEF LinkIInv, HostInv, QuietInv
  <2> QED
    BY <2>5, <2>6
<1>2. LinkIInv /\ [LinkNext]_linkVars
      => [Blamed => hostPc = "ackBegin" /\ disturbed]_linkVars
  BY <1>1
<1> QED
  BY <1>2, LinkInvariance, PTL DEF LinkSpec, GenuineVerifies

\* Joined to any host, killed or not, the device still keeps the promise of
\* SignedUpdate.
THEOREM LinkRefinement == LinkSpec => SignedUpdateSpec
<1>1. LinkInit => Promise!Init
  BY InitRefines DEF LinkInit
<1>2. ASSUME LinkIInv, [LinkNext]_linkVars
      PROVE  [Promise!Next]_(Promise!updateVars)
  <2>1. Prints \/ [Next]_fwVars
    BY <1>2, LinkMovesDevice DEF LinkIInv
  <2>2. CASE Prints
    BY <2>2 DEF Prints, Answer, sessionVars, libVars, httpVars, Promise!updateVars, IsActive
  <2> QED
    BY <1>2, <2>1, <2>2, StepRefines DEF LinkIInv
<1> QED
  BY <1>1, <1>2, LinkInvariance, PTL DEF LinkSpec, SignedUpdateSpec, Promise!Spec

\* A session runs down in the link as well: nothing that the host or the port does
\* gives it more to wait for.
THEOREM LinkSessionIsFinite == LinkSpec => SessionRunsDown
<1> DEFINE Nearer == StillWanted' \in Nat /\ StillWanted' < StillWanted
<1>1. ASSUME LinkIInv, [LinkNext]_linkVars PROVE [IsActive => Nearer]_fwVars
  <2>1. Prints \/ [Next]_fwVars
    BY <1>1, LinkMovesDevice DEF LinkIInv
  <2>2. CASE Prints
    BY <2>2 DEF Prints, Answer, LineTurn
  <2>3. CASE [Next]_fwVars
    BY <1>1, <2>3, NearerTheEnd DEF LinkIInv
  <2> QED
    BY <2>1, <2>2, <2>3
<1> QED
  BY <1>1, LinkInvariance, PTL DEF LinkSpec, SessionRunsDown
=============================================================================
