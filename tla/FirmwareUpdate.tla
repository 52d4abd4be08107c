--------------------------- MODULE FirmwareUpdate ---------------------------
(***************************************************************************)
(* The two ways the device takes a new firmware image: the stream over USB *)
(* serial (ota_serial.cpp, driven by handleSerialProvisioning in main.cpp) *)
(* and the upload to POST /api/firmware/update (api_server.cpp).  Both     *)
(* write through the one Update object of the Arduino core.                *)
(*                                                                         *)
(* The environment is arbitrary: any bytes may arrive, in any pieces, the  *)
(* flash may refuse a write, and the power may go at any step.  A command  *)
(* line is parsed only in phase "Idle", because in the other two phases    *)
(* the loop pipes whatever arrives into the session.                       *)
(***************************************************************************)
EXTENDS Integers, Sequences

CONSTANTS
  Byte,       \* values of one unit of data on the wire
  SigLen,     \* kOtaSignatureBytes, in units
  MinBytes,   \* kOtaMinBytes, in units
  MaxBytes,   \* bound on the size a host announces and on one upload
  MaxRead,    \* units read from the port in one pass of the loop
  Signed,     \* the <<image, signature>> pairs the embedded key accepts
  Factory     \* the image on the device before any update

Signature == [1..SigLen -> Byte]

ASSUME UpdateAssumption ==
  /\ {SigLen, MinBytes, MaxRead} \subseteq Nat \ {0}
  /\ MaxBytes \in Nat
  /\ 0 \in Byte
  /\ Factory \in Seq(Byte)
  \* the release script signs whole images only
  /\ \A pair \in Signed : pair[1] \in Seq(Byte) /\ Len(pair[1]) >= MinBytes

VARIABLES
  phase,              \* g_state.phase
  totalSize,          \* g_state.totalSize
  bytesReceived,      \* g_state.bytesReceived
  signature,          \* g_state.signature: never cleared, only overwritten
  signatureBytesGot,  \* g_state.signatureBytesGot
  shaInited,          \* g_state.shaInited
  hashed,             \* what went into g_state.shaCtx since it was started
  updateOpen,         \* has Update been begun and not yet ended or aborted?
  written,            \* what Update has written to the inactive slot
  bootImage,          \* the image the bootloader starts
  uploading,          \* is an HTTP upload in progress?
  uploadSize,         \* upload.totalSize
  otaAuthOk, otaError, otaShaCtx, otaSignature,  \* members of ApiServer
  httpHashed,         \* what went into *otaShaCtx_ since it was started
  restarting,         \* ESP.restart() has been decided on
  out                 \* the lines the last step printed on the serial port

sessionVars == <<phase, totalSize, bytesReceived, signature,
                 signatureBytesGot, shaInited, hashed>>
libVars     == <<updateOpen, written>>
httpVars    == <<uploading, uploadSize, otaAuthOk, otaError, otaShaCtx,
                 otaSignature, httpHashed>>
fwVars == <<sessionVars, libVars, bootImage, httpVars, restarting, out>>

Phase == {"Idle", "AwaitingSignature", "Streaming"}
NoSignature == [i \in 1..SigLen |-> 0]
Buffer == UNION {[1..n -> Byte] : n \in 1..MaxRead}

\* The lines of an update, and three others that can meet it on the port.
Line == {"pong", "invalid_json", "mqtt_connected",
         "image_too_small", "update_begin_failed",
         "ota_awaiting_sig", "ota_aborted", "ota_ready", "ota_progress", "ota_finalizing",
         "ota_complete", "write_failed", "signature_invalid",
         "update_end_failed"}

SizesOK ==
  /\ totalSize \in 0..MaxBytes /\ bytesReceived \in 0..totalSize
  /\ signatureBytesGot \in 0..SigLen
  /\ uploadSize \in Nat

FlagsOK ==
  /\ shaInited \in BOOLEAN /\ updateOpen \in BOOLEAN
  /\ uploading \in BOOLEAN /\ restarting \in BOOLEAN
  /\ otaAuthOk \in BOOLEAN /\ otaError \in BOOLEAN /\ otaShaCtx \in BOOLEAN

DataOK ==
  /\ phase \in Phase
  /\ signature \in Signature /\ otaSignature \in Signature
  /\ hashed \in Seq(Byte) /\ httpHashed \in Seq(Byte)
  /\ written \in Seq(Byte) /\ bootImage \in Seq(Byte)
  /\ out \in Seq(Line)

TypeOK == SizesOK /\ FlagsOK /\ DataOK

BytesRemaining == IF phase # "Streaming" \/ bytesReceived >= totalSize
                  THEN 0 ELSE totalSize - bytesReceived
SignatureBytesRemaining == IF phase # "AwaitingSignature"
                           THEN 0 ELSE SigLen - signatureBytesGot
IsActive == phase # "Idle"

Init ==
  /\ phase = "Idle" /\ totalSize = 0 /\ bytesReceived = 0
  /\ signature = NoSignature /\ signatureBytesGot = 0
  /\ shaInited = FALSE /\ hashed = <<>>
  /\ updateOpen = FALSE /\ written = <<>>
  /\ bootImage = Factory
  /\ uploading = FALSE /\ uploadSize = 0
  /\ otaAuthOk = FALSE /\ otaError = FALSE /\ otaShaCtx = FALSE
  /\ otaSignature = NoSignature /\ httpHashed = <<>>
  /\ restarting = FALSE
  /\ out = <<>>

-----------------------------------------------------------------------------
(* The Update object.  A write that fails leaves it closed.                *)

UpdateAbort == updateOpen' = FALSE /\ written' = <<>>
UpdateBegin == ~updateOpen /\ updateOpen' = TRUE /\ written' = <<>>
UpdateWrite(buf) == /\ updateOpen
                    /\ written' = written \o buf
                    /\ UNCHANGED updateOpen
UpdateEnd == updateOpen /\ updateOpen' = FALSE /\ written' = <<>>
             /\ bootImage' = written

\* mutant: the result of mbedtls_pk_verify is ignored
VerifiedAlways(image, sig) == image \in Seq(Byte) /\ sig \in Signature

Verified(image, sig) == <<image, sig>> \in Signed

-----------------------------------------------------------------------------
(* The serial session.                                                     *)

ResetState ==
  /\ phase' = "Idle"
  /\ totalSize' = 0 /\ bytesReceived' = 0 /\ signatureBytesGot' = 0
  /\ shaInited' = FALSE /\ hashed' = <<>>
  /\ UNCHANGED signature

\* ota_serial::reset(): Update is aborted only on behalf of a serial session
Reset == /\ ResetState
         /\ IF phase # "Idle" THEN UpdateAbort ELSE UNCHANGED libVars

SerialTurn == ~restarting /\ ~uploading
LineTurn   == SerialTurn /\ ~IsActive

BeginTooSmall(size) ==
  /\ LineTurn /\ size < MinBytes
  /\ Reset
  /\ out' = <<"image_too_small">>
  /\ UNCHANGED <<bootImage, httpVars, restarting>>

BeginRefused(size) ==
  /\ LineTurn /\ size >= MinBytes
  /\ Reset
  /\ out' = <<"update_begin_failed">>
  /\ UNCHANGED <<bootImage, httpVars, restarting>>

BeginAccepted(size) ==
  /\ LineTurn /\ size >= MinBytes
  /\ UpdateBegin
  /\ phase' = "AwaitingSignature"
  /\ totalSize' = size /\ bytesReceived' = 0 /\ signatureBytesGot' = 0
  /\ shaInited' = TRUE /\ hashed' = <<>>
  /\ out' = <<"ota_awaiting_sig">>
  /\ UNCHANGED <<signature, bootImage, httpVars, restarting>>

OtaBegin(size) == BeginTooSmall(size) \/ BeginRefused(size) \/ BeginAccepted(size)

OtaAbort ==
  /\ LineTurn
  /\ Reset
  /\ out' = <<"ota_aborted">>
  /\ UNCHANGED <<bootImage, httpVars, restarting>>

\* mutant: the read is not clipped to the signature bytes still expected
ReadSignatureUnclipped(buf) ==
  /\ SerialTurn /\ phase = "AwaitingSignature"
  /\ signature' = [i \in 1..SigLen |->
                     IF i \in signatureBytesGot + 1 .. signatureBytesGot + Len(buf)
                     THEN buf[i - signatureBytesGot] ELSE signature[i]]
  /\ signatureBytesGot' = signatureBytesGot + Len(buf)
  /\ IF signatureBytesGot' >= SigLen
     THEN phase' = "Streaming" /\ out' = <<"ota_ready">>
     ELSE out' = <<>> /\ UNCHANGED phase
  /\ UNCHANGED <<totalSize, bytesReceived, shaInited, hashed, libVars,
                 bootImage, httpVars, restarting>>

ReadSignature(buf) ==
  /\ SerialTurn /\ phase = "AwaitingSignature"
  /\ Len(buf) <= SignatureBytesRemaining
  /\ signature' = [i \in 1..SigLen |->
                     IF i \in signatureBytesGot + 1 .. signatureBytesGot + Len(buf)
                     THEN buf[i - signatureBytesGot] ELSE signature[i]]
  /\ signatureBytesGot' = signatureBytesGot + Len(buf)
  /\ IF signatureBytesGot' = SigLen
     THEN phase' = "Streaming" /\ out' = <<"ota_ready">>
     ELSE out' = <<>> /\ UNCHANGED phase
  /\ UNCHANGED <<totalSize, bytesReceived, shaInited, hashed, libVars,
                 bootImage, httpVars, restarting>>

\* One pass in image mode reads no more than what is left of the image.
ImageTurn(buf) == /\ SerialTurn /\ phase = "Streaming"
                  /\ Len(buf) <= BytesRemaining

\* mutant: a failed write forgets Update.abort()
ImageWriteFailsOpen(buf) ==
  /\ ImageTurn(buf)
  /\ ResetState
  /\ out' = <<"write_failed">>
  /\ UNCHANGED <<libVars, bootImage, httpVars, restarting>>

ImageWriteFails(buf) ==
  /\ ImageTurn(buf)
  /\ UpdateAbort
  /\ ResetState
  /\ out' = <<"write_failed">>
  /\ UNCHANGED <<bootImage, httpVars, restarting>>

\* mutant: the pass that takes the last unit does not finalize
ImageChunkOnly(buf) ==
  /\ ImageTurn(buf)
  /\ UpdateWrite(buf)
  /\ hashed' = hashed \o buf
  /\ bytesReceived' = bytesReceived + Len(buf)
  /\ out' \in {<<>>, <<"ota_progress">>}
  /\ UNCHANGED <<phase, totalSize, signature, signatureBytesGot, shaInited,
                 bootImage, httpVars, restarting>>

ImageChunk(buf) ==
  /\ ImageTurn(buf) /\ Len(buf) < BytesRemaining
  /\ UpdateWrite(buf)
  /\ hashed' = hashed \o buf
  /\ bytesReceived' = bytesReceived + Len(buf)
  /\ out' \in {<<>>, <<"ota_progress">>}
  /\ UNCHANGED <<phase, totalSize, signature, signatureBytesGot, shaInited,
                 bootImage, httpVars, restarting>>

\* mutant: finalize() does not compare bytesReceived with totalSize
LastChunkAnySize(buf) == ImageTurn(buf) /\ updateOpen

\* The write that completes the image runs finalize() in the same pass.
LastChunk(buf) == ImageTurn(buf) /\ Len(buf) = BytesRemaining /\ updateOpen

Finalizing(result) == out' = <<"ota_progress", "ota_finalizing", result>>

\* mutant: Update.end() runs before the signature is looked at
FinalizeRejectsLate(buf) ==
  /\ LastChunk(buf)
  /\ ~Verified(hashed \o buf, signature)
  /\ bootImage' = written \o buf
  /\ UpdateAbort
  /\ ResetState
  /\ Finalizing("signature_invalid")
  /\ UNCHANGED <<httpVars, restarting>>

FinalizeRejects(buf) ==
  /\ LastChunk(buf)
  /\ ~Verified(hashed \o buf, signature)
  /\ UpdateAbort
  /\ ResetState
  /\ Finalizing("signature_invalid")
  /\ UNCHANGED <<bootImage, httpVars, restarting>>

FinalizeEndFails(buf) ==
  /\ LastChunk(buf)
  /\ Verified(hashed \o buf, signature)
  /\ UpdateAbort
  /\ ResetState
  /\ Finalizing("update_end_failed")
  /\ UNCHANGED <<bootImage, httpVars, restarting>>

FinalizeInstalls(buf) ==
  /\ LastChunk(buf)
  /\ Verified(hashed \o buf, signature)
  /\ bootImage' = written \o buf
  /\ updateOpen' = FALSE /\ written' = <<>>
  /\ ResetState
  /\ Finalizing("ota_complete")
  /\ restarting' = TRUE
  /\ UNCHANGED httpVars

ReadImage(buf) ==
  \/ ImageWriteFails(buf)
  \/ ImageChunk(buf)
  \/ FinalizeRejects(buf)
  \/ FinalizeEndFails(buf)
  \/ FinalizeInstalls(buf)

-----------------------------------------------------------------------------
(* The HTTP upload.  The web server reads the whole body inside one        *)
(* handleClient(), so nothing else of the loop runs while uploading, and   *)
(* the loop does not reach handleClient() while a serial session is active.*)

\* mutant: the loop does not skip its background work during a session
HttpTurnAlways == ~restarting

HttpTurn == ~restarting /\ ~IsActive

\* UPLOAD_FILE_START, up to the signature header
HttpStartRejected(authorized) ==
  /\ HttpTurn /\ ~uploading
  /\ uploading' = TRUE /\ uploadSize' = 0
  /\ otaAuthOk' = authorized /\ otaError' = TRUE
  /\ otaShaCtx' = FALSE /\ httpHashed' = <<>>
  /\ out' = <<>>
  /\ UNCHANGED <<sessionVars, libVars, bootImage, otaSignature, restarting>>

HttpStart(sig) ==
  /\ HttpTurn /\ ~uploading
  /\ uploading' = TRUE /\ uploadSize' = 0
  /\ otaAuthOk' = TRUE /\ otaSignature' = sig
  /\ otaShaCtx' = TRUE /\ httpHashed' = <<>>
  /\ \/ UpdateBegin /\ otaError' = FALSE
     \/ UNCHANGED libVars /\ otaError' = TRUE
  /\ out' = <<>>
  /\ UNCHANGED <<sessionVars, bootImage, restarting>>

HttpWrite(buf) ==
  /\ HttpTurn /\ uploading
  /\ uploadSize + Len(buf) <= MaxBytes
  /\ uploadSize' = uploadSize + Len(buf)
  /\ \/ /\ otaAuthOk /\ ~otaError
        /\ UpdateWrite(buf)
        /\ httpHashed' = httpHashed \o buf
        /\ UNCHANGED otaError
     \/ /\ otaAuthOk /\ ~otaError
        /\ UpdateAbort
        /\ otaError' = TRUE
        /\ UNCHANGED httpHashed
     \/ /\ ~otaAuthOk \/ otaError
        /\ UNCHANGED <<libVars, otaError, httpHashed>>
  /\ out' = <<>>
  /\ UNCHANGED <<sessionVars, bootImage, uploading, otaAuthOk, otaShaCtx,
                 otaSignature, restarting>>

\* The route's reply: 401, 400 with the error, or 200 and a reboot.
HttpReply(authorized, failed) ==
  /\ otaAuthOk' = FALSE
  /\ otaError' = (~authorized /\ failed)
  /\ restarting' = (authorized /\ ~failed)

\* UPLOAD_FILE_END, then the reply
HttpEnd ==
  /\ HttpTurn /\ uploading
  /\ uploading' = FALSE /\ uploadSize' = 0
  /\ \/ /\ ~otaAuthOk
        /\ HttpReply(FALSE, otaError)
        /\ UNCHANGED <<libVars, bootImage, otaShaCtx, httpHashed>>
     \/ /\ otaAuthOk
        /\ uploadSize < MinBytes \/ ~otaShaCtx
        /\ UpdateAbort
        /\ HttpReply(TRUE, TRUE)
        /\ UNCHANGED <<bootImage, otaShaCtx, httpHashed>>
     \/ /\ otaAuthOk /\ uploadSize >= MinBytes /\ otaShaCtx
        /\ otaShaCtx' = FALSE /\ httpHashed' = <<>>
        /\ \/ /\ ~Verified(httpHashed, otaSignature)
              /\ UpdateAbort
              /\ HttpReply(TRUE, TRUE)
              /\ UNCHANGED bootImage
           \/ /\ Verified(httpHashed, otaSignature)
              /\ UpdateAbort                        \* Update.end() fails
              /\ HttpReply(TRUE, TRUE)
              /\ UNCHANGED bootImage
           \/ /\ Verified(httpHashed, otaSignature)
              /\ UpdateEnd
              /\ HttpReply(TRUE, otaError)
  /\ out' = <<>>
  /\ UNCHANGED <<sessionVars, otaSignature>>

\* The client goes away in mid-upload: UPLOAD_FILE_ABORTED matches none of
\* the handler's branches, and the reply is never produced.
HttpAborted ==
  /\ HttpTurn /\ uploading
  /\ uploading' = FALSE /\ uploadSize' = 0
  /\ out' = <<>>
  /\ UNCHANGED <<sessionVars, libVars, bootImage, otaAuthOk, otaError,
                 otaShaCtx, otaSignature, httpHashed, restarting>>

\* A POST that carries no file reaches the reply alone.  After an aborted upload
\* otaAuthOk_ is still set, and the device answers for that one and reboots.
HttpBare ==
  /\ HttpTurn /\ ~uploading
  /\ HttpReply(otaAuthOk, otaError)
  /\ out' = <<>>
  /\ UNCHANGED <<sessionVars, libVars, bootImage, uploading, uploadSize, otaShaCtx,
                 otaSignature, httpHashed>>

-----------------------------------------------------------------------------
\* ESP.restart() and a power cut both leave nothing but the boot slot.
Boot ==
  /\ phase' = "Idle" /\ totalSize' = 0 /\ bytesReceived' = 0
  /\ signature' = NoSignature /\ signatureBytesGot' = 0
  /\ shaInited' = FALSE /\ hashed' = <<>>
  /\ updateOpen' = FALSE /\ written' = <<>>
  /\ uploading' = FALSE /\ uploadSize' = 0
  /\ otaAuthOk' = FALSE /\ otaError' = FALSE /\ otaShaCtx' = FALSE
  /\ otaSignature' = NoSignature /\ httpHashed' = <<>>
  /\ restarting' = FALSE
  /\ out' = <<>>
  /\ UNCHANGED bootImage

Restart  == restarting /\ Boot
PowerCut == ~restarting /\ Boot

SerialNext ==
  \/ \E size \in 0..MaxBytes : OtaBegin(size)
  \/ OtaAbort
  \/ \E buf \in Buffer : ReadSignature(buf) \/ ReadImage(buf)

HttpNext ==
  \/ \E authorized \in BOOLEAN : HttpStartRejected(authorized)
  \/ \E sig \in Signature : HttpStart(sig)
  \/ \E buf \in Buffer : HttpWrite(buf)
  \/ HttpEnd
  \/ HttpAborted
  \/ HttpBare

Next == SerialNext \/ HttpNext \/ Restart \/ PowerCut

Spec == Init /\ [][Next]_fwVars

-----------------------------------------------------------------------------
(* Properties.                                                             *)

\* While a serial session is active it owns the Update object: exactly the
\* bytes it has hashed have reached the inactive slot, and no upload can be
\* writing there (main.cpp loop() does not reach handleClient()).
SessionOwnsUpdate ==
  IsActive => /\ updateOpen /\ shaInited /\ ~uploading
              /\ written = hashed
              /\ bytesReceived = Len(hashed)

\* A session never waits for nothing: in either raw mode at least one unit is
\* still wanted.  With zero wanted, readBytes() would return 0 for ever and
\* finalize() would never be reached.
SessionWantsMore ==
  /\ phase = "AwaitingSignature" => SignatureBytesRemaining > 0
  /\ phase = "Streaming" => BytesRemaining > 0

\* The device only ever boots the factory image or an image that was signed,
\* whichever route it came by and whatever failed on the way.
OnlySignedBoots ==
  bootImage = Factory \/ \E pair \in Signed : bootImage = pair[1]

\* The boot slot changes only as the last step of a session, and then to all
\* of what that session carried: as many bytes as ota_begin announced, or the
\* bytes the upload hashed.
InstallIsWhole ==
  [][bootImage' # bootImage =>
       /\ IF uploading THEN bootImage' = httpHashed
                       ELSE Len(bootImage') = totalSize
       /\ restarting']_fwVars

\* A session that ends without installing gives the Update object back, so
\* the next session of either kind can begin: the only way to leave it open
\* is an upload cut off in the middle.
FailedSessionReleasesUpdate ==
  [][ (IsActive \/ uploading) /\ ~(IsActive' \/ uploading')
      => ~updateOpen' \/ HttpAborted \/ ~otaAuthOk ]_fwVars

\* The abstract promise, with a session open while either route is in use.
Promise == INSTANCE SignedUpdate WITH image <- bootImage,
                                      session <- IsActive \/ uploading
SignedUpdateSpec == Promise!Spec
=============================================================================
