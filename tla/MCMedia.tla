------------------------------ MODULE MCMedia ------------------------------
(***************************************************************************)
(* The way of a frame from the camera to the peer, one stage in each       *)
(* behaviour: "send" the media threads of the client, "bus" the bus of raw *)
(* frames, "capture" the capture's lifecycle with its pump, "camera" the   *)
(* camera's buffers, "encoded" the sinks of encoded frames, "file" sources *)
(* that play a file.  The capture is run twice: with two handles and no    *)
(* failure, and as "failing" with one handle at a time and a failure.      *)
(***************************************************************************)
EXTENDS MediaSender, RawBus, CaptureStack, VideoIf, EncodedFrames, TLC

MediaSymmetry == Permutations(Slots) \cup Permutations(Handles)

Sink(m, p, d, o) == [mode |-> m, push |-> p, depth |-> d, over |-> o]
SinkConfigs ==
  {Sink("passthrough", TRUE, 1, "old"), Sink("passthrough", FALSE, 0, "new"),
   Sink("converted", TRUE, 0, "block")}

VARIABLE part

\* Bounds of the two captures: with the failure go one handle at a time and
\* snapshots that find the capture stopped.
FewFailures ==
  /\ part = "capture" => nfails' = 0
  /\ part = "failing" => /\ Cardinality({h \in Handles : hnd'[h] # "none"}) <= 1
                         /\ \A p \in Snappers : snap'[p] # "set"

mediaVars == <<msVars, rbVars, csVars, viVars, esVars, fsVars, part>>

SendPart(A) == part = "send" /\ A /\ UNCHANGED <<rbVars, csVars, viVars, esVars, fsVars, part>>
BusPart(A) == part = "bus" /\ A /\ UNCHANGED <<msVars, csVars, viVars, esVars, fsVars, part>>
CapturePart(A) ==
  /\ part \in {"capture", "failing"} /\ A
  /\ UNCHANGED <<msVars, rbVars, viVars, esVars, fsVars, part>>
CameraPart(A) == part = "camera" /\ A /\ UNCHANGED <<msVars, rbVars, csVars, esVars, fsVars, part>>
EncodedPart(A) == part = "encoded" /\ A /\ UNCHANGED <<msVars, rbVars, csVars, viVars, fsVars, part>>
FilePart(A) == part = "file" /\ A /\ UNCHANGED <<msVars, rbVars, csVars, viVars, esVars, part>>

MediaInit ==
  /\ MsInit /\ RbInit /\ CsInit /\ ViInit /\ EsInit /\ FsInit
  /\ part \in {"send", "bus", "capture", "failing", "camera", "encoded", "file"}
  /\ part # "camera" => uvc
  /\ part # "encoded" => through
  /\ part # "send" => statsValid

MediaNext ==
  \/ SendPart(MsNext) \/ BusPart(RbNext) \/ CapturePart(CsNext /\ FewFailures)
  \/ CameraPart(ViNext) \/ EncodedPart(EsNext) \/ FilePart(FsNext)

MediaSpec == MediaInit /\ [][MediaNext]_mediaVars

\* What feeds the bus and what the bus feeds keep their own buffers and streams in order:
\* the camera, the encoded sinks and the sources that play a file.
SourcesSound == CameraSound /\ StreamsSound /\ FilesSound
=============================================================================
