----------------------------- MODULE DataPaths -----------------------------
(***************************************************************************)
(* The data of the two drivers, path by path: PCM through the ring of an   *)
(* audio engine, clock feedback into packet sizes, the controller's        *)
(* reports into MIDI messages, MIDI messages into reports for the          *)
(* controller; and the earlier driver's output ring, its capture ring and  *)
(* its clock.  They share no state, so a behaviour is about one of them.   *)
(***************************************************************************)
EXTENDS AudioEngines, AudioPacketPolicy, MIDIReportStream, MIDIOutbound,
        NS6Transport, NS6CaptureRing, NS6ClockControl

VARIABLE path

presentVars == <<engineVars, policyVars, reportVars, outboundVars>>
earlierVars == <<transportVars, captureVars, clockVars>>
pathVars == <<path, presentVars, earlierVars>>

PathInit ==
  /\ path \in {"pcm", "feedback", "inbound", "outbound",
               "earlier output", "earlier capture", "earlier clock"}
  /\ EngineInit /\ PolicyInit /\ ReportInit /\ OutboundInit
  /\ TransportInit /\ CaptureInit /\ ClockInit
  /\ path # "pcm" => engine.kind = "playback"

\* A present path's step, an earlier path's step.
Present(p, rest) == path = p /\ UNCHANGED <<path, earlierVars, rest>>
Earlier(p, rest) == path = p /\ UNCHANGED <<path, presentVars, rest>>

PathNext ==
  \/ Present("pcm", <<policyVars, reportVars, outboundVars>>) /\ EngineNext
  \/ Present("feedback", <<engineVars, reportVars, outboundVars>>) /\ PolicyNext
  \/ Present("inbound", <<engineVars, policyVars, outboundVars>>) /\ ReportNext
  \/ Present("outbound", <<engineVars, policyVars, reportVars>>) /\ OutboundNext
  \/ Earlier("earlier output", <<captureVars, clockVars>>) /\ TransportNext
  \/ Earlier("earlier capture", <<transportVars, clockVars>>) /\ CaptureNext
  \/ Earlier("earlier clock", <<transportVars, captureVars>>) /\ ClockNext

PathSpec == PathInit /\ [][PathNext]_pathVars
=============================================================================
