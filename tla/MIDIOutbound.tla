---------------------------- MODULE MIDIOutbound ----------------------------
(***************************************************************************)
(* MIDI from the applications to the controller.  CoreMIDI hands a list of *)
(* packets to the session bridge, which packs their messages into          *)
(* datagrams; the driver's output writer receives them on another thread   *)
(* and writes each as one USB report.  A datagram is lost when a socket is *)
(* full; a report may be lost too, and one whose write timed out may have  *)
(* arrived when it is written again.                                       *)
(*                                                                         *)
(* A byte is known by its kind, the message it belongs to and its place    *)
(* there.  Padding and the report's last byte are left out.                *)
(***************************************************************************)
EXTENDS Integers, Sequences, SequencesExt

CONSTANTS
  ReportBytes,     \* sizeof(report), 41 in the code
  PacketKinds,     \* the packets applications send, each a sequence of kinds of messages
  SysexBytes,      \* length of a system exclusive message
  Attempts,        \* attempts to write a report, 3 in the code
  MaxWire,         \* bound on the datagrams the socket holds
  MaxMessages      \* bound on the messages sent before the bridge falls quiet

ASSUME OutboundAssumption ==
  /\ ReportBytes \in Nat /\ ReportBytes >= 3
  /\ SysexBytes \in Nat \ {0} /\ Attempts \in Nat \ {0} /\ MaxWire \in Nat /\ MaxMessages \in Nat

VARIABLES
  bridge,   \* receiveFromApplication: packets and bytes to go, and the report so far
  wire,     \* the datagrams on their way to the driver
  outboundWriter,   \* MIDIOutputWriter::run: the report at hand and the attempts left
  sent,     \* ghost: the kinds of the messages the applications sent
  arrived,  \* ghost: the reports that reached the controller, once each
  faulty    \* ghost: something was lost or repeated

outboundVars == <<bridge, wire, outboundWriter, sent, arrived, faulty>>

IdleBridge == [busy |-> FALSE, packets |-> <<>>, data |-> <<>>, report |-> <<>>, sysex |-> <<>>]
IdleWriter == [report |-> <<>>, left |-> 0]

OutboundInit ==
  /\ bridge = IdleBridge /\ wire = <<>> /\ outboundWriter = IdleWriter
  /\ sent = <<>> /\ arrived = <<>> /\ faulty = FALSE

\* How many bytes a message has on the wire.  A "cut" one lacks its last byte; a "rest"
\* continues a system exclusive message of an earlier packet and has no status byte.
Size(kind) ==
  CASE kind = "three" -> 3 [] kind = "two" -> 2 [] kind \in {"cut", "rest"} -> 2
    [] kind = "realtime" -> 1 [] kind = "sysex" -> SysexBytes

Message(kind, n) ==
  [i \in 1..Size(kind) |->
     [kind |-> IF i > 1 \/ kind = "rest" THEN "data" ELSE IF kind = "cut" THEN "three" ELSE kind,
      message |-> n, place |-> i]]

Packet(kinds, n) == FlattenSeq([i \in 1..Len(kinds) |-> Message(kinds[i], n + i)])
-----------------------------------------------------------------------------
(* The bridge                                                              *)

\* The callback is entered with a list of two packets.  The ghosts start afresh when
\* everything sent before is through.
Receive(first, second) ==
  LET quiet == wire = <<>> /\ outboundWriter = IdleWriter
      past  == IF quiet THEN <<>> ELSE sent
  IN  /\ ~bridge.busy
      /\ sent' = past \o first \o second
      /\ Len(sent') <= MaxMessages
      /\ bridge' = [IdleBridge EXCEPT !.busy = TRUE,
                      !.packets = <<Packet(first, Len(past)), Packet(second, Len(past \o first))>>]
      /\ arrived' = IF quiet THEN <<>> ELSE arrived
      /\ faulty' = (faulty /\ ~quiet)
      /\ UNCHANGED <<wire, outboundWriter>>

sendToDriver(bytes) ==
  \/ bytes = <<>> /\ UNCHANGED <<wire, faulty>>
  \/ bytes # <<>> /\ Len(wire) < MaxWire /\ wire' = Append(wire, bytes) /\ UNCHANGED faulty
  \/ bytes # <<>> /\ faulty' = TRUE /\ UNCHANGED wire

midiMessageLength(byte) == CASE byte.kind = "three" -> 3 [] byte.kind = "two" -> 2 [] OTHER -> 0

NextPacket ==
  /\ bridge.data = <<>> /\ bridge.sysex = <<>> /\ bridge.packets # <<>>
  /\ bridge' = [bridge EXCEPT !.packets = Tail(@), !.data = Head(bridge.packets)]
  /\ UNCHANGED <<wire, outboundWriter, sent, arrived, faulty>>

\* A system exclusive message takes the rest of its packet, after what is packed.
ScanSysex ==
  /\ bridge.data # <<>> /\ bridge.data[1].kind = "sysex"
  /\ sendToDriver(bridge.report)
  /\ bridge' = [bridge EXCEPT !.report = <<>>, !.sysex = bridge.data, !.data = <<>>]
  /\ UNCHANGED <<outboundWriter, sent, arrived>>

SendPart ==
  /\ bridge.sysex # <<>>
  /\ LET count == IF Len(bridge.sysex) < ReportBytes THEN Len(bridge.sysex) ELSE ReportBytes
     IN  /\ sendToDriver(SubSeq(bridge.sysex, 1, count))
         /\ bridge' = [bridge EXCEPT !.sysex = SubSeq(@, count + 1, Len(@))]
  /\ UNCHANGED <<outboundWriter, sent, arrived>>

IsMessage == midiMessageLength(bridge.data[1]) \in 1..Len(bridge.data)

ScanByte ==
  /\ bridge.data # <<>> /\ bridge.data[1].kind # "sysex" /\ ~IsMessage
  /\ bridge' = [bridge EXCEPT !.data = Tail(@)]
  /\ UNCHANGED <<wire, outboundWriter, sent, arrived, faulty>>

\* Faulty variant: the report is filled to its last byte.
ScanMessageFillingUp ==
  /\ bridge.data # <<>> /\ bridge.data[1].kind # "sysex" /\ IsMessage
  /\ LET all == bridge.report \o SubSeq(bridge.data, 1, midiMessageLength(bridge.data[1]))
         full == Len(all) > ReportBytes
     IN  /\ sendToDriver(IF full THEN SubSeq(all, 1, ReportBytes) ELSE <<>>)
         /\ bridge' = [bridge EXCEPT
              !.report = IF full THEN SubSeq(all, ReportBytes + 1, Len(all)) ELSE all,
              !.data = SubSeq(@, midiMessageLength(bridge.data[1]) + 1, Len(@))]
  /\ UNCHANGED <<outboundWriter, sent, arrived>>

\* A message joins the report, which is sent first when there is no room.
ScanMessage ==
  /\ bridge.data # <<>> /\ bridge.data[1].kind # "sysex" /\ IsMessage
  /\ LET length  == midiMessageLength(bridge.data[1])
         message == SubSeq(bridge.data, 1, length)
         full    == Len(bridge.report) + length > ReportBytes
     IN  /\ sendToDriver(IF full THEN bridge.report ELSE <<>>)
         /\ bridge' = [bridge EXCEPT !.report = IF full THEN message ELSE @ \o message,
                                     !.data = SubSeq(@, length + 1, Len(@))]
  /\ UNCHANGED <<outboundWriter, sent, arrived>>

ReceiveReturns ==
  /\ bridge.busy /\ bridge.packets = <<>> /\ bridge.data = <<>> /\ bridge.sysex = <<>>
  /\ sendToDriver(bridge.report)
  /\ bridge' = IdleBridge
  /\ UNCHANGED <<outboundWriter, sent, arrived>>
-----------------------------------------------------------------------------
(* The writer                                                              *)

\* A datagram that does not fit a report is refused (recv, buildPacket).
WriterReceives ==
  /\ outboundWriter = IdleWriter /\ wire # <<>>
  /\ wire' = Tail(wire)
  /\ LET fits == Len(Head(wire)) <= ReportBytes
     IN  /\ outboundWriter' = IF fits THEN [report |-> Head(wire), left |-> Attempts] ELSE IdleWriter
         /\ faulty' = (faulty \/ ~fits)
  /\ UNCHANGED <<bridge, sent, arrived>>

Arrives ==
  arrived' = IF arrived # <<>> /\ Last(arrived) = outboundWriter.report THEN arrived
             ELSE Append(arrived, outboundWriter.report)

WriterWrites ==
  /\ outboundWriter # IdleWriter
  /\ Arrives /\ outboundWriter' = IdleWriter
  /\ UNCHANGED <<bridge, wire, sent, faulty>>

\* A stall or a timeout is cleared and the report written again; it may have
\* arrived all the same.  Other errors, and the last attempt, give it up.
WriterFails ==
  /\ outboundWriter # IdleWriter
  /\ Arrives \/ UNCHANGED arrived
  /\ \/ outboundWriter.left > 1 /\ outboundWriter' = [outboundWriter EXCEPT !.left = @ - 1]
     \/ outboundWriter' = IdleWriter
  /\ faulty' = TRUE
  /\ UNCHANGED <<bridge, wire, sent>>

OutboundNext ==
  \/ \E first, second \in PacketKinds : Receive(first, second)
  \/ NextPacket \/ ScanSysex \/ SendPart \/ ScanByte \/ ScanMessage \/ ReceiveReturns
  \/ WriterReceives \/ WriterWrites \/ WriterFails

OutboundSpec == OutboundInit /\ [][OutboundNext]_outboundVars
-----------------------------------------------------------------------------
\* The messages of a report that is no part of a system exclusive message are all in
\* it from their first byte to their last.
Whole(report) ==
  \A i \in 1..Len(report) :
    LET first == i - report[i].place + 1
    IN  first >= 1 /\ first + Size(sent[report[i].message]) - 1 <= Len(report)

InOrder(bytes) ==
  \A i \in 1..(Len(bytes) - 1) :
    \/ bytes[i].message < bytes[i + 1].message
    \/ bytes[i].message = bytes[i + 1].message /\ bytes[i].place < bytes[i + 1].place

\* The complete messages the applications sent, each from its first packet.
Expected ==
  FlattenSeq([n \in 1..Len(sent) |->
                IF sent[n] \in {"cut", "realtime", "rest"} THEN <<>> ELSE Message(sent[n], n)])

\* "The bridge batches host messages into at most 41 payload bytes, and the worker
\* wraps each datagram": a report holds whole channel messages, or a part of one
\* system exclusive message; reports arrive in the order of the messages whatever
\* was lost; and when nothing was, the controller gets every complete message.  The
\* packets that continue a system exclusive message are dropped, and never taken for
\* data of the messages around them.
OutboundWhole ==
  /\ \A k \in 1..Len(arrived) : sent[arrived[k][1].message] = "sysex" \/ Whole(arrived[k])
  /\ InOrder(FlattenSeq(arrived))
  /\ ~faulty /\ ~bridge.busy /\ wire = <<>> /\ outboundWriter = IdleWriter
       => FlattenSeq(arrived) = Expected
=============================================================================
