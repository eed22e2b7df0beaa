-------------------------- MODULE MIDIReportStream --------------------------
(***************************************************************************)
(* The two parsers of the MIDI pipe's reports in the order a session uses  *)
(* them: during activation the reports are searched for the handshake      *)
(* reply, afterwards the channel messages are taken out of them and        *)
(* forwarded to the session bridge, a datagram for each report.  What      *)
(* comes out is compared with what the stream says, wherever the reports   *)
(* are cut and whichever datagrams are lost.                               *)
(***************************************************************************)
EXTENDS MIDIInputParser, HandshakeReplyParser

CONSTANTS
  ReplyBytes,    \* the bytes that may occur during activation
  PacketBytes,   \* kPacketBytes, 42 in the code: a full report, the last byte its terminator
  Bytes,         \* the bytes that may occur later: records of a kind and a tag
  PayloadBytes,  \* kReportPayloadBytes, 41 in the code
  MaxReports,    \* bound on the reports fed between two resets, as bytes received
  MaxDatagrams   \* bound on the datagrams the socket holds

ASSUME StreamAssumption ==
  /\ \A byte \in Bytes : byte.kind \in Kinds
  /\ PacketBytes \in Nat \ {0} /\ PayloadBytes \in Nat \ {0} /\ MaxReports \in Nat /\ MaxDatagrams \in Nat

VARIABLES
  active,    \* activate() has returned and the MIDI reader runs
  matched,   \* HandshakeReplyParser::matched_
  found,     \* consume() returned TRUE for the report at hand
  consumed,  \* the bytes of that report consume() has looked at
  stream,    \* ghost: the latest bytes of activation that are not filler, and
             \* which of them were the terminators of full reports
  parser,    \* the reader's parser
  received,  \* ghost: the payloads since the parser's last reset
  output,    \* ghost: the bytes output since then
  datagrams, \* on their way to the bridge
  delivered, \* ghost: the bytes the bridge passed on since then
  lost       \* ghost: a datagram was lost since then

handshakeVars == <<matched, found, consumed, stream>>
parserVars == <<parser, received, output>>
forwardVars == <<datagrams, delivered, lost>>
reportVars == <<active, handshakeVars, parserVars, forwardVars>>

ReportInit ==
  /\ active = FALSE
  /\ matched = 0 /\ found = FALSE /\ consumed = 0 /\ stream = <<>>
  /\ parser = NoMessage /\ received = <<>> /\ output = <<>>
  /\ datagrams = <<>> /\ delivered = <<>> /\ lost = FALSE

\* The bytes a reply with a terminator inside it can be part of.
LatestReports(s) == IF Len(s) > Len(Prefix) + 1 THEN Tail(s) ELSE s

\* One byte of a report of the activation.  The callback passes the whole report,
\* its terminator included, which consume() takes like any other byte.
ConsumeByte(b) ==
  /\ ~active /\ ~found /\ consumed < PacketBytes
  /\ matched' = Consume(matched, b).matched
  /\ found' = Consume(matched, b).found
  /\ consumed' = consumed + 1
  /\ stream' = IF b = Filler THEN stream
               ELSE LatestReports(Append(stream, [byte |-> b, terminator |-> consumed' = PacketBytes]))
  /\ UNCHANGED <<active, parserVars, forwardVars>>

\* A report ends after any number of bytes.  matched_ is kept for the next one, and
\* after the reply the rest of the report is dropped.
NextReport ==
  /\ ~active /\ consumed > 0
  /\ found' = FALSE /\ consumed' = 0
  /\ stream' = IF found THEN <<>> ELSE stream
  /\ UNCHANGED <<active, matched, parserVars, forwardVars>>

\* The parser forgets what it has; what is still on its way is all that is output.
Reset ==
  /\ parser' = NoMessage
  /\ received' = FlattenSeq(datagrams) /\ output' = FlattenSeq(datagrams)
  /\ delivered' = <<>> /\ lost' = FALSE
  /\ UNCHANGED datagrams

\* activate() returns, its matcher with it, and MIDIInputReader::start resets the
\* parser.
StartReader ==
  /\ ~active /\ active' = TRUE
  /\ matched' = 0 /\ found' = FALSE /\ consumed' = 0 /\ stream' = <<>>
  /\ Reset

\* LocalMIDIForwarder::publish does not wait for room in the socket.
publishReport(messages) ==
  \/ messages = <<>> /\ UNCHANGED <<datagrams, lost>>
  \/ /\ messages # <<>> /\ Len(datagrams) < MaxDatagrams
     /\ datagrams' = Append(datagrams, messages) /\ UNCHANGED lost
  \/ messages # <<>> /\ lost' = TRUE /\ UNCHANGED datagrams

FeedReport ==
  /\ active /\ Len(received) + PayloadBytes <= MaxReports * PayloadBytes
  /\ \E payload \in [1..PayloadBytes -> Bytes] :
       LET fed == feedReport(parser, payload)
       IN  /\ parser' = fed.state
           /\ received' = received \o payload
           /\ output' = output \o fed.out
           /\ publishReport(fed.out)
  /\ UNCHANGED <<active, handshakeVars, delivered>>

\* A report of any other length.
FeedWrongLength ==
  /\ active
  /\ Reset
  /\ UNCHANGED <<active, handshakeVars>>

\* The bridge's main loop hands a datagram to CoreMIDI.
MIDIReceived(passedOn) ==
  /\ datagrams # <<>>
  /\ datagrams' = Tail(datagrams)
  /\ delivered' = IF passedOn THEN delivered \o Head(datagrams) ELSE delivered
  /\ lost' = (lost \/ ~passedOn)
  /\ UNCHANGED <<active, handshakeVars, parserVars>>

ReportNext ==
  \/ \E b \in ReplyBytes : ConsumeByte(b)
  \/ NextReport \/ StartReader \/ FeedReport \/ FeedWrongLength
  \/ \E passedOn \in BOOLEAN : MIDIReceived(passedOn)

ReportSpec == ReportInit /\ [][ReportNext]_reportVars
-----------------------------------------------------------------------------
Length(byte) == CASE byte.kind = "two" -> 2 [] byte.kind = "three" -> 3 [] OTHER -> 0

\* The reference: with the filler taken out, the status bytes followed at once
\* by as many data bytes as they ask for.
MessagesOf(bytes) ==
  LET s == SelectSeq(bytes, LAMBDA byte : byte.kind # "filler")
      Starts(i) == /\ Length(s[i]) > 0
                   /\ i + Length(s[i]) - 1 <= Len(s)
                   /\ \A j \in (i + 1)..(i + Length(s[i]) - 1) : s[j].kind = "data"
      starts == SelectSeq([i \in 1..Len(s) |-> i], Starts)
  IN  FlattenSeq([k \in 1..Len(starts) |-> SubSeq(s, starts[k], starts[k] + Length(s[starts[k]]) - 1)])

\* The types; matched_ is always an index of the prefix, which consume() reads, and
\* the bytes kept between two reports agree with the count expected.
ReportTypeOK ==
  /\ active \in BOOLEAN /\ found \in BOOLEAN /\ matched \in 0..Len(Prefix) - 1
  /\ parser.message \in Seq(Bytes) /\ parser.expected \in {0, 2, 3}
  /\ Len(parser.message) \in IF parser.expected = 0 THEN {0} ELSE 1..(parser.expected - 1)

\* feedReport outputs the complete channel messages of the stream, in order and
\* each once, whichever reports their bytes came in; applications get these, and
\* when datagrams are lost still nothing but whole messages.
OutputIsTheMessages ==
  /\ ReportTypeOK
  /\ output = MessagesOf(received)
  /\ delivered = MessagesOf(delivered)
  /\ ~lost => delivered \o FlattenSeq(datagrams) = output

\* consume() returns TRUE exactly when the bytes it has been given, without the
\* filler, end with the whole prefix, over reports of any lengths.  A reply that is
\* there in the data alone is missed in one case only: it runs over the end of a full
\* report, whose terminator is not filler and lies inside it.
FoundExactly ==
  LET BytesOf(s) == [i \in 1..Len(s) |-> s[i].byte]
      data == SelectSeq(stream, LAMBDA b : ~b.terminator)
  IN  /\ found <=> IsSuffix(Prefix, BytesOf(stream))
      /\ IsSuffix(Prefix, BytesOf(data)) /\ ~found => \E i \in 2..Len(stream) : stream[i].terminator
=============================================================================
