-------------------------- MODULE MIDIInputParser --------------------------
(***************************************************************************)
(* The parser of the controller's MIDI reports, as operators.  A byte is   *)
(* known by its kind, which is all the parser looks at, and a tag that     *)
(* tells bytes of a kind apart.                                            *)
(***************************************************************************)
EXTENDS Integers, Sequences, SequencesExt

\* 80-bf and e0-ef start a message of three bytes, c0-df one of two; fd fills a
\* report up; the other bytes from f0 are system bytes; below 80 is data.
Kinds == {"three", "two", "filler", "system", "data"}

\* message_ up to used_, and expected_.
NoMessage == [message |-> <<>>, expected |-> 0]

\* What is kept once a message is complete.
Finish(message) == NoMessage

\* Faulty variant: a filler byte ends the message it interrupts.
ParseByteDroppingAtFiller(p, byte) ==
  CASE byte.kind \in {"filler", "system"} -> [state |-> NoMessage, out |-> <<>>]
    [] byte.kind \in {"three", "two"} ->
         [state |-> [message |-> <<byte>>, expected |-> IF byte.kind = "two" THEN 2 ELSE 3],
          out |-> <<>>]
    [] byte.kind = "data" ->
         LET message == Append(p.message, byte)
         IN  CASE p.expected = 0 -> [state |-> p, out |-> <<>>]
               [] Len(message) = p.expected -> [state |-> Finish(message), out |-> message]
               [] OTHER -> [state |-> [p EXCEPT !.message = message], out |-> <<>>]

\* One turn of the loop of feedReport: the new state and what is output.
ParseByte(p, byte) ==
  CASE byte.kind = "filler" -> [state |-> p, out |-> <<>>]
    [] byte.kind = "system" -> [state |-> NoMessage, out |-> <<>>]
    [] byte.kind \in {"three", "two"} ->
         [state |-> [message |-> <<byte>>, expected |-> IF byte.kind = "two" THEN 2 ELSE 3],
          out |-> <<>>]
    [] byte.kind = "data" ->
         LET message == Append(p.message, byte)
         IN  CASE p.expected = 0 -> [state |-> p, out |-> <<>>]
               [] Len(message) = p.expected -> [state |-> Finish(message), out |-> message]
               [] OTHER -> [state |-> [p EXCEPT !.message = message], out |-> <<>>]

\* A whole report of the right length; state spans reports.
feedReport(p, payload) ==
  FoldLeft(LAMBDA acc, byte :
             LET step == ParseByte(acc.state, byte)
             IN  [state |-> step.state, out |-> acc.out \o step.out],
           [state |-> p, out |-> <<>>], payload)
=============================================================================
