------------------------- MODULE MCMIDIInputReader -------------------------
EXTENDS MIDIInputReader

\* Two messages of two bytes; with one byte in a report each of them is cut.
TwoProgramChanges == <<
  <<[kind |-> "two", tag |-> 1], [kind |-> "data", tag |-> 2]>>,
  <<[kind |-> "two", tag |-> 3], [kind |-> "data", tag |-> 4]>> >>

\* A note message and a program change.
NoteAndProgramChange == <<
  <<[kind |-> "three", tag |-> 1], [kind |-> "data", tag |-> 2], [kind |-> "data", tag |-> 3]>>,
  <<[kind |-> "two", tag |-> 4], [kind |-> "data", tag |-> 5]>> >>
=============================================================================
