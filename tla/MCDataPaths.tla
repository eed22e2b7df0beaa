---------------------------- MODULE MCDataPaths ----------------------------
EXTENDS DataPaths

\* A two-frame ring whose indices wrap at 6, resampled in half frames with the
\* steps 1/2, 1 and 3/2.
MCSteps == {1, 2, 3}

\* Four bytes of the code's prefix, the one that comes twice in it included.  Where it
\* does not belong, each of them breaks a match as any other byte does.  A reply fits
\* a report of five bytes, of which the last is the terminator.
MCPrefix == <<"f0", "00", "01", "00">>
MCReplyBytes == {"f0", "00", "01", "fd"}

MCBytes == {[kind |-> k, tag |-> 0] : k \in Kinds} \cup {[kind |-> "data", tag |-> 1]}

\* With reports of five bytes: messages that fill one, that do not fit one, and that
\* take two; incomplete ones, the rest of a long one, and bytes that are not forwarded.
MCPacketKinds ==
  {<<"three">>, <<"two">>, <<"three", "two">>, <<"three", "three">>, <<"sysex">>,
   <<"rest", "three">>, <<"two", "cut">>, <<"realtime", "two">>}
=============================================================================
