------------------------ MODULE HandshakeReplyParser ------------------------
(***************************************************************************)
(* The matcher that looks for the controller's reply to host-identify in   *)
(* the reports read during activation, as operators.  A reply may begin in *)
(* one report and end in another, and filler bytes may come anywhere in    *)
(* it; the terminator of a full report is a byte like any other.  The      *)
(* matcher falls back to one byte, or none, on a mismatch.                 *)
(***************************************************************************)
EXTENDS Integers, Sequences

CONSTANTS
  Prefix,   \* the reply's first bytes
  Filler    \* fd

\* The fallback is right for a prefix whose first byte does not come again.
ASSUME PrefixAssumption ==
  /\ Len(Prefix) > 1
  /\ \A i \in 1..Len(Prefix) : Prefix[i] # Filler
  /\ \A i \in 2..Len(Prefix) : Prefix[i] # Prefix[1]

\* Faulty variant: a byte that breaks a match is not taken as a first byte.
MatchFromNothing(matched, b) == IF b = Prefix[matched + 1] THEN matched + 1 ELSE 0

\* How much of the prefix is matched after byte b.
Match(matched, b) ==
  CASE b = Prefix[matched + 1] -> matched + 1
    [] b # Prefix[matched + 1] /\ b = Prefix[1] -> 1
    [] OTHER -> 0

\* One turn of the loop of consume(): matched_, and whether it returns TRUE.
Consume(matched, b) ==
  IF b = Filler THEN [matched |-> matched, found |-> FALSE]
  ELSE [matched |-> IF Match(matched, b) = Len(Prefix) THEN 0 ELSE Match(matched, b),
        found |-> Match(matched, b) = Len(Prefix)]
=============================================================================
