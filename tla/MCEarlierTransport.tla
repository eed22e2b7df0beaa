----------------------- MODULE MCEarlierTransport -----------------------
(* One helper and one worker with two OUT slots, a feedback and a bulk-IN slot. *)
EXTENDS EarlierTransport

MCOwner == [h \in Handles |-> 1]

==========================================================================
