----------------------- MODULE MCNS6DeviceSystem ------------------------
(* Two helpers and the plug-in at a registry of two leases and a port that   *)
(* holds one message; two sessions and one CoreAudio client started twice.   *)
EXTENDS NS6DeviceSystem, TLC

CONSTANTS p1, p2, h1, h2   \* the helpers and the handle of each

MCOwner ==
    h1 :> p1 @@ h2 :> p2 @@ [h \in {"dev", "new", "old"} |-> Plugin]

\* The helpers run the same program, each with its own handle: one may stand for
\* the other where only safety is asked.
HelpersAlike ==
    {f \in Permutations({p1, p2, h1, h2}) :
        \A h \in {h1, h2} : f[h] \in {h1, h2} /\ MCOwner[f[h]] = f[MCOwner[h]]}

==========================================================================
