--------------------------- MODULE MCStreamMetering ---------------------------
(***************************************************************************)
(* StreamMetering for TLC.  The automatic streams are interchangeable, and *)
(* so are the manual ones; the symmetry is used by safety runs only.       *)
(***************************************************************************)
EXTENDS StreamMetering, TLC

Interchangeable ==
    {f \in Permutations(Streams) :
        \A s \in Streams : /\ f[s] \in Manual <=> s \in Manual
                           /\ f[s] \in Overlapping <=> s \in Overlapping}

\* Nothing is charged or reserved any more in a closed channel; the runs that
\* use this leave what goes on there to the server run.
OpenChannel == ~ch.closed

=============================================================================
