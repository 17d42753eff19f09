------------------------------ MODULE MCContext ------------------------------
(* A conversation of a few turns, with thresholds small enough to be crossed. *)
EXTENDS Context

\* How a run ended makes no difference to what later runs are told.
Ending == [r \in Runs |->
             IF status[r] \in {"none", "queued", "running"} THEN status[r] ELSE "over"]

\* Nobody reads the watermark here, nor the life of a manifest.
Compiling == [r \in Runs |-> [manifest[r] EXCEPT !.lifecycle = @ # "none"]]

Told == <<message, Ending, phase, Compiling, summary, bound, compactions, crashes,
          agent, heard, left>>
===============================================================================
