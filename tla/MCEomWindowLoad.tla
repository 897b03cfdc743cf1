--------------------------- MODULE MCEomWindowLoad ---------------------------
(* Instances of EomWindowLoad: two images, a few jobs at a time.           *)
EXTENDS EomWindowLoad

CONSTANTS a, b

\* The selection moves; images are saved, or transformed, while it does.  For these two
\* jobs at a time are enough.
Follows == [mayFail |-> {a, b}, operations |-> {"reload", "retry"}, maxJobs |-> 3]
Saves == [mayFail |-> {a}, operations |-> {"save"}, maxJobs |-> 2]
Transforms == [mayFail |-> {a}, operations |-> {"transform"}, maxJobs |-> 2]

AllSettings == {Follows, Saves, Transforms}

\* Files that can be read are selected, and nothing else is done.
Selects == {[mayFail |-> {}, operations |-> {}, maxJobs |-> 3]}
==============================================================================
