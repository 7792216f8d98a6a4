---------------------------- MODULE MCMediaPages ----------------------------
(* A photo page with two of its seven sizes, in the two tasks of its job.    *)
EXTENDS MediaPages

SmallChain == <<<<"m", "sq">>>>
SmallBatches == <<{"m", "sq"}, {"in"}>>
====
