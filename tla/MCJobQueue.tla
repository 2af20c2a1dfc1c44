----------------------------- MODULE MCJobQueue -----------------------------
(***************************************************************************)
(* Instances of JobQueue for TLC.                                          *)
(*                                                                         *)
(* Twins: two requests for one piece of work (one type, one dedupe key),   *)
(* two tries each, any worker does anything.                               *)
(* Mixed: a normalize job of two tries and an extract job of one, with a   *)
(* higher priority and no key.  A drain claims normalize only, and the     *)
(* process of an older build has no extract handler.                       *)
(***************************************************************************)
EXTENDS JobQueue, TLC

CONSTANT Older   \* the workers of the older build

TwinsTypeOf == [j \in JobIds |-> "normalize"]
TwinsKeyOf == [j \in JobIds |-> "k"]
TwinsPriorityOf == [j \in JobIds |-> 0]
TwinsMaxAttempts == [j \in JobIds |-> 2]

MixedTypeOf == [j \in JobIds |-> IF j = "A" THEN "normalize" ELSE "extract"]
MixedKeyOf == [j \in JobIds |-> IF j = "A" THEN "k" ELSE NoKey]
MixedPriorityOf == [j \in JobIds |-> IF j = "A" THEN 0 ELSE 1]
MixedMaxAttempts == [j \in JobIds |-> IF j = "A" THEN 2 ELSE 1]

ServesOf == [w \in Workers |-> IF w \in Drains THEN {"normalize"} ELSE Types]
RegisteredOf == [w \in Workers |-> IF w \in Older THEN {"normalize"} ELSE Types]

SymWorkers == Permutations(Workers)
=============================================================================
