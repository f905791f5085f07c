----------------------------- MODULE MCLayerHooks ------------------------------
(* Both libraries, two present modes, with and without frame generation.   *)
(* A process the default file does not name gets a multiplier of two and,  *)
(* e_present being left out, the mode of value zero.                       *)
EXTENDS LayerHooks

MCDefault == [multiplier |-> 2, performance |-> FALSE, e_present |-> "immediate"]
MCSettings ==
  {[multiplier |-> 1, performance |-> FALSE, e_present |-> "fifo"],
   [multiplier |-> 2, performance |-> FALSE, e_present |-> "fifo"],
   [multiplier |-> 3, performance |-> TRUE, e_present |-> "fifo"],
   [multiplier |-> 2, performance |-> TRUE, e_present |-> "mailbox"],
   MCDefault}
=============================================================================
