------------------------------ MODULE RunContract ------------------------------
(***************************************************************************)
(* What a run promises to the desk and to the CMS, whatever steps, retries *)
(* and requests carry it out: the CMS shows a text only after a decision   *)
(* taken at the second gate, a run that has ended is never worked on again *)
(* unless it failed, and only a failed run is restarted.                   *)
(***************************************************************************)
EXTENDS Naturals

VARIABLES stage, shown

Stages == {"working", "gate1", "gate2", "publishing", "published", "closed", "failed"}

Move(from, to) == stage \in from /\ stage' \in to /\ UNCHANGED shown

Init == stage = "working" /\ shown = 0

OpenGate == Move({"working"}, {"gate1", "gate2"})
Decide1  == Move({"gate1"}, {"working", "closed"})
Decide2  == Move({"gate2"}, {"working", "closed", "publishing"})
Push     == stage = "publishing" /\ shown' \in Nat /\ UNCHANGED stage
Publish  == Move({"publishing"}, {"published"})
Fail     == Move(Stages, {"failed"})
Restart  == Move({"failed"}, {"working"})

Next == OpenGate \/ Decide1 \/ Decide2 \/ Push \/ Publish \/ Fail \/ Restart

Spec == Init /\ [][Next]_<<stage, shown>>
=============================================================================
