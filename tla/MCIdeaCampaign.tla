--------------------------- MODULE MCIdeaCampaign --------------------------
(* A burst, a top-up, a pause, a resumption and a completion, each request  *)
(* repeated as often as wanted.                                             *)
EXTENDS IdeaCampaign

CONSTANTS b1, t1, s1, r1, c1

MCKeys == {b1, t1, s1, r1, c1}
MCMethod == [k \in MCKeys |-> CASE k = b1 -> "import" [] k = t1 -> "topup" [] k = s1 -> "pause"
                                [] k = r1 -> "resume" [] k = c1 -> "complete"]
=============================================================================
