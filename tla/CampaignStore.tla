--------------------------- MODULE CampaignStore ---------------------------
(***************************************************************************)
(* What the idea engine promises whoever sends it requests with an         *)
(* idempotency key: one campaign that changes by one request at a time,    *)
(* whatever processes serve it, die and retry.                             *)
(*                                                                         *)
(* A request starts only if the campaign admits it then.  An import ends   *)
(* with its pack, its nodes and its log in the campaign, once, and counted *)
(* in the budget; one that has left something behind is never forgotten.   *)
(* Any other request changes the campaign as a whole, and ends only in a   *)
(* campaign that stands where it was promised to stand.                    *)
(***************************************************************************)
EXTENDS Integers, FiniteSets

CONSTANTS Keys, Method, BurstSize, Budget, TopUp

VARIABLES
    stage,      \* key -> "none", "prepared" or "committed"
    promised,   \* key -> how the campaign is to stand after its request
    packed,     \* imports whose pack is archived
    imported,   \* imports whose nodes are in the campaign
    logged,     \* key -> nodes of its import that are in the log
    campaign    \* [status, max, used]

vars == <<stage, promised, packed, imported, logged, campaign>>

Size == BurstSize * Cardinality(imported)
IsImport(k) == Method[k] = "import"
Whole(k) == k \in imported /\ logged[k] = BurstSize

Stand(status, used, left) == [status |-> status, used |-> used, left |-> left]
Standing(c) == Stand(c.status, c.used, IF c.used >= c.max THEN 0 ELSE c.max - c.used)
Unpromised == Stand("running", 0, 0)

Admits(c, m) ==
    \/ m = "import" /\ c.status = "running" /\ Size + BurstSize <= c.max
    \/ m = "topup" /\ c.status # "completed"
    \/ m = "pause" /\ c.status \in {"running", "exhausted"}
    \/ m = "resume" /\ c.status = "paused" /\ c.used < c.max
    \/ m = "complete"

Changed(c, m) ==
    CASE m = "topup" ->
            [c EXCEPT !.max = @ + TopUp,
                      !.status = IF @ = "exhausted" /\ c.used < c.max + TopUp THEN "running" ELSE @]
      [] m = "pause" -> [c EXCEPT !.status = "paused"]
      [] m = "resume" -> [c EXCEPT !.status = "running"]
      [] OTHER -> [c EXCEPT !.status = "completed"]

-----------------------------------------------------------------------------
Init ==
    /\ stage = [k \in Keys |-> "none"]
    /\ promised = [k \in Keys |-> Unpromised]
    /\ packed = {} /\ imported = {}
    /\ logged = [k \in Keys |-> 0]
    /\ campaign = [status |-> "running", max |-> Budget, used |-> 0]

Files == <<packed, imported, logged>>

Start(k) ==
    /\ stage[k] = "none" /\ Admits(campaign, Method[k])
    /\ stage' = [stage EXCEPT ![k] = "prepared"]
    /\ promised' = [promised EXCEPT ![k] =
                       IF IsImport(k) THEN Unpromised ELSE Standing(Changed(campaign, Method[k]))]
    /\ UNCHANGED <<Files, campaign>>

\* nothing is left of the request: neither a file nor the campaign it promised
GiveUp(k) ==
    /\ stage[k] = "prepared"
    /\ IF IsImport(k) THEN k \notin packed /\ k \notin imported
                      ELSE Standing(campaign) # promised[k]
    /\ stage' = [stage EXCEPT ![k] = "none"]
    /\ promised' = [promised EXCEPT ![k] = Unpromised]
    /\ UNCHANGED <<Files, campaign>>

Pack(k) ==
    /\ stage[k] = "prepared" /\ IsImport(k)
    /\ packed' = packed \cup {k}
    /\ UNCHANGED <<stage, promised, imported, logged, campaign>>

Land(k) ==
    /\ stage[k] = "prepared" /\ k \in packed
    /\ imported' = imported \cup {k}
    /\ UNCHANGED <<stage, promised, packed, logged, campaign>>

LogNode(k) ==
    /\ stage[k] = "prepared" /\ k \in imported /\ logged[k] < BurstSize
    /\ logged' = [logged EXCEPT ![k] = @ + 1]
    /\ UNCHANGED <<stage, promised, packed, imported, campaign>>

\* the counter follows the nodes; a campaign that does not run is not set running
Settle(k) ==
    /\ stage[k] = "prepared" /\ Whole(k)
    /\ campaign' = [status |-> IF campaign.status = "running" /\ Size >= campaign.max
                               THEN "exhausted" ELSE campaign.status,
                    max |-> campaign.max, used |-> Size]
    /\ UNCHANGED <<stage, promised, Files>>

Apply(k) ==
    /\ stage[k] = "prepared" /\ ~IsImport(k) /\ Admits(campaign, Method[k])
    /\ campaign' = Changed(campaign, Method[k])
    /\ Standing(campaign') = promised[k]
    /\ UNCHANGED <<stage, promised, Files>>

Finish(k) ==
    /\ stage[k] = "prepared"
    /\ IF IsImport(k) THEN Whole(k) /\ campaign.used = Size ELSE Standing(campaign) = promised[k]
    /\ stage' = [stage EXCEPT ![k] = "committed"]
    /\ UNCHANGED <<promised, Files, campaign>>

Next ==
    \E k \in Keys : \/ Start(k) \/ GiveUp(k) \/ Pack(k) \/ Land(k) \/ LogNode(k)
                    \/ Settle(k) \/ Apply(k) \/ Finish(k)

Spec == Init /\ [][Next]_vars
=============================================================================
