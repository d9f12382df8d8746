----------------------------- MODULE MCGovernance -----------------------------
(* Two organisations, a reviewer in each, one who has not authenticated    *)
(* and an identity that is no human.                                       *)
EXTENDS Governance

CONSTANTS ann, bob, eve, org1, org2, out1, out2, destroy, rewrite,
          engine1, v1, v2, active, stale

Reviewer(id, type, org, authenticated, actions) ==
    [id |-> id, type |-> type, org |-> org, authenticated |-> authenticated, actions |-> actions]

MCReviewers ==
    {Reviewer(ann, "HUMAN", org1, TRUE, {destroy, rewrite}),
     Reviewer(bob, "HUMAN", org2, TRUE, {destroy}),
     Reviewer(eve, "AI", org1, TRUE, {destroy}),
     Reviewer(bob, "HUMAN", org1, FALSE, {destroy})}

Registers(class, version) == [class |-> class, version |-> version]

MCRegistrations ==
    {Registers("GENERATIVE_AI", v1), Registers("GENERATIVE_AI", v2),
     Registers("DETERMINISTIC_RULE_ENGINE", v1)}

(* One long life and two short ones at the end of the clock, and a short   *)
(* one while it runs.                                                      *)
MCLives ==
    {[logs |-> <<4>>, start |-> 1], [logs |-> <<2, 3>>, start |-> 1], [logs |-> <<2>>, start |-> 0]}

(* One life with the clock, for AdvisoryFresh. *)
MCOneLife == {[logs |-> <<4>>, start |-> 0]}

(* Two reviewers, one of them also for the other organisation, on the      *)
(* basis of an advisory or not; an action nobody may take, a stale policy, *)
(* an unknown action, and the classes of actor that are no human.          *)
MCAsks ==
    {Request(destroy, org1, "HUMAN_OPERATOR", ann, active, FALSE),
     Request(destroy, org1, "HUMAN_OPERATOR", ann, active, TRUE),
     Request(destroy, org2, "HUMAN_OPERATOR", bob, active, FALSE),
     Request(destroy, org1, "HUMAN_OPERATOR", bob, active, FALSE),
     Request(rewrite, org1, "HUMAN_OPERATOR", ann, active, FALSE),
     Request(destroy, org1, "HUMAN_OPERATOR", ann, stale, FALSE),
     Request(None, org1, "AI", eve, active, FALSE),
     Request(destroy, org1, None, eve, active, FALSE),
     Request(destroy, org1, "AI", eve, active, FALSE),
     Request(destroy, org1, "SYSTEM_AUTOMATION", eve, active, FALSE),
     Request(destroy, org1, "DETERMINISTIC_RULE_ENGINE", engine1, active, FALSE)}
===============================================================================
