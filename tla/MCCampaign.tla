------------------------------ MODULE MCCampaign ------------------------------
(* The engine orders a campaign is started with. *)
EXTENDS Campaign

MCEnginePlans == {<<"gptq", "exl3">>, <<"exl3", "gptq">>}
MCDefaultPlan == {<<"gptq", "exl3">>}
==============================================================================
