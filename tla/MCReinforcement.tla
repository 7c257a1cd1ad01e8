--------------------------- MODULE MCReinforcement ---------------------------
(***************************************************************************)
(* The programs that learn by reinforcement, or carry out what was learned *)
(* so, for TLC: the lessons with a TD3 agent, a residual RL loop with its  *)
(* operator, the training of one skill, and a sorting episode with learned *)
(* skills.  A behaviour is one of them (`kind'); the variables of the      *)
(* others stay as they are.                                                *)
(***************************************************************************)
EXTENDS TD3Lessons, ResidualRL, SortCell, SkillTraining

VARIABLE kind

mcVars == <<kind, td3Vars, rlVars, sortVars, skillVars>>

MCInit ==
    /\ kind \in {"td3", "residual", "sort", "skill"}
    /\ TD3Init /\ RLInit /\ SortInit /\ SkillInit
    /\ kind = "td3" \/ algo = "td3"
    /\ kind = "skill" \/ skill = "arm"

MCNext ==
    \/ kind = "td3" /\ TD3Next /\ UNCHANGED <<kind, rlVars, sortVars, skillVars>>
    \/ kind = "residual" /\ RLNext /\ UNCHANGED <<kind, td3Vars, sortVars, skillVars>>
    \/ kind = "sort" /\ SortNext /\ UNCHANGED <<kind, td3Vars, rlVars, skillVars>>
    \/ kind = "skill" /\ SkillNext /\ UNCHANGED <<kind, td3Vars, rlVars, sortVars>>

MCSpec == MCInit /\ [][MCNext]_mcVars
=============================================================================
