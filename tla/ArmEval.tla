------------------------------ MODULE ArmEval ------------------------------
(***************************************************************************)
(* The evaluation jobs of lessons 15-18 (lab/tasks/task_nfv0 .. task_nfv3, *)
(* evaluate): a list of episodes in plan, some of them rendered into one *)
(* video by a generator the encoder pulls, and all of them again without   *)
(* the video when that fails; the rows and accumulators they fill, and the *)
(* claims a result.json answers.  Lesson 15 evaluates scripted controllers *)
(* and reads no weights; the others evaluate the arms of a checkpoint.     *)
(***************************************************************************)
EXTENDS ArmTraining
LOCAL INSTANCE FiniteSetsExt

CONSTANTS
    Episodes,  \* episodes per group
    MaxVideo,  \* rendered episodes, 4 in the code
    Burst      \* the most episodes that begin less than POLL_S after a look

ASSUME EvalAssumption == Episodes \in Nat \ {0} /\ MaxVideo \in Nat \ {0} /\ Burst \in Nat

VARIABLES
    epc,      \* where the evaluation job is
    plan,     \* the groups of its episodes, in order: [arm, noise, b], b for
              \* the arms of a second checkpoint
    video,    \* "off", "on" while it is made, "ok" or "failed"
    todo,     \* the episodes of this part still to begin
    rows,     \* the episodes recorded
    usage,    \* usage[g]: episodes whose decisions the accumulators of g hold
    partial,  \* the episode under way has added to them
    begun,    \* done_n, the step in status.json
    estop,    \* should_continue has said stop
    fresh,    \* polls it may still answer unread since its last look
    late,     \* episodes begun since the user asked (history)
    result    \* the claims result.json answers, or "none"

evalVars == <<epc, plan, video, todo, rows, usage, partial, begun, estop, fresh, late, result>>

Group(a, noise, b) == [arm |-> a, noise |-> noise, b |-> b]
ArmGroups(c, noise, b) == [i \in DOMAIN c.arms |-> Group(c.arms[i], noise, b)]

\* So many episodes of each group, group after group.
PerGroup(gs) == [i \in 1..Len(gs) * Episodes |-> gs[((i - 1) \div Episodes) + 1]]

Plain(names) == [i \in DOMAIN names |-> Group(names[i], "off", FALSE)]
Heights == Plain(<<"dz -8", "dz 0", "dz 8">>)

\* Lesson 15: the episodes of its scenarios; the hold goes round its heights.
Scenarios == {PerGroup(Plain(names)) : names \in {<<"t0", "t1", "t2", "t3">>, <<"t0">>,
                                       <<"kp 150", "kp 800">>, <<"position", "hybrid">>}}
             \cup {[i \in 1..Episodes |-> Heights[((i - 1) % Len(Heights)) + 1]]}

\* Lesson 17: with no corruption asked for, the fvlmoe arm again under two of
\* them; and the arms of a checkpoint B, if one was chosen.
Twins(c, noise) ==
    IF noise = "off" /\ \E i \in DOMAIN c.arms : c.arms[i] = "fvlmoe"
    THEN <<Group("fvlmoe", "zero", FALSE), Group("fvlmoe", "gaussian", FALSE)>> ELSE <<>>
Groups17(c, b, noise) ==
    ArmGroups(c, noise, FALSE) \o Twins(c, noise) \o ArmGroups(b, noise, TRUE)

\* The groups whose decisions are counted: routing, and gates.
Routed == {"prefix_moe", "fvlmoe"}
Gated == {"B forcevla2+hybrid", "C forcevla2+position"}
Counted == {g \in SeqRange(plan) : \/ lesson = 17 /\ g.arm \in Routed
                                   \/ lesson = 18 /\ g.arm \in Gated}

\* _spread: round-robin over the plan, the earliest of each first.
Nth(i) == Cardinality({k \in 1..i : plan[k] = plan[i]})
Before(i, k) == \/ Nth(i) < Nth(k)
                \/ Nth(i) = Nth(k) /\ i < k
Rendered(k) == video # "off" /\ Cardinality({i \in DOMAIN plan : Before(i, k)}) < MaxVideo

\* The jobs of S in the order of the plan.
InPlanOrder(S) ==
    [n \in 1..Cardinality(S) |-> CHOOSE k \in S : Cardinality({i \in S : i <= k}) = n]
RenderedJobs == InPlanOrder({i \in DOMAIN plan : Rendered(i)})
PlainJobs == InPlanOrder({i \in DOMAIN plan : ~Rendered(i)})

EvalInit ==
    /\ epc = "idle"
    /\ plan = <<>>
    /\ video = "off"
    /\ todo = <<>> /\ rows = <<>>
    /\ usage = [g \in {} |-> 0] /\ partial = FALSE
    /\ begun = 0
    /\ estop = FALSE /\ fresh = 0 /\ late = 0
    /\ result = {"none"}

-----------------------------------------------------------------------------
StartWith(eps) ==
    /\ epc = "idle"
    /\ plan' = eps
    /\ video' \in {"off", "on"}
    /\ usage' = [g \in SeqRange(eps) |-> 0]
    /\ epc' = "split"
    /\ UNCHANGED <<todo, rows, partial, begun, estop, fresh, late, result>>

Eval15 == lesson = 15 /\ \E eps \in Scenarios : StartWith(eps)
Eval16 ==
    /\ lesson = 16
    /\ \E n \in DOMAIN ckpts : StartWith(PerGroup(ArmGroups(ckpts[n], "off", FALSE)))
Eval17 ==
    /\ lesson = 17
    /\ \E n \in DOMAIN ckpts, noise \in {"off", "zero"} :
         \E b \in {[arms |-> <<>>], ckpts[Len(ckpts)]} :
            StartWith(PerGroup(Groups17(ckpts[n], b, noise)))
Eval18 ==
    /\ lesson = 18
    /\ \E n \in DOMAIN ckpts : StartWith(PerGroup(ArmGroups(ckpts[n], "off", FALSE)))

Split ==
    /\ epc = "split"
    /\ IF video = "on" THEN todo' = RenderedJobs /\ epc' = "frames"
       ELSE todo' = PlainJobs /\ epc' = "plain"
    /\ UNCHANGED <<plan, video, rows, usage, partial, begun, estop, fresh, late, result>>

\* should_continue says yes: it looked at the file, or did so less than POLL_S
\* ago.  A hold of lesson 15 that is not rendered takes less than that.
Polled == {"frames", "plain"}
Asked == "eval" \in stopAsked
Poll ==
    \/ ~Asked /\ fresh' = Burst
    \/ fresh > 0 /\ fresh' = fresh - 1

Begin ==
    /\ begun' = begun + 1
    /\ late' = IF Asked THEN late + 1 ELSE late
    /\ UNCHANGED <<plan, video, todo, rows, usage, partial, estop, result>>

\* Mutant: only the rendered episodes are polled before.
MutBeginPolled ==
    /\ epc \in Polled /\ todo # <<>>
    /\ IF epc = "frames" THEN Poll ELSE UNCHANGED fresh
    /\ epc' = IF epc = "frames" THEN "filming" ELSE "rolling"
    /\ Begin

BeginPolled ==
    /\ epc \in Polled /\ todo # <<>>
    /\ Poll
    /\ epc' = IF epc = "frames" THEN "filming" ELSE "rolling"
    /\ Begin

Current == plan[Head(todo)]

\* A decision of an arm with a router, or gates, is added to its group's count.
Decides(arms) ==
    /\ epc \in {"filming", "rolling", "again"} /\ ~partial
    /\ Current.arm \in arms
    /\ partial' = TRUE
    /\ UNCHANGED <<epc, plan, video, todo, rows, usage, begun, estop, fresh, late, result>>
Decide17 == lesson = 17 /\ Decides(Routed)
Decide18 == lesson = 18 /\ Decides(Gated)

Recorded ==
    /\ rows' = Append(rows, Head(todo))
    /\ todo' = Tail(todo)
    /\ UNCHANGED <<plan, video, begun, estop, fresh, late, result>>
NoCount == UNCHANGED <<usage, partial>>
Count ==
    /\ Current \in Counted => partial
    /\ usage' = IF partial THEN [usage EXCEPT ![Current] = @ + 1] ELSE usage
    /\ partial' = FALSE

\* The end of an episode: its record.
Episode15 == lesson = 15 /\ Recorded /\ NoCount
Episode16 == lesson = 16 /\ Recorded /\ NoCount
Episode17 == lesson = 17 /\ Recorded /\ Count
Episode18 == lesson = 18 /\ Recorded /\ Count

EpisodeEnds ==
    /\ \/ epc = "filming" /\ epc' = "frames"
       \/ epc = "rolling" /\ epc' = "plain"
       \/ epc = "again" /\ epc' = "rerun"
    /\ Episode15 \/ Episode16 \/ Episode17 \/ Episode18

\* A stop that is seen ends the generator; the encoder finishes the file, if it has a frame.
FramesEnd ==
    /\ epc = "frames"
    /\ todo = <<>> \/ Asked
    /\ begun > 0
    /\ video' = "ok"
    /\ estop' = (todo # <<>>)
    /\ todo' = IF estop' THEN <<>> ELSE PlainJobs
    /\ epc' = IF estop' THEN "stopped" ELSE "plain"
    /\ UNCHANGED <<plan, rows, usage, partial, begun, fresh, late, result>>

(***************************************************************************)
(* The encoder, the renderer or the episode raises, or there is no frame   *)
(* because a stop was seen first: the rows and (lessons 17 and 18) the     *)
(* accumulators are emptied, and the rendered jobs run again unfilmed.     *)
(* These episodes are not polled before.                                   *)
(***************************************************************************)
\* Mutant: the accumulators keep what the failed video left in them.
MutClear17 == lesson = 17 /\ rows' = <<>> /\ UNCHANGED usage /\ partial' = FALSE

Zero == [g \in DOMAIN usage |-> 0]
Clear15 == lesson = 15 /\ rows' = <<>> /\ NoCount
Clear16 == lesson = 16 /\ rows' = <<>> /\ NoCount
Clear17 == lesson = 17 /\ rows' = <<>> /\ usage' = Zero /\ partial' = FALSE
Clear18 == lesson = 18 /\ rows' = <<>> /\ usage' = Zero /\ partial' = FALSE

VideoFails ==
    /\ \/ epc = "filming"
       \/ epc = "frames" /\ (todo = <<>> \/ Asked)
    /\ video' = "failed"
    /\ estop' = (epc = "frames" /\ todo # <<>>)
    /\ Clear15 \/ Clear16 \/ Clear17 \/ Clear18
    /\ todo' = RenderedJobs
    /\ epc' = "rerun"
    /\ UNCHANGED <<plan, begun, fresh, late, result>>

Rerun ==
    /\ epc = "rerun" /\ todo # <<>>
    /\ epc' = "again"
    /\ Begin
    /\ UNCHANGED fresh

RerunEnds ==
    /\ epc = "rerun" /\ todo = <<>>
    /\ epc' = IF estop THEN "stopped" ELSE "plain"
    /\ todo' = IF estop THEN <<>> ELSE PlainJobs
    /\ UNCHANGED <<plan, video, rows, usage, partial, begun, estop, fresh, late, result>>

PlainStops ==
    /\ epc = "plain" /\ todo # <<>> /\ Asked
    /\ epc' = "stopped"
    /\ estop' = TRUE
    /\ UNCHANGED <<plan, video, todo, rows, usage, partial, begun, fresh, late, result>>

\* Outside the video an exception ends the job.
EvalRaises ==
    /\ epc \in {"rolling", "again"}
    /\ epc' = "failed"
    /\ UNCHANGED <<plan, video, todo, rows, usage, partial, begun, estop, fresh, late, result>>

-----------------------------------------------------------------------------
(***************************************************************************)
(* The claims: each is answered when all groups of one of its alternatives *)
(* have rows; the groups of a second checkpoint never count.  Some task,   *)
(* or some height, is enough for the claims of lesson 15 about all of them.*)
(***************************************************************************)
Off(arms) == {Group(a, "off", FALSE) : a \in arms}
Claim(id, arms) == [id |-> id, of |-> {Off(arms)}]
AnyOf(id, arms) == [id |-> id, of |-> {Off({a}) : a \in arms}]
Drop(id, noise) == [id |-> id, of |-> {Off({"fvlmoe"}) \cup {Group("fvlmoe", noise, FALSE)}}]

Claims15 == {AnyOf("expert_solves_every_task", {"t0", "t1", "t2", "t3"}),
             AnyOf("hybrid_holds_5n", {"dz -8", "dz 0", "dz 8"}),
             Claim("position_cannot_hold_force", {"position", "hybrid"})}
Claims16 == {Claim("nanovla_solves_visible", {"A t0 default"}),
             Claim("hidden_threshold_blinds_vla", {"B t1 default"}),
             Claim("language_is_load_bearing", {"B t1 default", "C t1 no-language"})}
Claims17 == {Claim("fvlmoe_gate", {"fvlmoe"}),
             Claim("force_in_beats_none", {"fvlmoe", "none"}),
             Drop("twin_gap", "zero"), Drop("noise_drop", "gaussian"),
             Claim("moe_before_vlm_collapses", {"prefix_moe", "concat_after"})}
Claims18 == {Claim("hybrid_tracks_force", {"B forcevla2+hybrid"}),
             Claim("position_head_cannot", {"C forcevla2+position"}),
             Claim("force_output_is_the_lever", {"B forcevla2+hybrid", "C forcevla2+position"}),
             Claim("beats_forcevla", {"A fvlmoe+position", "B forcevla2+hybrid"}),
             Claim("gate_tilts_to_force", {"B forcevla2+hybrid"})}

Answered(claims, measured) == {c.id : c \in {c \in claims : \E of \in c.of : of \subseteq measured}}

\* Mutant: a second checkpoint's groups count.
MutMeasured == {[plan[i] EXCEPT !.b = FALSE] : i \in SeqRange(rows)}

Measured == {plan[i] : i \in SeqRange(rows)}

\* Claims left open if no hold came to its measured window, or no gate decided
\* both in and out of contact.
Unsure == {"hybrid_holds_5n", "gate_tilts_to_force"}

\* The rows are aggregated and result.json replaces its predecessor.
Result15 ==
    /\ lesson = 15
    /\ \E open \in SUBSET Unsure : result' = Answered(Claims15, Measured) \ open
Result16 == lesson = 16 /\ result' = Answered(Claims16, Measured)
Result17 == lesson = 17 /\ result' = Answered(Claims17, Measured)
Result18 ==
    /\ lesson = 18
    /\ \E open \in SUBSET Unsure : result' = Answered(Claims18, Measured) \ open

EvalDone ==
    /\ epc = "plain" /\ todo = <<>>
    /\ Result15 \/ Result16 \/ Result17 \/ Result18
    /\ epc' = "done"
    /\ UNCHANGED <<plan, video, todo, rows, usage, partial, begun, estop, fresh, late>>

EvalKilled ==
    /\ epc \notin {"idle", "done", "stopped", "failed", "killed"}
    /\ epc' = "killed"
    /\ UNCHANGED <<plan, video, todo, rows, usage, partial, begun, estop, fresh, late, result>>

EvalStarts == (Eval15 \/ Eval16 \/ Eval17 \/ Eval18) /\ UNCHANGED <<demoVars, trainVars>>

Evaluate ==
    /\ \/ Split \/ BeginPolled \/ Decide17 \/ Decide18 \/ EpisodeEnds \/ FramesEnd \/ VideoFails
       \/ Rerun \/ RerunEnds \/ PlainStops \/ EvalRaises \/ EvalDone \/ EvalKilled
    /\ UNCHANGED <<demoVars, trainVars>>

-----------------------------------------------------------------------------
(***************************************************************************)
(* If the video fails or not, no episode has two rows, each accumulator    *)
(* counts the episodes of its group's rows and no others, and a finished   *)
(* evaluation has a row of every episode.                                  *)
(***************************************************************************)
EachEpisodeOnce ==
    /\ \A i, k \in DOMAIN rows : rows[i] = rows[k] => i = k
    /\ \A g \in Counted :
          usage[g] = Cardinality({i \in DOMAIN rows : plan[rows[i]] = g})
    /\ epc = "done" => SeqRange(rows) = DOMAIN plan

(***************************************************************************)
(* After the user asked for the stop an evaluation begins no more episodes *)
(* than come less than POLL_S after its last look, in whatever part of the *)
(* plan that was; and once more the rendered ones, if the video fails.     *)
(***************************************************************************)
StopCostsFewEpisodes == late <= Burst + (IF video = "failed" THEN MaxVideo ELSE 0)

(***************************************************************************)
(* A claim is answered only in the result of a finished evaluation, from   *)
(* all episodes of the arms of the checkpoint under evaluation that it     *)
(* speaks of; and such a claim is answered, unless it is one of Unsure.    *)
(***************************************************************************)
ClaimsAreMeasured ==
    /\ result # {"none"} => epc = "done"
    /\ epc = "done" => \A c \in Claims15 \cup Claims16 \cup Claims17 \cup Claims18 :
          LET complete == \E of \in c.of : \A g \in of :
                  /\ g \in SeqRange(plan)
                  /\ \A i \in DOMAIN plan : plan[i] = g => i \in SeqRange(rows)
          IN  /\ c.id \in result => complete
              /\ complete => c.id \in result \cup Unsure
=============================================================================
