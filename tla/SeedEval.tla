------------------------------ MODULE SeedEval ------------------------------
(***************************************************************************)
(* Lesson 19's evaluation (lab/tasks/task_nfv4.py, evaluate): the frozen   *)
(* base and the residual of every seed of a checkpoint run on the same     *)
(* episodes, each in a worker of its own; then the base and the median     *)
(* seed's residual are traced on a few of these, the first one for the     *)
(* video too.                                                              *)
(***************************************************************************)
EXTENDS Naturals, Sequences, FiniteSets

CONSTANTS
    Seeds,    \* the seeds of the suite, suite["seeds"]
    Shared,   \* episodes each is evaluated on
    Traced    \* N_TRACE

ASSUME SeedEvalAssumption ==
    /\ Seeds # {} /\ Seeds \subseteq Nat \ {0} /\ IsFiniteSet(Seeds)
    /\ Shared \in Nat \ {0} /\ Traced \in Nat \ {0}

VARIABLES
    epc,     \* where the evaluation job is
    ask,     \* its control.json
    ev,      \* ev[w]: where worker w is
    signed,  \* the workers sent SIGTERM
    won,     \* won[w]: the episodes of its successes, once read
    film,    \* "off", "on", "ok" or "failed"
    pair,    \* the traced episodes of the video, [who, seed]
    traces   \* the others; at the end all of them

seedEvalVars == <<epc, ask, ev, signed, won, film, pair, traces>>

Base == 0
Which == {Base} \cup Seeds
EvalSeeds == 1..Shared
Least(S) == CHOOSE x \in S : \A y \in S : x <= y

SeedEvalInit ==
    /\ epc = "spawn" /\ ask = "run"
    /\ ev = [w \in Which |-> "none"] /\ signed = {}
    /\ won = [w \in Which |-> {}]
    /\ film \in {"off", "on"}
    /\ pair = <<>> /\ traces = <<>>

-----------------------------------------------------------------------------
(***************************************************************************)
(* The workers, and the wait for them.                                     *)
(***************************************************************************)
SpawnEval ==
    /\ epc = "spawn"
    /\ LET w == Least({v \in Which : ev[v] = "none"}) IN
         /\ ev' = [ev EXCEPT ![w] = "run"]
         /\ epc' = IF \E v \in Which \ {w} : ev[v] = "none" THEN "spawn" ELSE "wait"
    /\ UNCHANGED <<ask, signed, won, film, pair, traces>>

EvalWorker(w) ==
    /\ ev[w] = "run"
    /\ ev' = [ev EXCEPT ![w] = "ok"]
    /\ UNCHANGED <<epc, ask, signed, won, film, pair, traces>>

EvalWorkerDies(w) ==
    /\ ev[w] = "run"
    /\ ev' = [ev EXCEPT ![w] = "bad"]
    /\ UNCHANGED <<epc, ask, signed, won, film, pair, traces>>

\* The loop sleeps while one runs, then polls; a failure waits for the others.
WaitEval ==
    /\ epc = "wait"
    /\ epc' = IF \E w \in Which : ev[w] = "run" THEN "poll" ELSE "judge"
    /\ UNCHANGED <<ask, ev, signed, won, film, pair, traces>>

StopEval ==
    /\ epc \in {"poll", "held"} /\ ask = "stop"
    /\ signed' = {w \in Which : ev[w] = "run"}
    /\ epc' = "stopped"
    /\ UNCHANGED <<ask, ev, won, film, pair, traces>>

PollEval ==
    /\ \/ epc = "poll" /\ ask = "pause" /\ epc' = "held"
       \/ epc \in {"poll", "held"} /\ ask = "run" /\ epc' = "wait"
    /\ UNCHANGED <<ask, ev, signed, won, film, pair, traces>>

\* Their files are read when all have ended well.
JudgeEval ==
    /\ epc = "judge"
    /\ IF \E w \in Which : ev[w] = "bad" THEN epc' = "failed" /\ UNCHANGED won
       ELSE epc' = "trace" /\ won' \in [Which -> SUBSET EvalSeeds]
    /\ UNCHANGED <<ask, ev, signed, film, pair, traces>>

-----------------------------------------------------------------------------
(***************************************************************************)
(* The traces, which no command stops.                                     *)
(***************************************************************************)
\* order[(len - 1) // 2]: by success, then by seed.
Better(r, s) == \/ Cardinality(won[r]) > Cardinality(won[s])
                \/ Cardinality(won[r]) = Cardinality(won[s]) /\ r > s
Median ==
    CHOOSE s \in Seeds : Cardinality({r \in Seeds : Better(s, r)}) = (Cardinality(Seeds) - 1) \div 2

Pick == LET gained == won[Median] \ won[Base] IN IF gained # {} THEN Least(gained) ELSE 1

\* The others follow in their order, as many as are traced.
TraceSeeds ==
    [i \in 1..Least({Traced, Shared}) |->
        IF i = 1 THEN Pick ELSE IF i - 1 < Pick THEN i - 1 ELSE i]

Episode(who, seed) == [who |-> who, seed |-> seed]
Both(seed) == <<Episode(Base, seed), Episode(Median, seed)>>

\* All but the first of them; one after the other, but nothing looks between.
TraceRest ==
    /\ epc = "trace"
    /\ traces' = [i \in 1..2 * (Len(TraceSeeds) - 1) |->
                     Both(TraceSeeds[((i + 1) \div 2) + 1])[((i + 1) % 2) + 1]]
    /\ epc' = IF film = "on" THEN "film" ELSE "rerun"
    /\ UNCHANGED <<ask, ev, signed, won, film, pair>>

FilmEpisode ==
    /\ epc = "film" /\ Len(pair) < 2
    /\ pair' = Append(pair, Both(Pick)[Len(pair) + 1])
    /\ UNCHANGED <<epc, ask, ev, signed, won, film, traces>>

FilmEnds ==
    /\ epc = "film" /\ Len(pair) = 2
    /\ film' = "ok" /\ epc' = "result"
    /\ UNCHANGED <<ask, ev, signed, won, pair, traces>>

\* Mutant: what was filmed before the failure counts.
MutFilmFails ==
    /\ epc = "film"
    /\ film' = "failed"
    /\ epc' = IF pair = <<>> THEN "rerun" ELSE "result"
    /\ UNCHANGED <<ask, ev, signed, won, pair, traces>>

\* In an episode, or when the encoder ends.
FilmFails ==
    /\ epc = "film"
    /\ film' = "failed" /\ pair' = <<>>
    /\ epc' = "rerun"
    /\ UNCHANGED <<ask, ev, signed, won, traces>>

Unfilmed ==
    /\ epc = "rerun"
    /\ pair' = Both(Pick)
    /\ epc' = "result"
    /\ UNCHANGED <<ask, ev, signed, won, film, traces>>

EvalResult ==
    /\ epc = "result"
    /\ traces' = pair \o traces
    /\ epc' = "done"
    /\ UNCHANGED <<ask, ev, signed, won, film, pair>>

\* Nothing terminates the workers then.
SeedEvalRaises ==
    /\ epc \in {"spawn", "poll", "held", "trace", "rerun"}
    /\ epc' = "raised"
    /\ UNCHANGED <<ask, ev, signed, won, film, pair, traces>>

-----------------------------------------------------------------------------
AskEval ==
    /\ epc \in {"spawn", "wait", "poll", "held"}
    /\ \E c \in {"run", "pause", "stop"} \ {ask} : ask' = c
    /\ UNCHANGED <<epc, ev, signed, won, film, pair, traces>>

SeedEvalNext ==
    \/ SpawnEval \/ WaitEval \/ StopEval \/ PollEval \/ JudgeEval
    \/ \E w \in Which : EvalWorker(w) \/ EvalWorkerDies(w)
    \/ TraceRest \/ FilmEpisode \/ FilmEnds \/ FilmFails \/ Unfilmed \/ EvalResult
    \/ SeedEvalRaises \/ AskEval

SeedEvalSpec == SeedEvalInit /\ [][SeedEvalNext]_seedEvalVars

(***************************************************************************)
(* A finished evaluation has heard from the base and every seed, and shows *)
(* the base and one seed, no better than half of the others nor worse, on  *)
(* the same episodes, each once, whether the video failed or not; the      *)
(* first is one that only the residual wins if there is any.  One that was *)
(* stopped, or failed in a worker, leaves none running untold.             *)
(***************************************************************************)
ComparesTheSame ==
    /\ epc = "done" =>
          LET n == Len(traces) \div 2
              shown == [i \in 1..n |-> traces[2 * i]]
              by == shown[1].who
          IN  /\ \A w \in Which : ev[w] = "ok"
              /\ n = Least({Traced, Shared}) /\ Len(traces) = 2 * n
              /\ \A i \in 1..n : shown[i].who = by /\ traces[2 * i - 1] = Episode(Base, shown[i].seed)
              /\ \A i, k \in 1..n : shown[i].seed = shown[k].seed => i = k
              /\ 2 * Cardinality({s \in Seeds : Cardinality(won[s]) > Cardinality(won[by])})
                     <= Cardinality(Seeds)
              /\ 2 * Cardinality({s \in Seeds : Cardinality(won[s]) < Cardinality(won[by])})
                     <= Cardinality(Seeds)
              /\ won[by] \subseteq won[Base] \/ shown[1].seed \in won[by] \ won[Base]
    /\ epc \in {"stopped", "failed"} => \A w \in Which : ev[w] = "run" => w \in signed
=============================================================================
