------------------------------- MODULE Planner -------------------------------
(***************************************************************************)
(* What a training run and an engine get from the machine: the memory      *)
(* planner's settings, the trainer, the engine, its weights.               *)
(* Memory is in MB (thousandths of the code's GB), parameter counts are in *)
(* tenths of a billion, epochs in hundredths; Unknown stands for None.     *)
(***************************************************************************)
EXTENDS Configuration

Unknown == -1

EffectiveBatch == 8

DefaultPlan == [quantize |-> FALSE, batch |-> 1, accumulation |-> 8, epochs |-> 100, checkpoint |-> TRUE, iters |-> 0]

\* Weights and optimizer in 16 and in 4 bits.
Need16(params) == 260 * params + 4000
Need4(params)  == 78 * params + 4000

\* Memory that is spared goes into larger batches.
MicroBatch(headroom) ==
  CASE headroom >= 12000 -> 8 [] headroom >= 6000 /\ headroom < 12000 -> 4
    [] headroom >= 3000 /\ headroom < 6000 -> 2 [] headroom < 3000 -> 1

\* The plan before overrides, for a model of so many parameters, maybe quantized already,
\* on a machine with so much memory.
PlanFor(engine, params, prequantized, memory) ==
  LET in16  == ~prequantized /\ Need16(params) <= memory
      micro == MicroBatch(memory - (IF in16 THEN Need16(params) ELSE Need4(params)))
  IN IF params = Unknown THEN [DefaultPlan EXCEPT !.quantize = engine = "trl"]
     ELSE IF memory = Unknown THEN DefaultPlan
     ELSE [DefaultPlan EXCEPT !.quantize = ~prequantized /\ ~in16, !.batch = micro,
                              !.accumulation = IF EffectiveBatch \div micro > 1 THEN EffectiveBatch \div micro ELSE 1,
                              !.checkpoint = micro <= 2]

\* Mutant: the last, partial batch of an epoch is dropped.
FloorDiv(a, b) == a \div b

CeilDiv(a, b) == (a + b - 1) \div b
AtLeast10(n)  == IF n < 10 THEN 10 ELSE n

\* Overrides replace what was planned; the micro-batches follow from the rest.
Override(plan, overrides, nTrain) ==
  LET Get(key, value) == IF key \in DOMAIN overrides THEN overrides[key] ELSE value
      batch  == Get("batch_size", plan.batch)
      epochs == Get("epochs", plan.epochs)
  IN [plan EXCEPT !.batch = batch, !.epochs = epochs,
                  !.accumulation = Get("grad_accumulation", plan.accumulation),
                  !.quantize = Get("quantize", plan.quantize),
                  !.iters = Get("iters", AtLeast10(CeilDiv(epochs * nTrain, 100 * batch)))]

-----------------------------------------------------------------------------
(* Trainer and engine.  A machine is [kind, tools]: "apple", "nvidia" or   *)
(* "cpu", and the programs and packages it has.                            *)

Detected(machine, apple, nvidia) ==
  CASE machine.kind = "apple" -> apple [] machine.kind = "nvidia" -> nvidia [] OTHER -> "none"

\* "none": no supported accelerator.
TrainerOf(t, machine) == IF t.engine = "auto" THEN Detected(machine, "mlx", "trl") ELSE t.engine
EngineOf(m, machine)  == IF m.serve.engine = "auto" THEN Detected(machine, "mlx", "vllm") ELSE m.serve.engine

\* The catalog has weights for some of its entries; others need weights of their own.
HasWeights(m) == m.weights \/ (m.base = "catalog" /\ m.published)

\* Why the engine of a version cannot be launched, or "none".
LaunchProblem(m, machine, adapter, fused) ==
  LET engine == EngineOf(m, machine) IN
  CASE engine = "none" -> "no-accelerator"
    [] engine # "none" /\ ~HasWeights(m) -> "no-weights"
    [] engine = "command" /\ HasWeights(m) ->
         IF m.serve.command = {} THEN "no-serve.command"
         ELSE IF adapter /\ \E c \in m.serve.command : "adapter" \notin c THEN "no-adapter-placeholder" ELSE "none"
    [] engine = "vllm" /\ HasWeights(m) -> IF "vllm" \in machine.tools THEN "none" ELSE "no-vllm"
    [] engine = "mlx" /\ HasWeights(m) ->
         IF adapter /\ ~fused THEN "no-fused-model" ELSE IF "mlx_lm" \in machine.tools THEN "none" ELSE "no-mlx_lm"

\* Why the trainer cannot be started, or "none".
TrainerProblem(t, machine) ==
  LET trainer == TrainerOf(t, machine) IN
  CASE trainer = "mlx" -> IF "mlx_lm" \in machine.tools THEN "none" ELSE "no-mlx_lm"
    [] trainer = "trl" -> IF "trl" \in machine.tools THEN "none" ELSE "no-trl"
    [] trainer = "command" -> IF t.command THEN "none" ELSE "no-train.command"

\* Only mlx's adapter is fused into a model that can be served.
Fused(trainer) == trainer = "mlx"
=============================================================================
