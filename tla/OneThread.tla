------------------------------ MODULE OneThread ------------------------------
(***************************************************************************)
(* What a threaded kernel promises: the factor or the products of a run on *)
(* one thread.  A region is one step here, and its bodies are all computed *)
(* in the floating-point environment of the caller.                        *)
(***************************************************************************)
EXTENDS Kernels

CONSTANTS Calls, Envs, NoCall

VARIABLES phase,   \* "idle", "step" (between regions), "region" or "done"
          call, env, step, mem, v

vars == <<phase, call, env, step, mem, v>>

Init ==
  /\ phase = "idle" /\ call = NoCall /\ env \in Envs
  /\ step = 0 /\ mem = <<>> /\ v = Zero

Begin ==
  /\ phase = "idle"
  /\ call' \in Calls /\ env' \in Envs
  /\ mem' = [x \in Entries(call') |-> Zero]
  /\ phase' = IF call'.kernel = "qr" THEN "step" ELSE "region"
  /\ step' = 0 /\ v' = Zero

(* A step whose column has no finite, positive norm is left out.           *)
PassOver ==
  /\ phase = "step" /\ step < Steps(call)
  /\ step' = step + 1
  /\ UNCHANGED <<phase, call, env, mem, v>>

Reflect ==
  /\ phase = "step" /\ step < Steps(call)
  /\ v' = <<step, mem[<<0, step>>]>>
  /\ mem' = [mem EXCEPT ![<<0, step>>] = Append(@, Reduced)]
  /\ IF step + 1 < call.p THEN phase' = "region" /\ UNCHANGED step
                          ELSE phase' = "step" /\ step' = step + 1
  /\ UNCHANGED <<call, env>>

WholeRegion ==
  /\ phase = "region"
  /\ mem' = Effect(call, step, mem, v, env)
  /\ IF call.kernel = "qr" THEN phase' = "step" /\ step' = step + 1
                           ELSE phase' = "done" /\ UNCHANGED step
  /\ UNCHANGED <<call, env, v>>

Factored ==
  /\ phase = "step" /\ step = Steps(call)
  /\ phase' = "done"
  /\ UNCHANGED <<call, env, step, mem, v>>

Return ==
  /\ phase = "done"
  /\ phase' = "idle" /\ call' = NoCall
  /\ UNCHANGED <<env, step, mem, v>>

Next == Begin \/ PassOver \/ Reflect \/ WholeRegion \/ Factored \/ Return

Spec == Init /\ [][Next]_vars
=============================================================================
