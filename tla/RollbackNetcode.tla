--------------------------- MODULE RollbackNetcode ---------------------------
(***************************************************************************)
(* The server of src/examples/rollback_netcode.rs. It simulates a tick at  *)
(* a time with the inputs it knows, 0 for those it does not. An input that *)
(* arrives up to DelayMax ticks late and differs from the prediction is    *)
(* put right by reconciliation: the ticks since are taken back one by one  *)
(* (no snapshot of the world is kept, only the log of inputs), the log is  *)
(* corrected, and the ticks are simulated again.                           *)
(*                                                                         *)
(* As in main, a reference run with the true inputs comes first, and the   *)
(* two timelines are compared at the end. main compares hash chains of the *)
(* states; the model compares the states.                                  *)
(***************************************************************************)
EXTENDS PhaseInst, FiniteSets

CONSTANTS M,           \* number of entities
          NT,          \* number of ticks
          DelayMax,    \* the longest delay of an input
          Inputs       \* what a client may send (i8)

Entity == 0 .. M - 1
Tick   == 0 .. NT - 1
Known  == [Entity -> Inputs]          \* the inputs of one tick

ASSUME NetcodeAssumption ==
  /\ M \in Nat /\ NT \in Nat /\ DelayMax \in Nat
  /\ Inputs \subseteq Int /\ 0 \in Inputs

VARIABLES truth,      \* the true inputs
          ref,        \* the reference timeline: the world after each tick
          pending,    \* inputs that have not arrived: pairs of tick and entity
          due,        \* arrivals[now], as far as not dealt with
          now,
          world,      \* s
          log,        \* the inputs known to the server
          line,       \* sim_hash: the world after each simulated tick
          curSim,     \* how many ticks are simulated
          goal,       \* where a reconciliation has to come back to
          late,       \* the input it is about
          phase       \* where main stands

vars == <<truth, ref, pending, due, now, world, log, line, curSim, goal, late, phase>>

-----------------------------------------------------------------------------
(* The world: position, speed and input register of every entity. A tick    *)
(* loads the inputs and runs the kernel, v += u; p += v for each entity.     *)

Register == [Entity -> Word]
World    == [p : Register, v : Register, u : Register]
Zero     == [e \in Entity |-> 0]
Start    == [p |-> Zero, v |-> Zero, u |-> Zero]
NoInput  == [e \in Entity |-> 0]

AsWord(i) == i % Modulus      \* as i64 as u64
Load(in)  == [e \in Entity |-> AsWord(in[e])]

Simulated(w, in) ==
  LET u == Load(in)
      v == [e \in Entity |-> WrapAdd(w.v[e], u[e])]
  IN  [p |-> [e \in Entity |-> WrapAdd(w.p[e], v[e])], v |-> v, u |-> u]

(* reverse_all of the kernel, after the inputs of the tick were loaded. *)
TakenBack(w, in) ==
  LET u == Load(in)
  IN  [p |-> [e \in Entity |-> WrapSub(w.p[e], w.v[e])],
       v |-> [e \in Entity |-> WrapSub(w.v[e], u[e])],
       u |-> u]

(* A timeline with the world after t ticks written into it. *)
Recorded(timeline, t, w) ==
  [k \in DOMAIN timeline \union {t} |-> IF k = t THEN w ELSE timeline[k]]

-----------------------------------------------------------------------------
Init ==
  /\ truth \in [Tick -> Known]
  /\ ref = [t \in {0} |-> Start]
  /\ pending = Tick \X Entity
  /\ due = {}
  /\ now = 0
  /\ world = Start
  /\ log = [t \in 0 .. NT |-> NoInput]
  /\ line = [t \in {0} |-> Start]
  /\ curSim = 0
  /\ goal = 0
  /\ late = <<0, 0>>
  /\ phase = "reference"

(* The reference run: every input in time. *)
ReferenceTick ==
  /\ phase = "reference"
  /\ curSim < NT
  /\ ref' = Recorded(ref, curSim + 1, Simulated(ref[curSim], truth[curSim]))
  /\ curSim' = curSim + 1
  /\ UNCHANGED <<truth, pending, due, now, world, log, line, goal, late, phase>>

ReferenceEnd ==
  /\ phase = "reference"
  /\ curSim = NT
  /\ curSim' = 0
  /\ phase' = "arrive"
  /\ UNCHANGED <<truth, ref, pending, due, now, world, log, line, goal, late>>

(* What arrives now: any inputs of ticks up to now, and all those that are   *)
(* DelayMax ticks late.                                                      *)
InTime(arrived) == \A x \in pending : x[1] + DelayMax <= now => x \in arrived

Arrive ==
  /\ phase = "arrive"
  /\ \E arrived \in SUBSET {x \in pending : x[1] <= now} :
       /\ InTime(arrived)
       /\ due' = arrived
       /\ pending' = pending \ arrived
  /\ phase' = "deliver"
  /\ UNCHANGED <<truth, ref, now, world, log, line, curSim, goal, late>>

-----------------------------------------------------------------------------
(* The arrivals of one tick, in the order in which they were scheduled.      *)

Before(x, y) == x[1] < y[1] \/ (x[1] = y[1] /\ x[2] <= y[2])
Val(x)       == truth[x[1]][x[2]]
Corrected(x) == [log EXCEPT ![x[1]][x[2]] = Val(x)]

NextDue(x) ==
  /\ phase = "deliver"
  /\ x \in due
  /\ \A y \in due : Before(x, y)

Remember(x) ==
  /\ NextDue(x)
  /\ x[1] >= curSim
  /\ log' = Corrected(x)
  /\ due' = due \ {x}
  /\ UNCHANGED <<truth, ref, pending, now, world, line, curSim, goal, late, phase>>

PredictedRight(x) ==
  /\ NextDue(x)
  /\ x[1] < curSim
  /\ log[x[1]][x[2]] = Val(x)
  /\ due' = due \ {x}
  /\ UNCHANGED <<truth, ref, pending, now, world, log, line, curSim, goal, late, phase>>

Reconcile(x) ==
  /\ NextDue(x)
  /\ x[1] < curSim
  /\ log[x[1]][x[2]] # Val(x)
  /\ goal' = curSim
  /\ late' = x
  /\ phase' = "back"
  /\ UNCHANGED <<truth, ref, pending, due, now, world, log, line, curSim>>

(* Mutant: the input registers keep what the last tick loaded. *)
BackTickMutant ==
  /\ phase = "back"
  /\ curSim > late[1]
  /\ world' = [TakenBack(world, NoInput) EXCEPT
                 !.v = [e \in Entity |-> WrapSub(world.v[e], world.u[e])]]
  /\ curSim' = curSim - 1
  /\ UNCHANGED <<truth, ref, pending, due, now, log, line, goal, late, phase>>

(* Mutant: the last tick is not taken back. *)
BackTickShortMutant ==
  /\ phase = "back"
  /\ curSim > late[1] + 1
  /\ world' = TakenBack(world, log[curSim - 1])
  /\ curSim' = curSim - 1
  /\ UNCHANGED <<truth, ref, pending, due, now, log, line, goal, late, phase>>

BackTick ==
  /\ phase = "back"
  /\ curSim > late[1]
  /\ world' = TakenBack(world, log[curSim - 1])
  /\ curSim' = curSim - 1
  /\ UNCHANGED <<truth, ref, pending, due, now, log, line, goal, late, phase>>

(* Mutant: the log is left as it was predicted. *)
CorrectMutant ==
  /\ phase = "back"
  /\ curSim = late[1]
  /\ phase' = "resim"
  /\ UNCHANGED <<truth, ref, pending, due, now, world, log, line, curSim, goal, late>>

Correct ==
  /\ phase = "back"
  /\ curSim = late[1]
  /\ log' = Corrected(late)
  /\ phase' = "resim"
  /\ UNCHANGED <<truth, ref, pending, due, now, world, line, curSim, goal, late>>

(* Simulation of the next tick with the inputs the log has for it. *)
Simulate ==
  /\ world' = Simulated(world, log[curSim])
  /\ line' = Recorded(line, curSim + 1, world')
  /\ curSim' = curSim + 1

ResimTick ==
  /\ phase = "resim"
  /\ curSim < goal
  /\ Simulate
  /\ UNCHANGED <<truth, ref, pending, due, now, log, goal, late, phase>>

ReconcileEnd ==
  /\ phase = "resim"
  /\ curSim = goal
  /\ due' = due \ {late}
  /\ phase' = "deliver"
  /\ UNCHANGED <<truth, ref, pending, now, world, log, line, curSim, goal, late>>

(* Mutant: the loop ends with the last simulated tick. *)
AdvanceMutant ==
  /\ phase = "deliver"
  /\ due = {}
  /\ IF now < NT THEN Simulate ELSE UNCHANGED <<world, line, curSim>>
  /\ now' = now + 1
  /\ phase' = IF now + 1 > NT THEN "compare" ELSE "arrive"
  /\ UNCHANGED <<truth, ref, pending, due, log, goal, late>>

(* Mutant: one tick too many is simulated. *)
AdvanceLongMutant ==
  /\ phase = "deliver"
  /\ due = {}
  /\ IF now <= NT THEN Simulate ELSE UNCHANGED <<world, line, curSim>>
  /\ now' = now + 1
  /\ phase' = IF now + 1 > NT + DelayMax THEN "compare" ELSE "arrive"
  /\ UNCHANGED <<truth, ref, pending, due, log, goal, late>>

(* All arrivals are dealt with: simulate the tick, go on to the next. *)
Advance ==
  /\ phase = "deliver"
  /\ due = {}
  /\ IF now < NT THEN Simulate ELSE UNCHANGED <<world, line, curSim>>
  /\ now' = now + 1
  /\ phase' = IF now + 1 > NT + DelayMax THEN "compare" ELSE "arrive"
  /\ UNCHANGED <<truth, ref, pending, due, log, goal, late>>

(* The assertions at the end of main. *)
Agrees == curSim = NT /\ \A t \in 0 .. NT : line[t] = ref[t]

Compare ==
  /\ phase = "compare"
  /\ phase' = IF Agrees THEN "converged" ELSE "diverged"
  /\ UNCHANGED <<truth, ref, pending, due, now, world, log, line, curSim, goal, late>>

Deliver(x) == Remember(x) \/ PredictedRight(x) \/ Reconcile(x)

Next ==
  \/ ReferenceTick \/ ReferenceEnd
  \/ Arrive
  \/ \E x \in Tick \X Entity : Deliver(x)
  \/ BackTick \/ Correct \/ ResimTick \/ ReconcileEnd
  \/ Advance \/ Compare

(* main is one thread that runs on. *)
Spec == Init /\ [][Next]_vars /\ WF_vars(Next)

-----------------------------------------------------------------------------
Reconciling == phase \in {"back", "resim"}
Serving     == phase \in {"arrive", "deliver", "back", "resim", "compare"}

IsTimeline(f) == \E k \in 0 .. NT : f \in [0 .. k -> World]

TypeOK ==
  /\ truth \in [Tick -> Known]
  /\ IsTimeline(ref)
  /\ pending \subseteq Tick \X Entity
  /\ due \subseteq Tick \X Entity
  /\ now \in 0 .. NT + DelayMax + 1
  /\ world \in World
  /\ log \in [0 .. NT -> Known]
  /\ IsTimeline(line)
  /\ curSim \in 0 .. NT
  /\ goal \in 0 .. NT
  /\ late \in Nat \X Nat
  /\ phase \in {"reference", "arrive", "deliver", "back", "resim", "compare",
                "converged", "diverged"}

(* The server keeps no snapshot, yet at every step of a reconciliation the   *)
(* world is the one it had recorded after that many ticks, and the recorded  *)
(* timeline is the simulation of the log as it is now (lines 124-146). The   *)
(* input registers are those of the last tick unless ticks were taken back.  *)
WorldIsReplay ==
  Serving =>
    /\ world.p = line[curSim].p /\ world.v = line[curSim].v
    /\ phase # "back" /\ curSim > 0 /\ (phase = "resim" => curSim > late[1])
         => world = line[curSim]
    /\ \A k \in 1 .. curSim : line[k] = Simulated(line[k - 1], log[k - 1])

(* Once every input of the ticks before t has arrived and was dealt with,    *)
(* the timeline is right up to t, whatever is still missing for later ticks. *)
Outstanding == pending \union due
ConfirmedExact ==
  Serving =>
    \A t \in 0 .. curSim :
      (\A x \in Outstanding : x[1] >= t) => line[t] = ref[t]

(* No reconciliation goes back more than DelayMax ticks (the comment at      *)
(* lines 13-14: O(window)), and a tick that fell out of the window is final. *)
WindowBounded ==
  /\ Reconciling => goal - late[1] \in 1 .. DelayMax
  /\ phase = "arrive" => \A x \in pending : x[1] + DelayMax >= now

(* The comparison at the end of main never fails (line 163). *)
NeverDiverges == phase # "diverged"

(* Once it has simulated a tick, of the reference run or later, main gets     *)
(* there, however late the inputs are.                                        *)
Converges == (curSim > 0) ~> (phase = "converged")
=============================================================================
