---------------------------- MODULE AssetLoader ----------------------------
(***************************************************************************)
(* The frames of src/examples/game_alloc.rs over the reader of             *)
(* src/src/uring.rs: each frame enqueues reads of up to two assets into    *)
(* buffers of an arena, submits them with one call, waits for as many      *)
(* completions, and drops its temporaries by rolling its arena back.       *)
(*                                                                         *)
(* The kernel completes reads between any two steps of the wait. It is     *)
(* taken to read the iovec when it performs the read, which is what the    *)
(* comment at uring.rs 93 provides for. Entities and the digest of a frame *)
(* are left out.                                                           *)
(***************************************************************************)
EXTENDS IoRing, Arena

CONSTANTS Assets,      \* 1 .. number of assets
          AssetSize,   \* bytes of each
          AssetWords,  \* capacity asked for the arena of assets
          PerFrame,    \* reads of a frame
          Frames,
          Entries      \* argument of Uring::new

ASSUME LoaderAssumption ==
  /\ IsFiniteSet(Assets) /\ Assets = 1 .. Cardinality(Assets)
  /\ AssetSize \in [Assets -> Nat \ {0}]
  /\ AssetWords \in Nat /\ Frames \in Nat
  /\ Entries \in Nat \ {0} /\ PerFrame \in 0 .. Entries
  /\ \E m \in 1 .. Counters : Counters = m * (2 * Entries)

VARIABLES at,          \* where main is; "panic-..." when an assertion stopped it
          frame,
          loaded,      \* assets_loaded
          batch,       \* main's pending: reads of this frame
          pending,     \* Uring.pending: enqueued and not submitted
          iovs, nIovs, \* Uring.iovs: its memory and its length
          out,         \* completions the current wait has taken
          assets,      \* asset_arena
          temps,       \* frame_arena
          landed       \* history: the buffer each asset was read into

loaderVars == <<at, frame, loaded, batch, pending, iovs, nIovs, out, assets, temps, landed>>

NoBuffer == [tag |-> 0, off |-> 0, base |-> 0]

(* Mutant: the arena starts with the capacity of Arena::new and moves.       *)
AssetArenaMutant == WithCapacity(1)

AssetArena == WithCapacity(AssetWords)

LoaderStart ==
  /\ at = "frame" /\ frame = 0
  /\ loaded = {} /\ batch = 0 /\ pending = 0
  /\ iovs = [i \in 1 .. Entries |-> NoBuffer] /\ nIovs = 0
  /\ out = <<>>
  /\ assets = AssetArena
  /\ temps = WithCapacity(1024)
  /\ landed = [a \in Assets |-> NoBuffer]

-----------------------------------------------------------------------------
(* The frame. *)

StartFrame ==
  /\ at = "frame" /\ frame < Frames
  /\ temps' = PushMark(temps)
  /\ batch' = 0
  /\ at' = "load"
  /\ UNCHANGED <<frame, loaded, pending, iovs, nIovs, out, assets, landed, ringVars>>

WantsMore == batch < PerFrame /\ loaded # Assets
NextAsset == CHOOSE a \in Assets \ loaded : \A b \in Assets \ loaded : a <= b

(* Mutant: every submission points to the first iovec. *)
IovSlotMutant == 1

IovSlot == nIovs + 1

(* alloc of the buffer and enqueue_read into it *)
LoadAsset ==
  /\ at = "load" /\ WantsMore
  /\ LET a    == NextAsset
         slot == sqTail % size
     IN  /\ assets' = Alloc(assets, AssetSize[a])
         /\ loaded' = loaded \union {a}
         /\ IF pending < Entries
            THEN /\ iovs' = [iovs EXCEPT ![nIovs + 1] =
                               [tag |-> a, off |-> MarkOf(assets), base |-> assets'.moves]]
                 /\ nIovs' = nIovs + 1
                 /\ sqes' = [sqes EXCEPT ![slot] = [tag |-> a, iov |-> IovSlot]]
                 /\ sqTail' = Plus(sqTail, 1)
                 /\ pending' = pending + 1
                 /\ at' = at
            ELSE /\ at' = "panic-ring"
                 /\ UNCHANGED <<iovs, nIovs, sqes, sqTail, pending>>
  /\ batch' = batch + 1
  /\ UNCHANGED <<frame, out, temps, landed, size, sqHead, inflight, cqTail, cqHead, cqes,
                 kept, faults>>

(* Mutant: the count of enqueued reads is kept. *)
AfterSubmitMutant == pending

AfterSubmit == 0

Submit ==
  /\ at = "load" /\ ~WantsMore
  /\ IF batch = 0 THEN at' = "tick" /\ UNCHANGED <<pending, ringVars>>
     ELSE \E r \in -1 .. pending :
            /\ Enter(pending, r) /\ UNCHANGED <<sqTail>>
            /\ IF r < 0 THEN at' = "panic-enter" /\ UNCHANGED pending
               ELSE at' = "wait" /\ pending' = AfterSubmit
  /\ out' = <<>>
  /\ UNCHANGED <<frame, loaded, batch, iovs, nIovs, assets, temps, landed>>

(* One turn of the loop of wait(batch) that finds completions; the last one  *)
(* ends it and drops the iovecs.                                             *)
WaitTurn ==
  LET here == Minus(cqTail, cqHead)
      n    == IF here < batch - Len(out) THEN here ELSE batch - Len(out)
  IN  /\ at = "wait" /\ n > 0
      /\ out' = out \o [i \in 1 .. n |-> cqes[Plus(cqHead, i - 1) % CqSize]]
      /\ cqHead' = Plus(cqHead, n)
      /\ IF Len(out') = batch THEN at' = "check" /\ nIovs' = 0 ELSE UNCHANGED <<at, nIovs>>
      /\ UNCHANGED <<frame, loaded, batch, pending, iovs, assets, temps, landed, size,
                     sqTail, sqHead, sqes, inflight, cqTail, cqes, kept, faults>>

(* Mutant: the wait spins without a limit. *)
GiveUpMutant == FALSE

(* Two thousand million turns without the completions waited for. *)
GiveUp ==
  /\ at = "wait"
  /\ at' = "panic-wait"
  /\ UNCHANGED <<frame, loaded, batch, pending, iovs, nIovs, out, assets, temps, landed,
                 ringVars>>

CheckResults ==
  /\ at = "check"
  /\ at' = IF \A i \in DOMAIN out : out[i].res = AssetSize[out[i].tag]
           THEN "tick" ELSE "panic-short"
  /\ UNCHANGED <<frame, loaded, batch, pending, iovs, nIovs, out, assets, temps, landed,
                 ringVars>>

(* Mutant: the temporaries of a frame are committed. *)
EndOfFrameMutant(a, mark) == CommitMark(a)

EndOfFrame(a, mark) == Rollback(a, mark)

(* The mark of the frame is the only one on the stack. *)
Tick ==
  /\ at = "tick"
  /\ LET tmp == MarkOf(temps)
     IN  temps' = EndOfFrame(WriteWord(Alloc(temps, 2 * WordBytes), tmp, frame),
                             temps.marks[1] * WordBytes)
  /\ frame' = frame + 1
  /\ at' = "frame"
  /\ UNCHANGED <<loaded, batch, pending, iovs, nIovs, out, assets, landed, ringVars>>

Finish ==
  /\ at = "frame" /\ frame = Frames
  /\ at' = "done"
  /\ UNCHANGED <<frame, loaded, batch, pending, iovs, nIovs, out, assets, temps, landed,
                 ringVars>>

Main == StartFrame \/ LoadAsset \/ Submit \/ WaitTurn \/ CheckResults \/ Tick \/ Finish

(* The kernel performs a read through the iovec the submission points to,    *)
(* all of it or less.                                                        *)
KernelReads ==
  \E o \in inflight :
    \/ /\ Complete(o, AssetSize[o.op.tag])
       /\ landed' = [landed EXCEPT ![o.op.tag] = iovs[o.op.iov]]
       /\ UNCHANGED <<at, frame, loaded, batch, pending, iovs, nIovs, out, assets, temps>>
    \/ /\ Complete(o, 0)
       /\ UNCHANGED loaderVars

-----------------------------------------------------------------------------
LoaderTypeOK ==
  /\ at \in {"frame", "load", "wait", "check", "tick", "done",
             "panic-ring", "panic-enter", "panic-wait", "panic-short"}
  /\ frame \in 0 .. Frames
  /\ loaded \subseteq Assets
  /\ pending \in 0 .. Entries
  /\ nIovs \in 0 .. Entries
  /\ sqTail \in 0 .. Counters - 1 /\ cqTail \in 0 .. Counters - 1

(* The iovec an operation in flight points to is the one that was made for   *)
(* it: wait drops the iovecs only when nothing is in flight any more, and no *)
(* iovec is pushed beyond the capacity (uring.rs 93, 166-174, 221).          *)
IovecsHold == \A o \in inflight : o.op.iov # 0 => iovs[o.op.iov].tag = o.op.tag

(* No buffer moves while the kernel may write to it: the arena of assets     *)
(* does not grow by reallocation (game_alloc.rs 67, 90-93).                  *)
BuffersStay ==
  \A o \in inflight : o.op.iov # 0 => iovs[o.op.iov].base = assets.moves

(* A frame starts with no temporary of an earlier one (game_alloc.rs 84, 137). *)
TempsDie == at = "frame" => temps.buf = <<>> /\ temps.marks = <<>>

(* The program stops early only when the kernel took too little, read too    *)
(* little or did not answer: never at the assertion of enqueue_read; and if  *)
(* it ends, each asset is in the buffer allocated for it.                    *)
EndsRight ==
  /\ at \notin {"panic-ring", "panic-enter"}
  /\ at = "done" =>
       \A a \in loaded : landed[a].tag = a /\ landed[a].base = assets.moves

(* Every wait ends, also when io_uring_enter took fewer submissions than     *)
(* were enqueued and their completions never come (uring.rs 189-193, 215).   *)
WaitsEnd == (at = "wait") ~> (at # "wait")

(* Whatever the kernel still has to do when main goes on, it does through an  *)
(* iovec and into a buffer that are where they were when the read was         *)
(* enqueued, and the loader ends with the assets in their buffers             *)
(* (uring.rs 93-223, game_alloc.rs 57-139).                                  *)
LoaderSafe == LoaderTypeOK /\ IovecsHold /\ BuffersStay /\ TempsDie /\ EndsRight
=============================================================================
