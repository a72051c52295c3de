---------------------------- MODULE AdapterKernels ----------------------------
(***************************************************************************)
(* The blocks a LoRA layer launches: those of bgmv_shrink_kernel, then,    *)
(* once all of them are over, those of bgmv_expand_kernel (both are queued *)
(* on one stream).  Blocks of one launch share nothing but read-only input *)
(* and disjoint output, so one block of either kernel is the whole model.  *)
(***************************************************************************)
EXTENDS WarpBlock

VARIABLE kernel    (* the kernel this block runs *)

Shrink == INSTANCE ShrinkKernel
Expand == INSTANCE ExpandKernel

allVars == <<kernel, vars>>

TypeOK ==
  \/ kernel = "shrink" /\ Shrink!TypeOK
  \/ kernel = "expand" /\ Expand!TypeOK

Init ==
  \/ kernel = "shrink" /\ Shrink!Init
  \/ kernel = "expand" /\ Expand!Init

Next ==
  /\ \/ kernel = "shrink" /\ Shrink!Next
     \/ kernel = "expand" /\ Expand!Next
  /\ UNCHANGED kernel

Spec == Init /\ [][Next]_allVars

WarpStep(w) ==
  /\ \/ kernel = "shrink" /\ Shrink!Step(w)
     \/ kernel = "expand" /\ Expand!Step(w)
  /\ UNCHANGED kernel

ConsumerStep(c) ==
  /\ \/ kernel = "shrink" /\ Shrink!Compute(c)
     \/ kernel = "expand" /\ Expand!Compute(c)
  /\ UNCHANGED kernel

BarrierStep ==
  /\ \/ kernel = "shrink" /\ Shrink!Barrier
     \/ kernel = "expand" /\ Expand!Barrier
  /\ UNCHANGED kernel

(* The hardware schedules every resident warp and completes every copy. *)
FairSpec ==
  /\ Spec
  /\ \A w \in Warps : WF_allVars(WarpStep(w))
  /\ \A c \in Consumers : WF_allVars(ConsumerStep(c))
  /\ \A p \in Producers : WF_allVars(CopyLands(p) /\ UNCHANGED kernel)
  /\ WF_allVars(BarrierStep)
=============================================================================
