--------------------------- MODULE KernelMetadata ---------------------------
(***************************************************************************)
(* WarpPipeMetadata (csrc/bridge/warp_pipe_metadata.h), what every kernel  *)
(* launch is given: the segment table and a pointer to the bridge page.    *)
(* The table has two writers, one for each serving path, and the page has  *)
(* one:                                                                    *)
(*   "live"        build_seg_bounds_kernel writes a table on the device,   *)
(*   "registered"  build_segment_table writes one on the host,             *)
(*   "bridge"      write_bridge fills the page.                            *)
(* The id map is all that the last two share, and SchedulerBridge lets it  *)
(* grow as it likes, so a behaviour has one writer at work.  The device's  *)
(* table has ScanSegments rows here and the host's MaxSegments.            *)
(***************************************************************************)
EXTENDS SegBoundsKernel, RegisteredTable, SchedulerBridge

VARIABLE writer   (* "live", "registered" or "bridge" *)

hostVars == <<entries, segments, num_segments, pointers, asked, table_fresh>>
vars == <<writer, scanVars, idVars, hostVars, tickVars>>

(* A writer that is not at work stays as it starts. *)
Init ==
  /\ ScanInit
  /\ TableInit
  /\ BridgeInit
  /\ \/ writer = "live"
     \/ writer \in {"registered", "bridge"} /\ Tokens(token_lora_indices) = {}

Next ==
  /\ UNCHANGED writer
  /\ \/ /\ writer = "live"
        /\ ScanNext
        /\ UNCHANGED <<idVars, hostVars, tickVars>>
     \/ /\ writer = "registered"
        /\ TableNext
        /\ UNCHANGED <<scanVars, tickVars>>
     \/ /\ writer = "bridge"
        /\ BridgeNext
        /\ UNCHANGED <<scanVars, hostVars>>

Spec == Init /\ [][Next]_vars

TypeOK == ScanTypeOK /\ TableTypeOK /\ BridgeTypeOK
=============================================================================
