--------------------------- MODULE SchedulerBridge ---------------------------
(***************************************************************************)
(* SchedulerBridge and GwarHistory of lora_warp_pipe/scheduler_bridge.py,  *)
(* over write_bridge of the extension and the page it fills                *)
(* (SchedulerKernelBridgeHost): once per tick the scheduler's values leave *)
(* in one row for each id of the map, which grows on its own as adapters   *)
(* are registered and batches converted (RegisteredTable).                 *)
(*                                                                         *)
(* Averages are in thousandths, rounded down where a division is not       *)
(* exact.  A column that a scheduler object fills holds, for each adapter, *)
(* the adapter and the tick the value was read for.  Each call of write    *)
(* may or may not be given a scheduler object or readings: a column        *)
(* without its argument is zero in that page.  num_segments and            *)
(* global_load are passed through by write and left out.                   *)
(***************************************************************************)
EXTENDS AdapterIdMap

CONSTANTS
  MaxAdapters,   (* WP_MAX_ADAPTERS: rows of the page             *)
  Readings,      (* values compute_gwar returns, in thousandths   *)
  NoReading,     (* an adapter it says nothing of                 *)
  CallArguments, (* the optional arguments one call may be given  *)
  MaxAsked,      (* bound: names in one batch that is converted   *)
  MaxTicks       (* bound: calls of write                         *)

Sources == {"whittle", "estimator", "gwar", "mwc"}

ASSUME BridgeAssumption ==
  /\ MaxAdapters \in Nat \ {0} /\ MaxAsked \in Nat /\ MaxTicks \in Nat
  /\ Readings \subseteq 0 .. 1000 /\ NoReading \notin Nat
  /\ CallArguments \subseteq SUBSET Sources

VARIABLES
  ewma,            (* GwarHistory                                      *)
  page,            (* the bridge                                       *)
  step_id,
  tick,            (* history: calls of write                          *)
  sources,         (* history: arguments of the call the page is of    *)
  shown,           (* history: averages of the ticks the page showed   *)
  past_readings    (* history: every reading those ticks were given    *)

idVars      == <<str_to_int, int_to_str>>
historyVars == <<sources, shown, past_readings>>
tickVars    == <<ewma, page, step_id, tick, historyVars>>
bridgeVars  == <<idVars, tickVars>>

NumActive == Len(int_to_str)

NameSeqs == UNION {[1 .. k -> Names] : k \in 1 .. MaxAsked}

(* get_or_assign at a register_adapter call and in segments_to_warp_pipe. *)
AssignIds(names) == GetOrAssignAll(names) /\ UNCHANGED tickVars

-----------------------------------------------------------------------------
(* GwarHistory. *)

(* A bug to rule out: an adapter never seen before has an average of zero. *)
EwmaFromZero(prev, reading) ==
  IF prev = NoReading THEN (3 * reading) \div 10 ELSE (3 * reading + 7 * prev) \div 10

(* update with alpha 0.3: the first reading is its own average. *)
Ewma(prev, reading) ==
  IF prev = NoReading THEN reading ELSE (3 * reading + 7 * prev) \div 10

(* The loop over the adapters gwar_readings says something of. *)
Smoothed(averages, read) ==
  [x \in Names |-> IF read[x] = NoReading THEN averages[x] ELSE Ewma(averages[x], read[x])]

(* get *)
Average(averages, name) == IF averages[name] = NoReading THEN 0 ELSE averages[name]

-----------------------------------------------------------------------------
(* The page. *)

PageRows == 0 .. MaxAdapters - 1
Zero == <<NoName, 0>>
NullPageRow == [whittle_scores |-> Zero, lambda_hat |-> Zero, promo_eligible |-> Zero,
                gwar_pred_next3 |-> 0, tile_size_code |-> 0]

TileSizeCode(gwar) ==
  CASE gwar > 850 -> 2
    [] gwar > 600 -> 1
    [] OTHER      -> 0

(* What write assembles for one id.  Without gwar_readings the averages are
   not looked up: the column is zero and so is the tile size code. *)
PageRow(id, args, averages) ==
  LET name == NameOf(id)
      value(source) == IF source \in args THEN <<name, tick>> ELSE Zero
      gwar == IF "gwar" \in args THEN Average(averages, name) ELSE 0
  IN [whittle_scores |-> value("whittle"), lambda_hat |-> value("estimator"),
      promo_eligible |-> value("mwc"),
      gwar_pred_next3 |-> gwar, tile_size_code |-> TileSizeCode(gwar)]

(* A bug to rule out: the last row is not copied. *)
WriteBridgeShort(args, averages) ==
  page' = [step_id |-> step_id, num_active_adapters |-> NumActive,
           rows |-> [id \in PageRows |->
                       IF id < NumActive - 1 THEN PageRow(id, args, averages) ELSE page.rows[id]]]

(* SchedulerKernelBridgeHost::write copies the first rows of each column; the
   rows beyond keep what they held. *)
WriteBridge(args, averages) ==
  page' = [step_id |-> step_id, num_active_adapters |-> NumActive,
           rows |-> [id \in PageRows |->
                       IF id < NumActive THEN PageRow(id, args, averages) ELSE page.rows[id]]]

(* gwar_readings of one call, for adapters that have an id; with None, or for a
   dictionary that names none of them, there is nothing to smooth. *)
TickReadings(args) ==
  {read \in [Names -> Readings \cup {NoReading}] :
     \A x \in Names : read[x] # NoReading => Known(x) /\ "gwar" \in args}

(* A bug to rule out: a tick without adapters is not counted. *)
EmptyTickUncounted ==
  /\ tick < MaxTicks
  /\ NumActive = 0
  /\ tick' = tick + 1
  /\ UNCHANGED <<idVars, step_id, ewma, page, historyVars>>

(* write before any adapter is known. *)
EmptyTick ==
  /\ tick < MaxTicks
  /\ NumActive = 0
  /\ step_id' = step_id + 1
  /\ tick' = tick + 1
  /\ UNCHANGED <<idVars, ewma, page, historyVars>>

Tick(args, read) ==
  /\ tick < MaxTicks
  /\ NumActive \in 1 .. MaxAdapters
  /\ ewma' = Smoothed(ewma, read)
  /\ WriteBridge(args, ewma')
  /\ step_id' = step_id + 1
  /\ tick' = tick + 1
  /\ sources' = args
  /\ shown' = Smoothed(shown, read)
  /\ past_readings' = [x \in Names |-> past_readings[x] \cup ({read[x]} \ {NoReading})]
  /\ UNCHANGED idVars

(* write_bridge throws: there are more adapters than rows.  The averages are
   already updated, the page and the step counter are not. *)
RefusedTick(read) ==
  /\ tick < MaxTicks
  /\ NumActive > MaxAdapters
  /\ ewma' = Smoothed(ewma, read)
  /\ tick' = tick + 1
  /\ UNCHANGED <<idVars, page, step_id, historyVars>>

-----------------------------------------------------------------------------
Averages == 0 .. 1000
Reads == {Zero} \cup (Names \X Nat)
PageRowSet == [whittle_scores : Reads, lambda_hat : Reads, promo_eligible : Reads,
               gwar_pred_next3 : Averages, tile_size_code : 0 .. 2]

BridgeTypeOK ==
  /\ str_to_int \in [Names -> Nat \cup {NoId}]
  /\ int_to_str \in Seq(Names)
  /\ sources \in SUBSET Sources
  /\ past_readings \in [Names -> SUBSET Averages]
  /\ ewma \in [Names -> Averages \cup {NoReading}]
  /\ shown \in [Names -> Averages \cup {NoReading}]
  /\ page \in [step_id : Nat, num_active_adapters : 0 .. MaxAdapters,
               rows : [PageRows -> PageRowSet]]
  /\ step_id \in Nat
  /\ tick \in 0 .. MaxTicks

(* The page is zeroed when it is allocated. *)
BridgeInit ==
  /\ IdMapInit
  /\ sources = {}
  /\ past_readings = [x \in Names |-> {}]
  /\ ewma = [x \in Names |-> NoReading]
  /\ shown = [x \in Names |-> NoReading]
  /\ page = [step_id |-> 0, num_active_adapters |-> 0,
             rows |-> [id \in PageRows |-> NullPageRow]]
  /\ step_id = 0
  /\ tick = 0

BridgeNext ==
  \/ \E names \in NameSeqs : AssignIds(names)
  \/ EmptyTick
  \/ \E args \in CallArguments : \E read \in TickReadings(args) :
       Tick(args, read) \/ RefusedTick(read)

BridgeSpec == BridgeInit /\ [][BridgeNext]_bridgeVars

-----------------------------------------------------------------------------
(* Properties. *)

(* Every row of the page below num_active_adapters speaks, in every column    *)
(* its call had an argument for, of the adapter whose segments carry the      *)
(* row's index as their id, and of the one tick the page's step_id names;     *)
(* a column without its argument is zero.  The average shown is over the      *)
(* readings of the ticks that reached the page, each counted once, whatever   *)
(* ticks came without readings or were refused (write_bridge, GwarHistory).   *)
PageRowsAreOfOneTick ==
  \A id \in 0 .. page.num_active_adapters - 1 :
    LET row  == page.rows[id]
        name == NameOf(id)
        ofTick(source) == IF source \in sources THEN <<name, page.step_id>> ELSE Zero
    IN /\ id < NumActive /\ str_to_int[name] = id
       /\ row.whittle_scores = ofTick("whittle")
       /\ row.lambda_hat = ofTick("estimator")
       /\ row.promo_eligible = ofTick("mwc")
       /\ row.gwar_pred_next3 = IF "gwar" \in sources THEN Average(shown, name) ELSE 0

(* As long as there is a row for every adapter, the page is the last tick's   *)
(* and the step counter counts the ticks, those before the first adapter      *)
(* included: no call of write leaves the kernels with an older page           *)
(* (scheduler_bridge.py: once per scheduler tick).                            *)
PageIsOfLastTick ==
  NumActive <= MaxAdapters =>
    /\ step_id = tick
    /\ page.num_active_adapters > 0 => page.step_id = tick - 1

(* The tile size code a page shows for an adapter is warranted by readings    *)
(* taken of that adapter, at any earlier tick: it is no higher than the       *)
(* highest of them deserves and no lower than the lowest, however many ticks, *)
(* with readings of it or without, the average has been through; an adapter   *)
(* never read, and every adapter in a page whose call had no readings, has    *)
(* the smallest tile (GwarHistory; the thresholds of write).                  *)
TileIsWarranted ==
  \A id \in 0 .. page.num_active_adapters - 1 :
    LET code == page.rows[id].tile_size_code
        past == past_readings[NameOf(id)]
    IN IF "gwar" \in sources /\ past # {}
         THEN \E lo, hi \in past : TileSizeCode(lo) <= code /\ code <= TileSizeCode(hi)
         ELSE code = 0
=============================================================================
