---------------------------- MODULE AdapterIdMap ----------------------------
(***************************************************************************)
(* AdapterIdMap of lora_warp_pipe/scheduler_bridge.py: the bijection       *)
(* between the scheduler's adapter names (strings) and the small integer   *)
(* ids of the kernel's structs.  Ids are handed out in first-seen order    *)
(* and never taken back.                                                   *)
(***************************************************************************)
EXTENDS Integers, Sequences, FiniteSets

CONSTANTS
  Names,    (* adapter names               *)
  NoName,   (* no adapter                  *)
  NoId      (* name without an id          *)

ASSUME IdMapAssumption ==
  IsFiniteSet(Names) /\ NoName \notin Names /\ NoId \notin Nat

VARIABLES
  str_to_int,   (* id of each name, NoId if none *)
  int_to_str    (* names by id, from id 0        *)

IdMapInit ==
  /\ str_to_int = [x \in Names |-> NoId]
  /\ int_to_str = << >>

Known(name) == str_to_int[name] # NoId

(* The name under an id that was handed out. *)
NameOf(id) == int_to_str[id + 1]

(* A bug to rule out: every name asked for gets a new id. *)
FirstSeenHere(names) ==
  {i \in DOMAIN names : \A j \in 1 .. i - 1 : names[j] # names[i]}

(* The positions at which a series of get_or_assign calls hands out an id. *)
FirstSeen(names) ==
  {i \in DOMAIN names : ~Known(names[i]) /\ \A j \in 1 .. i - 1 : names[j] # names[i]}

(* The id handed out at such a position: the length of the map by then. *)
NewId(names, i) == Len(int_to_str) + Cardinality({j \in FirstSeen(names) : j < i})

(* get_or_assign for each name of a sequence in turn. *)
GetOrAssignAll(names) ==
  LET fresh == FirstSeen(names)
  IN /\ str_to_int' = [x \in Names |->
          IF \E i \in fresh : names[i] = x
            THEN NewId(names, CHOOSE i \in fresh : names[i] = x)
            ELSE str_to_int[x]]
     /\ int_to_str' = [k \in 1 .. Len(int_to_str) + Cardinality(fresh) |->
          IF k <= Len(int_to_str)
            THEN int_to_str[k]
            ELSE names[CHOOSE i \in fresh : NewId(names, i) = k - 1]]

GetOrAssign(name) == GetOrAssignAll(<<name>>)
=============================================================================
