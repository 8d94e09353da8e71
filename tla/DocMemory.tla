----------------------------- MODULE DocMemory -----------------------------
(***************************************************************************)
(* Who owns what in a document (doc.c, array.c).  The operations of the    *)
(* history lie in one array that moves when it grows; the composition is   *)
(* first a pointer to the first of them and then an operation of its own.  *)
(* An operation is a struct and the array of its components; ot_doc_append *)
(* moves the struct into the history and frees the one it was given.       *)
(***************************************************************************)
EXTENDS Naturals, Sequences, SequencesExt

CONSTANTS Blocks      \* what malloc may return

NoOp == [block |-> "NULL"]

ASSUME BlocksAssumption == "NULL" \notin Blocks

VARIABLES
  heap,       \* the blocks that were allocated and not freed
  data, cap,  \* the fields of the array of the history
  history,    \* the components of its operations, one block each
  composed,   \* NoOp, FirstOf(data) or an OpAt
  given,      \* the operation the caller is about to append, or NoOp
  freed,      \* the document was freed
  fault       \* something was read, written or freed that is not allocated

vars == <<heap, data, cap, history, composed, given, freed, fault>>

\* An operation in a block of its own; the first operation of an array.
OpAt(block, comps) == [block |-> block, comps |-> comps]
FirstOf(array) == [block |-> array]

\* The blocks ot_free_op frees: for the first operation of an array those of
\* the array, which is not to be freed that way.
BlocksOf(op) == {op[field] : field \in DOMAIN op}
Allocated(op) == BlocksOf(op) \subseteq heap

Init ==
  /\ heap = {} /\ data = "NULL" /\ cap = 0 /\ history = <<>>
  /\ composed = NoOp /\ given = NoOp
  /\ freed = FALSE /\ fault = FALSE

(***************************************************************************)
(* The caller: makes an operation, and frees one that was refused.         *)
(***************************************************************************)
NewOp ==
  /\ given = NoOp /\ ~freed
  /\ \E block, comps \in Blocks \ heap :
       /\ block # comps
       /\ given' = OpAt(block, comps)
       /\ heap' = heap \cup {block, comps}
  /\ UNCHANGED <<data, cap, history, composed, freed, fault>>

FreeOp ==
  /\ given # NoOp
  /\ fault' = (fault \/ ~Allocated(given))
  /\ heap' = heap \ BlocksOf(given)
  /\ given' = NoOp
  /\ UNCHANGED <<data, cap, history, composed, freed>>

(***************************************************************************)
(* array_ensure_size: the first element is allocated; a full array is      *)
(* doubled and may move.                                                   *)
(***************************************************************************)
Capacity ==
  IF history = <<>> THEN 1 ELSE IF Len(history) >= cap THEN 2 * cap ELSE cap

MayBeAt(array) ==
  IF history = <<>> THEN array \in Blocks \ heap
  ELSE IF Len(history) >= cap THEN array \in {data} \cup (Blocks \ heap)
  ELSE array = data

Resized(array) ==
  (IF history = <<>> THEN heap ELSE heap \ {data}) \cup {array}

(***************************************************************************)
(* ot_doc_append, after the array has got room at `array`.  When the       *)
(* history had no more than one operation the composition is pointed to    *)
(* the first one again, wherever that is now.                              *)
(***************************************************************************)
\* Mutants: the composition is pointed there once; it is never freed.
PointedOnce(array) == IF history = <<>> THEN FirstOf(array) ELSE composed
Pointed(array) == IF Len(history) <= 1 THEN FirstOf(array) ELSE composed

NeverDropped(array) == {}
Dropped(array) == IF Len(history) <= 1 THEN {} ELSE BlocksOf(Pointed(array))

\* Reading the composition in an array that has moved is a fault.
Faults(array) ==
  \/ Len(history) + 1 > Capacity
  \/ ~Allocated(given)
  \/ history # <<>> /\ ~(BlocksOf(Pointed(array)) \subseteq Resized(array))

Refuse ==
  /\ given # NoOp /\ ~freed
  /\ history # <<>>
  /\ \E array \in Blocks :
       /\ MayBeAt(array)
       /\ heap' = Resized(array)
       /\ data' = array
       /\ composed' = Pointed(array)
       /\ fault' = (fault \/ Faults(array))
  /\ cap' = Capacity
  /\ UNCHANGED <<history, given, freed>>

AppendFirst ==
  /\ given # NoOp /\ ~freed
  /\ history = <<>>
  /\ \E array \in Blocks :
       /\ MayBeAt(array)
       /\ heap' = Resized(array) \ {given.block}
       /\ data' = array
       /\ composed' = Pointed(array)
       /\ fault' = (fault \/ Faults(array))
  /\ cap' = Capacity
  /\ history' = <<given.comps>>
  /\ given' = NoOp
  /\ UNCHANGED freed

AppendNext ==
  /\ given # NoOp /\ ~freed
  /\ history # <<>>
  /\ \E array \in Blocks, block, comps \in Blocks \ heap :
       /\ MayBeAt(array)
       /\ array # block /\ array # comps /\ block # comps
       /\ heap' = ((Resized(array) \cup {block, comps}) \ Dropped(array)) \ {given.block}
       /\ data' = array
       /\ composed' = OpAt(block, comps)
       /\ fault' = (fault \/ Faults(array))
  /\ cap' = Capacity
  /\ history' = Append(history, given.comps)
  /\ given' = NoOp
  /\ UNCHANGED freed

(***************************************************************************)
(* ot_free_doc: the components of every operation, the array, and the      *)
(* composition when it is an operation of its own.                         *)
(***************************************************************************)
Own == IF Len(history) > 1 THEN BlocksOf(composed) ELSE {}

Parts == ToSet(history) \cup (IF history = <<>> THEN {} ELSE {data}) \cup Own

ot_free_doc ==
  /\ ~freed
  /\ fault' = (fault \/ ~(Parts \subseteq heap))
  /\ heap' = heap \ Parts
  /\ freed' = TRUE
  /\ UNCHANGED <<data, cap, history, composed, given>>

Next == NewOp \/ FreeOp \/ Refuse \/ AppendFirst \/ AppendNext \/ ot_free_doc

Spec == Init /\ [][Next]_vars

-----------------------------------------------------------------------------
\* Nothing is used after it was freed, freed twice, or written behind the end
\* of the array, wherever the array moves and whatever is refused in between:
\* the composition never points into an array that is gone.
NoFault == ~fault

\* Between the calls everything allocated belongs to somebody: the document,
\* until it is freed, and the caller's operation.  Nothing is leaked.
NothingLeaked ==
  heap = (IF freed THEN {} ELSE Parts) \cup (IF given = NoOp THEN {} ELSE BlocksOf(given))
=============================================================================
