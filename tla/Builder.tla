------------------------------ MODULE Builder ------------------------------
(***************************************************************************)
(* An operation under construction by the builders of ot.c, in any order,  *)
(* elements and formatting boundaries included, what a copy of it is and   *)
(* what ot_equal makes of the two.                                         *)
(***************************************************************************)
EXTENDS Ops, FiniteSets

CONSTANTS
  Counts,       \* the counts given to ot_skip and ot_delete
  Strings,      \* the texts given to ot_insert
  Elements,     \* the elements given to ot_open_element
  Fmts,         \* the <<name, value>> given to ot_start_fmt and ot_end_fmt
  MaxCalls      \* bound: calls of a builder

\* A uint32_t, a string.
ASSUME InputsAssumption ==
  Counts \subseteq Nat /\ \A text \in Strings : IsSequence(text)

VARIABLES
  comps,        \* the components of the operation
  calls         \* history variable: one component for every call

builderVars == <<comps, calls>>

BuilderInit == comps = <<>> /\ calls = <<>>

-----------------------------------------------------------------------------
(***************************************************************************)
(* append_fmt: a format that is there already gets the new value.          *)
(***************************************************************************)
\* Mutant: it is appended whether or not it is there.
AppendedTwice(fmts, fmt) == Append(fmts, fmt)

append_fmt(fmts, fmt) ==
  IF fmt[1] \in {old[1] : old \in ToSet(fmts)}
    THEN [i \in DOMAIN fmts |-> IF fmts[i][1] = fmt[1] THEN fmt ELSE fmts[i]]
    ELSE Append(fmts, fmt)

(***************************************************************************)
(* append_fmtbound: the boundary at the end of the operation, or a new one.*)
(***************************************************************************)
AtBoundary == comps # <<>> /\ Last(comps).type = "formattingBoundary"
append_fmtbound == IF AtBoundary THEN comps ELSE Append(comps, FmtComp(<<>>, <<>>))

ot_start_fmt(fmt) ==
  LET bound == Last(append_fmtbound)
  IN  Append(Front(append_fmtbound), [bound EXCEPT !.start = append_fmt(@, fmt)])
ot_end_fmt(fmt) ==
  LET bound == Last(append_fmtbound)
  IN  Append(Front(append_fmtbound), [bound EXCEPT !.end = append_fmt(@, fmt)])

Call(comp, built) == comps' = built /\ calls' = Append(calls, comp)

BuilderNext ==
  /\ Len(calls) < MaxCalls
  /\ \/ \E n \in Counts : Call(SkipComp(n), ot_skip(comps, n))
     \/ \E n \in Counts : Call(DeleteComp(n), ot_delete(comps, n))
     \/ \E text \in Strings : Call(InsertComp(text), ot_insert(comps, text))
     \/ \E elem \in Elements : Call(OpenComp(elem), ot_open_element(comps, elem))
     \/ Call(CloseComp, ot_close_element(comps))
     \/ \E fmt \in Fmts : Call(FmtComp(<<fmt>>, <<>>), ot_start_fmt(fmt))
     \/ \E fmt \in Fmts : Call(FmtComp(<<>>, <<fmt>>), ot_end_fmt(fmt))

BuilderSpec == BuilderInit /\ [][BuilderNext]_builderVars

-----------------------------------------------------------------------------
(***************************************************************************)
(* ot_equal looks neither at hashes nor into formatting boundaries.        *)
(***************************************************************************)
SameComp(c, d) == c.type = d.type /\ (c.type = "formattingBoundary" \/ c = d)

ot_equal(op1, op2) ==
  /\ op1.client_id = op2.client_id
  /\ op1.parent = op2.parent
  /\ Len(op1.comps) = Len(op2.comps)
  /\ \A i \in DOMAIN op1.comps : SameComp(op1.comps[i], op2.comps[i])

-----------------------------------------------------------------------------
Operation == Op(1, ZeroHash, ZeroHash, comps)
Formats == {i \in DOMAIN calls : calls[i].type = "formattingBoundary"}
Document == [i \in 1..BaseLen(calls) |-> i]

\* Whatever the builders merge or drop, the operation does what one component
\* for every call would do.
MeansTheCalls ==
  /\ BaseLen(comps) = BaseLen(calls)
  /\ ApplyTo(comps, Document) = ApplyTo(calls, Document)
  /\ ot_snapshot(comps) = ot_snapshot(calls)

\* A copy is equal to an operation without formatting boundaries, component
\* for component, so that what a client anticipates is what it sent; in any
\* case it does the same to a text, and a copy of it changes nothing more.
CopyIsEqual ==
  \E copy \in {ot_dup_op(Operation)} :
    /\ Formats = {} => copy = Operation /\ ot_equal(copy, Operation)
    /\ ApplyTo(copy.comps, Document) = ApplyTo(comps, Document)
    /\ ot_equal(ot_dup_op(copy), copy)

\* A boundary collects what was started and ended since the last call that
\* put something else into the operation, each name once, with the value that
\* was given last.
Solid(c) == c.type \notin {"formattingBoundary"} /\ ~(c.type \in {"skip", "delete"} /\ c.count = 0)
Since == {i \in Formats : \A j \in i..Len(calls) : ~Solid(calls[j])}
GivenLast(fmts(_)) ==
  {fmts(calls[i])[1] : i \in
     {i \in Since : /\ fmts(calls[i]) # <<>>
                    /\ \A j \in Since : j > i /\ fmts(calls[j]) # <<>> =>
                                        fmts(calls[j])[1][1] # fmts(calls[i])[1][1]}}
Collected(list, newest) == ToSet(list) = newest /\ Len(list) = Cardinality(newest)

LastValueCounts ==
  /\ AtBoundary <=> Since # {}
  /\ AtBoundary => /\ Collected(Last(comps).start, GivenLast(LAMBDA c : c.start))
                   /\ Collected(Last(comps).end, GivenLast(LAMBDA c : c.end))
=============================================================================
