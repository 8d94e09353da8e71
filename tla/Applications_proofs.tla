-------------------------- MODULE Applications_proofs --------------------------
(***************************************************************************)
(* Two applications around the same clients and server, each of which is   *)
(* System to those in it: one that hands over at once what is sent         *)
(* (Direct), one whose clients come in later (Session).                    *)
(***************************************************************************)
EXTENDS Direct, Session, System_proofs

-----------------------------------------------------------------------------
(***************************************************************************)
(* A run in which the client or the server hands over at once what it      *)
(* sends is a run of System, whatever the calls do to each other.          *)
(***************************************************************************)

(***************************************************************************)
(* What has nothing to do with queues is the same in Direct and in the     *)
(* System it is mapped to.                                                 *)
(***************************************************************************)
LEMMA SameBuilders ==
  /\ \A comps, n : Queued!ot_skip(comps, n) = ot_skip(comps, n)
  /\ \A comps, text : Queued!ot_insert(comps, text) = ot_insert(comps, text)
  /\ \A comps, n : Queued!ot_delete(comps, n) = ot_delete(comps, n)
<1>1. \A comps, c : Queued!AppendComp(comps, c) = AppendComp(comps, c)
  BY DEF AppendComp, Queued!AppendComp, Merge, Queued!Merge, Last, Queued!Last, Front, Queued!Front
<1>2. \A x : /\ Queued!SkipComp(x) = SkipComp(x) /\ Queued!InsertComp(x) = InsertComp(x)
             /\ Queued!DeleteComp(x) = DeleteComp(x)
  BY DEF SkipComp, Queued!SkipComp, InsertComp, Queued!InsertComp, DeleteComp, Queued!DeleteComp
<1> QED
  BY <1>1, <1>2 DEF ot_skip, Queued!ot_skip, ot_insert, Queued!ot_insert, ot_delete, Queued!ot_delete

\* A copy is the same in both.
LEMMA SameCopy ==
  \A op : Queued!ot_dup_op(op) = ot_dup_op(op)
<1>1. \A comps, x : /\ Queued!ot_open_element(comps, x) = ot_open_element(comps, x)
                   /\ Queued!ot_close_element(comps) = ot_close_element(comps)
  BY DEF ot_open_element, Queued!ot_open_element, ot_close_element, Queued!ot_close_element,
         OpenComp, Queued!OpenComp, CloseComp, Queued!CloseComp
<1>2. \A list, c : Queued!Rebuilt(list, c) = Rebuilt(list, c)
  BY <1>1, SameBuilders DEF Rebuilt, Queued!Rebuilt
<1>3. \A comps : Queued!FoldLeft(Queued!Rebuilt, <<>>, comps) = FoldLeft(Rebuilt, <<>>, comps)
  BY <1>2 DEF FoldLeft, Queued!FoldLeft, MapThenFoldSet, Queued!MapThenFoldSet, Max, Queued!Max
<1> QED
  BY <1>3 DEF ot_dup_op, Queued!ot_dup_op, Op, Queued!Op

LEMMA SameIters ==
  /\ \A comps : Queued!ot_iter_next(comps) = ot_iter_next(comps)
  /\ \A comps, it, n : Queued!ot_iter_skip(comps, it, n) = ot_iter_skip(comps, it, n)
  /\ \A comps, it : Queued!Kind(comps, it) = Kind(comps, it)
  /\ \A comps, it : Queued!Left(comps, it) = Left(comps, it)
  /\ \A comps, it : Queued!LeftText(comps, it) = LeftText(comps, it)
  /\ \A m, n : Queued!Least(m, n) = Least(m, n)
<1>1. \A c : Queued!ot_comp_size(c) = ot_comp_size(c)
  BY DEF ot_comp_size, Queued!ot_comp_size
<1>2. \A comps, it, n : Queued!ot_iter_skip(comps, it, n) = ot_iter_skip(comps, it, n)
  BY <1>1 DEF ot_iter_skip, Queued!ot_iter_skip
<1>3. \A comps, it : Queued!Left(comps, it) = Left(comps, it)
  BY <1>1 DEF Left, Queued!Left
<1>4. \A comps : Queued!ot_iter_next(comps) = ot_iter_next(comps)
  BY DEF ot_iter_next, Queued!ot_iter_next
<1>5. \A comps, it : /\ Queued!Kind(comps, it) = Kind(comps, it)
                     /\ Queued!LeftText(comps, it) = LeftText(comps, it)
  BY DEF Kind, Queued!Kind, LeftText, Queued!LeftText
<1>6. \A m, n : Queued!Least(m, n) = Least(m, n)
  BY DEF Least, Queued!Least
<1> QED
  BY <1>2, <1>3, <1>4, <1>5, <1>6

LEMMA SameXformStep ==
  ASSUME NEW op1, NEW op2, NEW s
  PROVE  Queued!XformStep(op1, op2, s) = XformStep(op1, op2, s)
<1>1. Queued!InsertFirst(op1, s) = InsertFirst(op1, s)
  BY SameBuilders, SameIters DEF InsertFirst, Queued!InsertFirst
<1>2. Queued!InsertSecond(op2, s) = InsertSecond(op2, s)
  BY SameBuilders, SameIters DEF InsertSecond, Queued!InsertSecond
<1>3. \A p, q, n : Queued!Walk(op1, op2, s, p, q, n) = Walk(op1, op2, s, p, q, n)
  BY SameIters DEF Walk, Queued!Walk
<1>4. \A kinds, n : Queued!Over(op1, op2, kinds, s, n) = Over(op1, op2, kinds, s, n)
  BY <1>3, SameBuilders DEF Over, Queued!Over
<1>5. Queued!Common(op1, op2, s) = Common(op1, op2, s)
  BY SameIters DEF Common, Queued!Common
<1>6. \A kinds : Queued!MeetsStub(kinds) <=> MeetsStub(kinds)
  BY DEF MeetsStub, Queued!MeetsStub, Stubs, Queued!Stubs
<1>7. \A kinds : Queued!XformTurn(op1, op2, kinds, s) = XformTurn(op1, op2, kinds, s)
  BY <1>1, <1>2, <1>4, <1>5, <1>6 DEF XformTurn, Queued!XformTurn, Stubs, Queued!Stubs
<1> QED
  BY <1>7, SameIters DEF XformStep, Queued!XformStep

LEMMA SameXformComps ==
  \A comps1, comps2 : Queued!XformComps(comps1, comps2) = XformComps(comps1, comps2)
<1> SUFFICES ASSUME NEW comps1, NEW comps2
             PROVE  Queued!XformComps(comps1, comps2) = XformComps(comps1, comps2)
  OBVIOUS
<1> DEFINE turns == Len(comps1) + Len(comps2)
           Theirs(run) ==
             [k \in 0..turns |->
                IF k = 0 THEN Queued!XformStart(comps1, comps2)
                ELSE IF Queued!XformRunning(run[k - 1]) THEN Queued!XformStep(comps1, comps2, run[k - 1])
                     ELSE run[k - 1]]
           Ours(run) ==
             [k \in 0..turns |->
                IF k = 0 THEN XformStart(comps1, comps2)
                ELSE IF XformRunning(run[k - 1]) THEN XformStep(comps1, comps2, run[k - 1])
                     ELSE run[k - 1]]
<1>1. Queued!XformStart(comps1, comps2) = XformStart(comps1, comps2)
  BY SameIters DEF XformStart, Queued!XformStart
<1>2. \A s : Queued!XformRunning(s) <=> XformRunning(s)
  BY DEF XformRunning, Queued!XformRunning
<1>3. \A run : Theirs(run) = Ours(run)
  BY <1>1, <1>2, SameXformStep
<1>4. /\ Queued!XformComps(comps1, comps2) = (CHOOSE run : run = Theirs(run))[turns]
      /\ XformComps(comps1, comps2) = (CHOOSE run : run = Ours(run))[turns]
  BY DEF XformComps, Queued!XformComps
<1> HIDE DEF Theirs, Ours
<1>5. (CHOOSE run : run = Theirs(run)) = (CHOOSE run : run = Ours(run))
  BY <1>3
<1> QED
  BY <1>4, <1>5

LEMMA SameComposeStep ==
  ASSUME NEW op1, NEW op2, NEW s
  PROVE  Queued!ComposeStep(op1, op2, s) = ComposeStep(op1, op2, s)
<1>1. Queued!KeepDelete(op1, s) = KeepDelete(op1, s)
  BY SameBuilders, SameIters DEF KeepDelete, Queued!KeepDelete, Delete, Queued!Delete
<1>2. \A kind : Queued!NextText(op1, op2, kind, s) = NextText(op1, op2, kind, s)
  BY SameIters DEF NextText, Queued!NextText
<1>3. \A text : Queued!InsertText(op2, s, text) = InsertText(op2, s, text)
  BY SameBuilders, SameIters DEF InsertText, Queued!InsertText
<1>4. Queued!TakeInsert(op1, op2, s) = TakeInsert(op1, op2, s)
  BY <1>2, <1>3, SameIters DEF TakeInsert, Queued!TakeInsert
<1>5. Queued!Shared(op1, op2, s) = Shared(op1, op2, s)
  BY SameIters DEF Shared, Queued!Shared
<1>6. \A n : Queued!Kept(op1, s, n) = Kept(op1, s, n)
  BY SameIters DEF Kept, Queued!Kept
<1>7. \A kinds, n : Queued!Along(op1, op2, kinds, s, n) = Along(op1, op2, kinds, s, n)
  BY <1>6, SameBuilders, SameIters DEF Along, Queued!Along
<1>8. \A kinds : Queued!ComposeMeetsStub(kinds) <=> ComposeMeetsStub(kinds)
  BY DEF ComposeMeetsStub, Queued!ComposeMeetsStub, Stubs, Queued!Stubs
<1>9. \A kinds : Queued!ComposeTurn(op1, op2, kinds, s) = ComposeTurn(op1, op2, kinds, s)
  BY <1>1, <1>4, <1>5, <1>7, <1>8 DEF ComposeTurn, Queued!ComposeTurn, Stubs, Queued!Stubs
<1> QED
  BY <1>9, SameIters DEF ComposeStep, Queued!ComposeStep

LEMMA SameVolume ==
  \A comps : Queued!Volume(comps) = Volume(comps)
  BY DEF Volume, Queued!Volume, SizeIf, Queued!SizeIf, SumOf, Queued!SumOf, FoldLeft, Queued!FoldLeft,
         MapThenFoldSet, Queued!MapThenFoldSet, Max, Queued!Max, ot_comp_size, Queued!ot_comp_size

LEMMA SameComposeComps ==
  \A comps1, comps2 : Queued!ComposeComps(comps1, comps2) = ComposeComps(comps1, comps2)
<1> SUFFICES ASSUME NEW comps1, NEW comps2
             PROVE  Queued!ComposeComps(comps1, comps2) = ComposeComps(comps1, comps2)
  OBVIOUS
<1> DEFINE turns == Volume(comps1) + Volume(comps2) + 1
           Theirs(run) ==
             [k \in 0..turns |->
                IF k = 0 THEN Queued!ComposeStart(comps1, comps2)
                ELSE IF Queued!ComposeRunning(run[k - 1]) THEN Queued!ComposeStep(comps1, comps2, run[k - 1])
                     ELSE run[k - 1]]
           Ours(run) ==
             [k \in 0..turns |->
                IF k = 0 THEN ComposeStart(comps1, comps2)
                ELSE IF ComposeRunning(run[k - 1]) THEN ComposeStep(comps1, comps2, run[k - 1])
                     ELSE run[k - 1]]
<1>1. Queued!ComposeStart(comps1, comps2) = ComposeStart(comps1, comps2)
  BY SameIters DEF ComposeStart, Queued!ComposeStart
<1>2. \A s : Queued!ComposeRunning(s) <=> ComposeRunning(s)
  BY DEF ComposeRunning, Queued!ComposeRunning
<1>3. \A run : Theirs(run) = Ours(run)
  BY <1>1, <1>2, SameComposeStep
<1>4. /\ Queued!ComposeComps(comps1, comps2) = (CHOOSE run : run = Theirs(run))[turns]
      /\ ComposeComps(comps1, comps2) = (CHOOSE run : run = Ours(run))[turns]
  BY SameVolume DEF ComposeComps, Queued!ComposeComps
<1> HIDE DEF Theirs, Ours
<1>5. (CHOOSE run : run = Theirs(run)) = (CHOOSE run : run = Ours(run))
  BY <1>3
<1> QED
  BY <1>4, <1>5

LEMMA SameXform ==
  \A op1, op2 : Queued!ot_xform(op1, op2) = ot_xform(op1, op2)
  BY SameXformComps DEF ot_xform, Queued!ot_xform, Primes, Queued!Primes, Op,
       Queued!Op, NULL, Queued!NULL, ZeroHash, Queued!ZeroHash

LEMMA SameCompose ==
  \A op1, op2 : Queued!ot_compose(op1, op2) = ot_compose(op1, op2)
  BY SameComposeComps DEF ot_compose, Queued!ot_compose, Composition,
       Queued!Composition, Op, Queued!Op, NULL, Queued!NULL, ZeroHash,
       Queued!ZeroHash

LEMMA SameSize ==
  \A comps : Queued!ot_size(comps) = ot_size(comps)
  BY DEF ot_size, Queued!ot_size, SumOf, Queued!SumOf, FoldLeft,
       Queued!FoldLeft, MapThenFoldSet, Queued!MapThenFoldSet, Max,
       Queued!Max, Measure, Queued!Measure, Bytes, Queued!Bytes, Cardinality,
       Queued!Cardinality

LEMMA SameSnapshot ==
  \A comps : Queued!ot_snapshot(comps) = ot_snapshot(comps)
  BY DEF ot_snapshot, Queued!ot_snapshot, FoldLeft, Queued!FoldLeft,
       MapThenFoldSet, Queued!MapThenFoldSet, Max, Queued!Max

LEMMA SameAppend ==
  ASSUME NEW d, NEW op
  PROVE  Queued!ot_doc_append(d, op) = ot_doc_append(d, op)
<1>1. Queued!Exceeds(d, op) = Exceeds(d, op)
  BY SameSize DEF Exceeds, Queued!Exceeds
<1>2. Queued!Composed(d, op) = Composed(d, op)
  BY SameCompose DEF Composed, Queued!Composed, Op, Queued!Op, ZeroHash,
       Queued!ZeroHash
<1>3. ASSUME NEW composed
      PROVE  Queued!AppendComposed(d, op, composed) = AppendComposed(d, op, composed)
  BY SameSize, SameSnapshot DEF AppendComposed, Queued!AppendComposed,
       NewHead, Queued!NewHead, Moved, Queued!Moved, Extended,
       Queued!Extended, Parent, Queued!Parent, Refused, Queued!Refused, Last,
       Queued!Last, Op, Queued!Op, NULL, Queued!NULL, ZeroHash,
       Queued!ZeroHash, HashOf, Queued!HashOf
<1> QED
  BY <1>1, <1>2, <1>3 DEF ot_doc_append, Queued!ot_doc_append, Refused,
       Queued!Refused, NULL, Queued!NULL

LEMMA SameComposeFrom ==
  ASSUME NEW history, NEW start
  PROVE  Queued!ComposeFrom(history, start) = ComposeFrom(history, start)
<1> DEFINE more == Len(history) - start
           Theirs(run) ==
             [n \in 0..more |-> IF n = 0 THEN Queued!ot_dup_op(history[start])
                                ELSE Queued!ComposeNext(run[n - 1], history[start + n])]
           Ours(run) ==
             [n \in 0..more |-> IF n = 0 THEN ot_dup_op(history[start])
                                ELSE ComposeNext(run[n - 1], history[start + n])]
<1>1. \A op1, op2 : Queued!ComposeNext(op1, op2) = ComposeNext(op1, op2)
  BY SameCompose DEF ComposeNext, Queued!ComposeNext, NULL, Queued!NULL
<1>2. \A run : Theirs(run) = Ours(run)
  BY <1>1, SameCopy
<1>3. /\ Queued!ComposeFrom(history, start) = (CHOOSE run : run = Theirs(run))[more]
      /\ ComposeFrom(history, start) = (CHOOSE run : run = Ours(run))[more]
  BY DEF ComposeFrom, Queued!ComposeFrom
<1> HIDE DEF Theirs, Ours
<1>4. (CHOOSE run : run = Theirs(run)) = (CHOOSE run : run = Ours(run))
  BY <1>2
<1> QED
  BY <1>3, <1>4

LEMMA SameReceived ==
  ASSUME NEW d, NEW op
  PROVE  Queued!ReceivedOn(d, op) = ReceivedOn(d, op)
<1>1. \A hash : Queued!Start(d, hash) = Start(d, hash)
  BY DEF Start, Queued!Start, Newest, Queued!Newest, Positions,
       Queued!Positions, ZeroHash, Queued!ZeroHash
<1>2. \A hash : Queued!ot_doc_compose_after(d, hash) = ot_doc_compose_after(d, hash)
  BY <1>1, SameComposeFrom DEF ot_doc_compose_after,
       Queued!ot_doc_compose_after, Positions, Queued!Positions, NULL,
       Queued!NULL, ZeroHash, Queued!ZeroHash
<1>3. Queued!xform(d, op) = xform(d, op)
  BY <1>2, SameXform DEF xform, Queued!xform, XformAfter, Queued!XformAfter,
       NULL, Queued!NULL
<1>4. \A e, x : Queued!append_op(e, x) = append_op(e, x)
  BY SameAppend DEF append_op, Queued!append_op, Refused, Queued!Refused,
       NULL, Queued!NULL
<1> QED
  BY <1>3, <1>4 DEF ReceivedOn, Queued!ReceivedOn, can_append,
       Queued!can_append, ot_new_doc, Queued!ot_new_doc, NULL, Queued!NULL,
       ZeroHash, Queued!ZeroHash

LEMMA SameOpened ==
  /\ \A d : Queued!Opened(d) = Opened(d)
  /\ \A d : Queued!TextOf(d) = TextOf(d)
  /\ Queued!OpenedDoc = OpenedDoc
  /\ Queued!Version0 = Version0
<1>1. \A d : Queued!Opened(d) = Opened(d)
  BY DEF Opened, Queued!Opened, ot_new_doc, Queued!ot_new_doc, NULL,
       Queued!NULL
<1>2. \A d : Queued!TextOf(d) = TextOf(d)
  BY SameSnapshot DEF TextOf, Queued!TextOf, Text, Queued!Text, NULL,
       Queued!NULL
<1>3. Queued!OpenedDoc = OpenedDoc
  BY SameAppend DEF OpenedDoc, Queued!OpenedDoc, ot_new_doc,
       Queued!ot_new_doc, Op, Queued!Op, ZeroHash, Queued!ZeroHash,
       InsertComp, Queued!InsertComp, NULL, Queued!NULL
<1>4. Queued!Version0 = Version0
  BY DEF Version0, Queued!Version0
<1> QED
  BY <1>1, <1>2, <1>3, <1>4

-----------------------------------------------------------------------------
(***************************************************************************)
(* The variables of the System that Direct is mapped to, and its actions   *)
(* in terms of them.                                                       *)
(***************************************************************************)
UpHat == [c \in Clients |-> UpOf(c)]
DownHat == [c \in Clients |-> DownOf(c)]
AnticipatedHat ==
  [c \in Clients |-> IF IsSending(c) THEN ot_dup_op(buffer[c]) ELSE anticipated[c]]
BufferHat == [c \in Clients |-> IF IsSending(c) THEN NULL ELSE buffer[c]]
AckHat == [c \in Clients |-> ack_required[c] \/ IsSending(c)]

\* What send_buffer does to the client's side of them.
HatSend(c, msg, version) ==
  /\ UpHat' = [UpHat EXCEPT ![c] = Append(@, msg)]
  /\ AnticipatedHat' = [AnticipatedHat EXCEPT ![c] = ot_dup_op(msg)]
  /\ BufferHat' = [BufferHat EXCEPT ![c] = NULL]
  /\ AckHat' = [AckHat EXCEPT ![c] = TRUE]
  /\ sentAt' = [sentAt EXCEPT ![c] = version]

HatsUnchanged == UNCHANGED <<UpHat, DownHat, AnticipatedHat, BufferHat, AckHat>>

LEMMA QueuedVars ==
  ASSUME HatsUnchanged, UNCHANGED <<doc, seen, sentAt, server_doc, edits>>
  PROVE  UNCHANGED Queued!vars
  BY DEF HatsUnchanged, UpHat, DownHat, AnticipatedHat, BufferHat, AckHat,
         Queued!vars, Queued!clientVars

LEMMA QueuedTakeDown ==
  ASSUME NEW c, DownHat[c] # <<>>, DownHat' = [DownHat EXCEPT ![c] = Tail(@)]
  PROVE  Queued!TakeDown(c)
  BY DEF DownHat, Queued!TakeDown

LEMMA QueuedTakeUp ==
  ASSUME NEW c, UpHat[c] # <<>>, UpHat' = [UpHat EXCEPT ![c] = Tail(@)]
  PROVE  Queued!TakeUp(c)
  BY DEF UpHat, Queued!TakeUp

\* ot_client_apply, and with it Edit.
HatApplied(c, r, buffered) ==
  /\ doc' = [doc EXCEPT ![c] = r.doc]
  /\ DownHat' = DownHat /\ seen' = seen
  /\ \/ /\ buffered = NULL
        /\ UNCHANGED <<UpHat, AckHat, AnticipatedHat, BufferHat, sentAt>>
     \/ /\ buffered # NULL
        /\ AckHat[c]
        /\ BufferHat' = [BufferHat EXCEPT ![c] = buffered]
        /\ UNCHANGED <<UpHat, AckHat, AnticipatedHat, sentAt>>
     \/ /\ buffered # NULL
        /\ ~AckHat[c]
        /\ HatSend(c, Op(buffered.client_id, buffered.parent, buffered.hash, buffered.comps),
                   seen[c])

HatApply(c, comps) ==
  \E r \in {ot_doc_append(Opened(doc[c]), Op(c, ZeroHash, ZeroHash, comps))} :
  \E buffered \in {IF r.err # "none" THEN NULL
                   ELSE IF BufferHat[c] = NULL THEN ot_dup_op(r.op)
                   ELSE ot_compose(BufferHat[c], r.op)} : HatApplied(c, r, buffered)

LEMMA QueuedEdit ==
  ASSUME NEW c \in Clients, edits[c] < MaxEdits, edits' = [edits EXCEPT ![c] = @ + 1],
         NEW comps \in Edits(c, edits[c], TextOf(doc[c])), HatApply(c, comps),
         UNCHANGED server_doc
  PROVE  Queued!Next
<1>1. PICK r \in {ot_doc_append(Opened(doc[c]), Op(c, ZeroHash, ZeroHash, comps))} :
        \E buffered \in {IF r.err # "none" THEN NULL
                         ELSE IF BufferHat[c] = NULL THEN ot_dup_op(r.op)
                         ELSE ot_compose(BufferHat[c], r.op)} : HatApplied(c, r, buffered)
  BY DEF HatApply
<1>2. PICK buffered \in {IF r.err # "none" THEN NULL
                         ELSE IF BufferHat[c] = NULL THEN ot_dup_op(r.op)
                         ELSE ot_compose(BufferHat[c], r.op)} : HatApplied(c, r, buffered)
  BY <1>1
<1>3. r = Queued!ot_doc_append(Queued!Opened(doc[c]),
                               Queued!Op(c, Queued!ZeroHash, Queued!ZeroHash, comps))
  BY SameAppend, SameOpened DEF Op, Queued!Op, ZeroHash, Queued!ZeroHash
<1>7. buffered = Queued!Buffered(c, r)
  BY SameCompose, SameCopy DEF Queued!Buffered, BufferHat, NULL, Queued!NULL
<1>4. \/ /\ buffered = Queued!NULL
         /\ UNCHANGED <<UpHat, AckHat, AnticipatedHat, BufferHat, sentAt>>
      \/ /\ buffered # Queued!NULL
         /\ AckHat[c]
         /\ BufferHat' = [BufferHat EXCEPT ![c] = buffered]
         /\ UNCHANGED <<UpHat, AckHat, AnticipatedHat, sentAt>>
      \/ /\ buffered # Queued!NULL
         /\ ~AckHat[c]
         /\ Queued!send_buffer(c, buffered, buffered.parent, seen[c])
  <2>1. NULL = Queued!NULL
    BY DEF NULL, Queued!NULL
  <2>2. HatSend(c, Op(buffered.client_id, buffered.parent, buffered.hash, buffered.comps), seen[c])
          => Queued!send_buffer(c, buffered, buffered.parent, seen[c])
    BY SameCopy DEF HatSend, UpHat, AnticipatedHat, BufferHat, AckHat, Queued!send_buffer,
           Op, Queued!Op, NULL, Queued!NULL
  <2> QED
    BY <1>2, <2>1, <2>2 DEF HatApplied
<1> DEFINE Body(x, b) ==
             /\ doc' = [doc EXCEPT ![c] = x.doc]
             /\ DownHat' = DownHat /\ seen' = seen
             /\ \/ /\ b = Queued!NULL
                   /\ UNCHANGED <<UpHat, AckHat, AnticipatedHat, BufferHat, sentAt>>
                \/ /\ b # Queued!NULL
                   /\ AckHat[c]
                   /\ BufferHat' = [BufferHat EXCEPT ![c] = b]
                   /\ UNCHANGED <<UpHat, AckHat, AnticipatedHat, sentAt>>
                \/ /\ b # Queued!NULL
                   /\ ~AckHat[c]
                   /\ Queued!send_buffer(c, b, b.parent, seen[c])
<1>5. Queued!ot_client_apply(c, comps)
  <2>1. Body(r, buffered)
    BY <1>2, <1>4 DEF HatApplied
  <2>2. Queued!ot_client_apply(c, comps) <=>
          \E x \in {Queued!ot_doc_append(Queued!Opened(doc[c]),
                      Queued!Op(c, Queued!ZeroHash, Queued!ZeroHash, comps))} :
          \E b \in {Queued!Buffered(c, x)} : Body(x, b)
    BY DEF Queued!ot_client_apply, UpHat, DownHat, AckHat, AnticipatedHat, BufferHat
  <2> HIDE DEF Body
  <2> QED
    BY <2>1, <2>2, <1>3, <1>7
<1> QED
  BY <1>5, SameOpened DEF Queued!Next, Queued!Edit

LEMMA QueuedServerStep ==
  ASSUME NEW c \in Clients, UpHat[c] # <<>>, UpHat' = [UpHat EXCEPT ![c] = Tail(@)],
         NEW r \in {Received(Head(UpHat[c]))}, server_doc' = r.doc,
         DownHat' = [k \in Clients |->
                       Append(DownHat[k], IF r.err = "none" THEN r.op ELSE ErrorMsg(r.err))],
         UNCHANGED <<doc, AckHat, AnticipatedHat, BufferHat, seen, sentAt, edits>>
  PROVE  Queued!Next
<1>1. r = Queued!Received(Head(UpHat[c]))
  BY SameReceived DEF Received, Queued!Received
<1>2. IF r.err = "none" THEN Queued!Broadcast(r.op)
                        ELSE Queued!Broadcast(Queued!ErrorMsg(r.err))
  BY DEF Queued!Broadcast, DownHat, ErrorMsg, Queued!ErrorMsg
<1>3. Queued!TakeUp(c)
  BY QueuedTakeUp
<1>4. Queued!ot_server_receive(c)
  BY <1>1, <1>2, <1>3 DEF Queued!ot_server_receive, UpHat
<1> QED
  BY <1>4 DEF Queued!Next, Queued!ServerStep, Queued!clientVars,
              AckHat, AnticipatedHat, BufferHat

LEMMA QueuedClientStep ==
  ASSUME NEW c \in Clients, Queued!ot_client_receive(c), UNCHANGED <<server_doc, edits>>
  PROVE  Queued!Next
  BY DEF Queued!Next, Queued!ClientStep

LEMMA QueuedReceiveError ==
  ASSUME NEW c \in Clients, DownHat[c] # <<>>, DownHat' = [DownHat EXCEPT ![c] = Tail(@)],
         IsError(Head(DownHat[c])),
         UNCHANGED <<UpHat, AckHat, AnticipatedHat, BufferHat, doc, seen, sentAt,
                     server_doc, edits>>
  PROVE  Queued!Next
<1>1. Queued!TakeDown(c)
  BY QueuedTakeDown
<1>2. Queued!ReceiveError(c)
  BY <1>1 DEF Queued!ReceiveError, UpHat, AckHat, AnticipatedHat, BufferHat, DownHat,
              IsError, Queued!IsError
<1> QED
  BY <1>2, QueuedClientStep DEF Queued!ot_client_receive

LEMMA QueuedReceiveAck ==
  ASSUME NEW c \in Clients, DownHat[c] # <<>>, DownHat' = [DownHat EXCEPT ![c] = Tail(@)],
         IsOwn(c, Head(DownHat[c])),
         seen' = [seen EXCEPT ![c] = @ + 1],
         \/ /\ BufferHat[c] = NULL
            /\ AckHat' = [AckHat EXCEPT ![c] = FALSE]
            /\ AnticipatedHat' = [AnticipatedHat EXCEPT ![c] = NULL]
            /\ UNCHANGED <<UpHat, BufferHat, sentAt>>
         \/ /\ BufferHat[c] # NULL
            /\ HatSend(c, Op(BufferHat[c].client_id, Head(DownHat[c]).hash,
                             BufferHat[c].hash, BufferHat[c].comps),
                       seen[c] + 1),
         UNCHANGED <<doc, server_doc, edits>>
  PROVE  Queued!Next
<1>1. Queued!TakeDown(c)
  BY QueuedTakeDown
<1>2. ~Queued!IsError(Head(DownHat[c])) /\ Head(DownHat[c]).client_id = c
  BY DEF IsOwn, IsError, Queued!IsError
<1>3. \/ /\ BufferHat[c] = Queued!NULL
         /\ AckHat' = [AckHat EXCEPT ![c] = FALSE]
         /\ AnticipatedHat' = [AnticipatedHat EXCEPT ![c] = Queued!NULL]
         /\ UNCHANGED <<UpHat, BufferHat, sentAt>>
      \/ /\ BufferHat[c] # Queued!NULL
         /\ Queued!send_buffer(c, BufferHat[c], Head(DownHat[c]).hash, seen[c] + 1)
  <2>1. CASE BufferHat[c] = NULL
    BY <2>1 DEF NULL, Queued!NULL
  <2>2. CASE BufferHat[c] # NULL
    <3>1. BufferHat[c] # Queued!NULL
      BY <2>2 DEF NULL, Queued!NULL
    <3>2. Queued!send_buffer(c, BufferHat[c], Head(DownHat[c]).hash, seen[c] + 1)
      BY <2>2, SameCopy DEF HatSend, UpHat, AnticipatedHat, BufferHat, AckHat, Queued!send_buffer,
                  Op, Queued!Op, NULL, Queued!NULL
    <3> QED
      BY <3>1, <3>2
  <2> QED
    BY <2>1, <2>2
<1>4. Queued!ReceiveAck(c)
  BY <1>1, <1>2, <1>3 DEF Queued!ReceiveAck, UpHat, AckHat, AnticipatedHat, BufferHat, DownHat
<1> QED
  BY <1>4, QueuedClientStep DEF Queued!ot_client_receive

\* Incoming in terms of them.
HatFirst(c, received) ==
  IF AnticipatedHat[c] = NULL THEN <<received, NULL>>
  ELSE OrElse(ot_xform(received, AnticipatedHat[c]), <<NULL, AnticipatedHat[c]>>)

HatSecond(c, inter) ==
  IF BufferHat[c] = NULL \/ inter = NULL THEN <<BufferHat[c], inter>>
  ELSE OrElse(ot_xform(BufferHat[c], inter), <<BufferHat[c], NULL>>)

LEMMA QueuedReceiveOp ==
  ASSUME NEW c \in Clients, DownHat[c] # <<>>, DownHat' = [DownHat EXCEPT ![c] = Tail(@)],
         ~IsError(Head(DownHat[c])), ~IsOwn(c, Head(DownHat[c])),
         seen' = [seen EXCEPT ![c] = @ + 1],
         NEW first \in {HatFirst(c, Head(DownHat[c]))},
         NEW second \in {HatSecond(c, first[1])},
         AnticipatedHat' = [AnticipatedHat EXCEPT ![c] = first[2]],
         BufferHat' = [BufferHat EXCEPT ![c] = second[1]],
         \/ /\ second[2] = NULL
            /\ UNCHANGED doc
         \/ /\ second[2] # NULL
            /\ doc' = [doc EXCEPT ![c] = ot_doc_append(Opened(doc[c]), second[2]).doc],
         UNCHANGED <<UpHat, AckHat, sentAt, server_doc, edits>>
  PROVE  Queued!Next
<1>0. NULL = Queued!NULL /\ \A pair, failed : Queued!OrElse(pair, failed) = OrElse(pair, failed)
  BY DEF NULL, Queued!NULL, OrElse, Queued!OrElse
<1>1. Queued!TakeDown(c)
  BY QueuedTakeDown
<1>2. ~Queued!IsError(Head(DownHat[c])) /\ Head(DownHat[c]).client_id # c
  BY DEF IsOwn, IsError, Queued!IsError
<1>3. first = Queued!xform_anticipated(c, Head(DownHat[c]))
  BY <1>0, SameXform DEF HatFirst, Queued!xform_anticipated, AnticipatedHat
<1>4. second = Queued!xform_buffer(c, first[1])
  BY <1>0, SameXform DEF HatSecond, Queued!xform_buffer, BufferHat
<1>5. \/ /\ second[2] = Queued!NULL
         /\ UNCHANGED doc
      \/ /\ second[2] # Queued!NULL
         /\ doc' = [doc EXCEPT ![c] =
                      Queued!ot_doc_append(Queued!Opened(doc[c]), second[2]).doc]
  BY <1>0, SameAppend, SameOpened, SMTT(40)
<1>6. Queued!Incoming(c, Head(DownHat[c]))
  BY <1>3, <1>4, <1>5 DEF Queued!Incoming, AnticipatedHat, BufferHat
<1>7. Queued!ReceiveOp(c)
  BY <1>1, <1>2, <1>6 DEF Queued!ReceiveOp, UpHat, AckHat, DownHat
<1> QED
  BY <1>7, QueuedClientStep DEF Queued!ot_client_receive

-----------------------------------------------------------------------------
(***************************************************************************)
(* What the mapping makes of a stack: the clients that are sending, what   *)
(* the server is about to take, and what is still to be handed to whom.    *)
(***************************************************************************)
UpSeen(queues, served) ==
  [c \in Clients |-> IF served # <<>> /\ served[1].client_id = c
                     THEN served \o queues[c] ELSE queues[c]]
DownSeen(queues, msg, to) ==
  [c \in Clients |-> IF c \in to THEN Append(queues[c], msg) ELSE queues[c]]

Seen(senders, served, msg, to) ==
  /\ UpHat = UpSeen(up, served)
  /\ DownHat = DownSeen(down, msg, to)
  /\ AnticipatedHat = [c \in Clients |-> IF c \in senders THEN ot_dup_op(buffer[c]) ELSE anticipated[c]]
  /\ BufferHat = [c \in Clients |-> IF c \in senders THEN NULL ELSE buffer[c]]
  /\ AckHat = [c \in Clients |-> ack_required[c] \/ c \in senders]

\* The same of any stack.
Reached(calls, c) ==
  {frame \in ToSet(calls) : frame.call = "server_send" /\ c \in ToSet(frame.to)}

SeenIn(calls, senders, served, msg, to) ==
  \A c \in Clients :
    /\ Sending(c) \in ToSet(calls) <=> c \in senders
    /\ IF calls # <<>> /\ Head(calls).call = "ot_server_receive" /\ Head(calls).msg.client_id = c
         THEN served = <<Head(calls).msg>>
         ELSE ~(served # <<>> /\ served[1].client_id = c)
    /\ IF Reached(calls, c) = {} THEN c \notin to
       ELSE c \in to /\ (CHOOSE frame \in Reached(calls, c) : TRUE).msg = msg

LEMMA SeenInGives ==
  ASSUME NEW senders, NEW served, NEW msg, NEW to
  PROVE  /\ SeenIn(stack, senders, served, msg, to) => Seen(senders, served, msg, to)
         /\ SeenIn(stack', senders, served, msg, to) => Seen(senders, served, msg, to)'
<1>1. ASSUME SeenIn(stack, senders, served, msg, to) PROVE Seen(senders, served, msg, to)
  <2>1. ASSUME NEW c \in Clients PROVE UpOf(c) = UpSeen(up, served)[c]
    <3>1. UpSeen(up, served)[c] = IF served # <<>> /\ served[1].client_id = c
                                   THEN served \o up[c] ELSE up[c]
      BY DEF UpSeen
    <3>2. IF stack # <<>> /\ Head(stack).call = "ot_server_receive"
               /\ Head(stack).msg.client_id = c
            THEN served = <<Head(stack).msg>>
            ELSE ~(served # <<>> /\ served[1].client_id = c)
      BY <1>1 DEF SeenIn
    <3>3. CASE stack # <<>> /\ Head(stack).call = "ot_server_receive"
               /\ Head(stack).msg.client_id = c
      <4>1. served = <<Head(stack).msg>>
        BY <3>2, <3>3
      <4>2. served # <<>> /\ served[1] = Head(stack).msg
        BY <4>1
      <4>3. UpOf(c) = <<Head(stack).msg>> \o up[c]
        BY <3>3 DEF UpOf, Runs, Top
      <4> QED
        BY <3>1, <3>3, <4>1, <4>2, <4>3
    <3>4. CASE ~(stack # <<>> /\ Head(stack).call = "ot_server_receive"
                 /\ Head(stack).msg.client_id = c)
      <4>1. UpOf(c) = up[c]
        BY <3>4 DEF UpOf, Runs, Top
      <4> QED
        BY <3>1, <3>2, <3>4, <4>1
    <3> QED
      BY <3>3, <3>4
  <2>2. ASSUME NEW c \in Clients PROVE DownOf(c) = DownSeen(down, msg, to)[c]
    <3>1. DownSeen(down, msg, to)[c] = IF c \in to THEN Append(down[c], msg) ELSE down[c]
      BY DEF DownSeen
    <3>2. IF Reached(stack, c) = {} THEN c \notin to
          ELSE c \in to /\ (CHOOSE frame \in Reached(stack, c) : TRUE).msg = msg
      BY <1>1 DEF SeenIn
    <3>3. BroadcastsTo(c) = Reached(stack, c)
      BY DEF BroadcastsTo, Reached
    <3>4. DownOf(c) = IF Reached(stack, c) = {} THEN down[c]
                       ELSE Append(down[c], (CHOOSE frame \in Reached(stack, c) : TRUE).msg)
      BY <3>3 DEF DownOf
    <3> QED
      BY <3>1, <3>2, <3>4
  <2>3. \A c \in Clients : IsSending(c) <=> c \in senders
    BY <1>1 DEF SeenIn, IsSending
  <2> QED
    BY <2>1, <2>2, <2>3 DEF Seen, UpHat, DownHat, AnticipatedHat, BufferHat, AckHat,
                            UpSeen, DownSeen
<1>2. ASSUME SeenIn(stack', senders, served, msg, to) PROVE Seen(senders, served, msg, to)'
  <2>1. ASSUME NEW c \in Clients PROVE UpOf(c)' = UpSeen(up', served)[c]
    <3>1. UpSeen(up', served)[c] = IF served # <<>> /\ served[1].client_id = c
                                   THEN served \o up'[c] ELSE up'[c]
      BY DEF UpSeen
    <3>2. IF stack' # <<>> /\ Head(stack').call = "ot_server_receive"
               /\ Head(stack').msg.client_id = c
            THEN served = <<Head(stack').msg>>
            ELSE ~(served # <<>> /\ served[1].client_id = c)
      BY <1>2 DEF SeenIn
    <3>3. CASE stack' # <<>> /\ Head(stack').call = "ot_server_receive"
               /\ Head(stack').msg.client_id = c
      <4>1. served = <<Head(stack').msg>>
        BY <3>2, <3>3
      <4>2. served # <<>> /\ served[1] = Head(stack').msg
        BY <4>1
      <4>3. UpOf(c)' = <<Head(stack').msg>> \o up'[c]
        BY <3>3 DEF UpOf, Runs, Top
      <4> QED
        BY <3>1, <3>3, <4>1, <4>2, <4>3
    <3>4. CASE ~(stack' # <<>> /\ Head(stack').call = "ot_server_receive"
                 /\ Head(stack').msg.client_id = c)
      <4>1. UpOf(c)' = up'[c]
        BY <3>4 DEF UpOf, Runs, Top
      <4> QED
        BY <3>1, <3>2, <3>4, <4>1
    <3> QED
      BY <3>3, <3>4
  <2>2. ASSUME NEW c \in Clients PROVE DownOf(c)' = DownSeen(down', msg, to)[c]
    <3>1. DownSeen(down', msg, to)[c] = IF c \in to THEN Append(down'[c], msg) ELSE down'[c]
      BY DEF DownSeen
    <3>2. IF Reached(stack', c) = {} THEN c \notin to
          ELSE c \in to /\ (CHOOSE frame \in Reached(stack', c) : TRUE).msg = msg
      BY <1>2 DEF SeenIn
    <3>3. BroadcastsTo(c)' = Reached(stack', c)
      BY DEF BroadcastsTo, Reached
    <3>4. DownOf(c)' = IF Reached(stack', c) = {} THEN down'[c]
                       ELSE Append(down'[c], (CHOOSE frame \in Reached(stack', c) : TRUE).msg)
      BY <3>3 DEF DownOf
    <3> QED
      BY <3>1, <3>2, <3>4
  <2>3. \A c \in Clients : IsSending(c)' <=> c \in senders
    BY <1>2 DEF SeenIn, IsSending
  <2> QED
    BY <2>1, <2>2, <2>3 DEF Seen, UpHat, DownHat, AnticipatedHat, BufferHat, AckHat,
                            UpSeen, DownSeen
<1> QED
  BY <1>1, <1>2

LEMMA SendingFrame ==
  ASSUME NEW c
  PROVE  Sending(c).call = "send_buffer" /\ Sending(c).client = c
  BY DEF Sending

LEMMA ServingFrame ==
  ASSUME NEW m
  PROVE  Serving(m).call = "ot_server_receive" /\ Serving(m).msg = m
  BY DEF Serving

LEMMA BroadcastingFrame ==
  ASSUME NEW msg, NEW to
  PROVE  /\ Broadcasting(msg, to).call = "server_send"
         /\ Broadcasting(msg, to).msg = msg /\ Broadcasting(msg, to).to = to
  BY DEF Broadcasting

LEMMA NoCall == ToSet(<<>>) = {}
  BY DEF ToSet

LEMMA OneCall ==
  ASSUME NEW x
  PROVE  /\ ToSet(<<x>>) = {x} /\ <<x>> # <<>> /\ <<x>>[1] = x
         /\ Head(<<x>>) = x /\ Tail(<<x>>) = <<>>
         /\ <<x>> \o <<>> = <<x>> /\ <<>> \o <<x>> = <<x>>
<1>1. DOMAIN <<x>> = {1} /\ <<x>>[1] = x
  OBVIOUS
<1>2. ToSet(<<x>>) = {x}
  BY <1>1 DEF ToSet
<1>3. <<x>> # <<>> /\ Head(<<x>>) = x /\ Tail(<<x>>) = <<>>
  OBVIOUS
<1>4. <<x>> \o <<>> = <<x>> /\ <<>> \o <<x>> = <<x>>
  <2>1. <<x>> \in Seq({x})
    OBVIOUS
  <2> QED
    BY <2>1, ConcatEmptySeq
<1> QED
  BY <1>1, <1>2, <1>3, <1>4

LEMMA TwoCalls ==
  ASSUME NEW x, NEW y
  PROVE  /\ ToSet(<<x, y>>) = {x, y} /\ <<x, y>> # <<>>
         /\ Head(<<x, y>>) = x /\ Tail(<<x, y>>) = <<y>>
         /\ <<x, y>> \o <<>> = <<x, y>> /\ <<x>> \o <<y>> = <<x, y>>
<1>1. DOMAIN <<x, y>> = {1, 2} /\ <<x, y>>[1] = x /\ <<x, y>>[2] = y
  OBVIOUS
<1>2. ToSet(<<x, y>>) = {x, y}
  BY <1>1 DEF ToSet
<1>3. <<x, y>> # <<>> /\ Head(<<x, y>>) = x /\ Tail(<<x, y>>) = <<y>>
  OBVIOUS
<1> DEFINE S == {x, y}
<1>4. <<x>> \in Seq(S) /\ <<y>> \in Seq(S) /\ <<x, y>> \in Seq(S)
  OBVIOUS
<1>5. <<x, y>> \o <<>> = <<x, y>>
  BY <1>4, ConcatEmptySeq
<1>6. <<x>> \o <<y>> = <<x, y>>
  <2> DEFINE t == <<x>> \o <<y>>
  <2>1. /\ t \in Seq(S) /\ Len(t) = Len(<<x>>) + Len(<<y>>)
        /\ \A i \in 1..(Len(<<x>>) + Len(<<y>>)) :
             t[i] = IF i <= Len(<<x>>) THEN <<x>>[i] ELSE <<y>>[i - Len(<<x>>)]
    BY <1>4, ConcatProperties
  <2>2. Len(<<x>>) = 1 /\ Len(<<y>>) = 1 /\ <<x>>[1] = x /\ <<y>>[1] = y /\ Len(<<x, y>>) = 2
    OBVIOUS
  <2> HIDE DEF t
  <2>3. Len(t) = 2 /\ t[1] = x /\ t[2] = y
    BY <2>1, <2>2
  <2>4. \A i \in 1..2 : t[i] = <<x, y>>[i]
    BY <2>3, <1>1
  <2>5. t = <<x, y>>
    BY <1>4, <2>1, <2>2, <2>3, <2>4, SeqEqual
  <2> QED
    BY <2>5 DEF t
<1> QED
  BY <1>2, <1>3, <1>5, <1>6

Served(calls) ==
  IF calls # <<>> /\ Head(calls).call = "ot_server_receive" THEN <<Head(calls).msg>> ELSE <<>>

LEMMA ServedFirst ==
  ASSUME NEW calls, NEW c
  PROVE  IF calls # <<>> /\ Head(calls).call = "ot_server_receive" /\ Head(calls).msg.client_id = c
           THEN Served(calls) = <<Head(calls).msg>>
           ELSE ~(Served(calls) # <<>> /\ Served(calls)[1].client_id = c)
<1>1. CASE calls # <<>> /\ Head(calls).call = "ot_server_receive"
  <2>1. Served(calls) = <<Head(calls).msg>>
    BY <1>1 DEF Served
  <2>2. Served(calls)[1] = Head(calls).msg
    BY <2>1
  <2> QED
    BY <1>1, <2>1, <2>2
<1>2. CASE ~(calls # <<>> /\ Head(calls).call = "ot_server_receive")
  BY <1>2 DEF Served
<1> QED
  BY <1>1, <1>2

LEMMA SeenWithoutBroadcast ==
  ASSUME NEW calls, NEW senders,
         \A c : Sending(c) \in ToSet(calls) <=> c \in senders,
         \A frame \in ToSet(calls) : frame.call # "server_send"
  PROVE  SeenIn(calls, senders, Served(calls), NULL, {})
<1>1. \A c : Reached(calls, c) = {}
  BY DEF Reached
<1> QED
  BY <1>1, ServedFirst DEF SeenIn

LEMMA SeenWithBroadcast ==
  ASSUME NEW calls, NEW senders, NEW msg, NEW to,
         \A c : Sending(c) \in ToSet(calls) <=> c \in senders,
         Broadcasting(msg, to) \in ToSet(calls),
         \A frame \in ToSet(calls) : frame.call = "server_send" => frame = Broadcasting(msg, to)
  PROVE  SeenIn(calls, senders, Served(calls), msg, ToSet(to))
<1>1. ASSUME NEW c
      PROVE  IF Reached(calls, c) = {} THEN c \notin ToSet(to)
             ELSE c \in ToSet(to) /\ (CHOOSE frame \in Reached(calls, c) : TRUE).msg = msg
  <2>1. Reached(calls, c) = IF c \in ToSet(to) THEN {Broadcasting(msg, to)} ELSE {}
    BY BroadcastingFrame DEF Reached
  <2> QED
    BY <2>1, BroadcastingFrame
<1> QED
  BY <1>1, ServedFirst DEF SeenIn

\* The stacks there are.
LEMMA SeenIdle == SeenIn(<<>>, {}, <<>>, NULL, {})
<1>1. Served(<<>>) = <<>>
  BY DEF Served
<1> QED
  BY <1>1, NoCall, SeenWithoutBroadcast

LEMMA SeenServing ==
  ASSUME NEW m
  PROVE  SeenIn(<<Serving(m)>>, {}, <<m>>, NULL, {})
<1> DEFINE calls == <<Serving(m)>>
<1>1. ToSet(calls) = {Serving(m)} /\ calls # <<>> /\ Head(calls) = Serving(m)
  BY OneCall
<1> HIDE DEF calls
<1>2. Served(calls) = <<m>>
  BY <1>1, SendingFrame, ServingFrame DEF Served
<1>3. /\ \A c : Sending(c) \in ToSet(calls) <=> c \in {}
      /\ \A frame \in ToSet(calls) : frame.call # "server_send"
  BY <1>1, SendingFrame, ServingFrame
<1>4. SeenIn(calls, {}, Served(calls), NULL, {})
  BY <1>3, SeenWithoutBroadcast
<1> QED
  BY <1>2, <1>4 DEF calls

LEMMA SeenBroadcasting ==
  ASSUME NEW msg, NEW to
  PROVE  SeenIn(<<Broadcasting(msg, to)>>, {}, <<>>, msg, ToSet(to))
<1> DEFINE calls == <<Broadcasting(msg, to)>>
<1>1. ToSet(calls) = {Broadcasting(msg, to)} /\ calls # <<>> /\ Head(calls) = Broadcasting(msg, to)
  BY OneCall
<1> HIDE DEF calls
<1>2. Served(calls) = <<>>
  BY <1>1, BroadcastingFrame, SendingFrame DEF Served
<1>3. /\ \A c : Sending(c) \in ToSet(calls) <=> c \in {}
      /\ Broadcasting(msg, to) \in ToSet(calls)
      /\ \A frame \in ToSet(calls) : frame.call = "server_send" => frame = Broadcasting(msg, to)
  BY <1>1, BroadcastingFrame, SendingFrame
<1>4. SeenIn(calls, {}, Served(calls), msg, ToSet(to))
  BY <1>3, SeenWithBroadcast
<1> QED
  BY <1>2, <1>4 DEF calls

LEMMA SeenSending ==
  ASSUME NEW k
  PROVE  SeenIn(<<Sending(k)>>, {k}, <<>>, NULL, {})
<1> DEFINE calls == <<Sending(k)>>
<1>1. ToSet(calls) = {Sending(k)} /\ calls # <<>> /\ Head(calls) = Sending(k)
  BY OneCall
<1> HIDE DEF calls
<1>2. Served(calls) = <<>>
  BY <1>1, SendingFrame DEF Served
<1>3. /\ \A c : Sending(c) \in ToSet(calls) <=> c \in {k}
      /\ \A frame \in ToSet(calls) : frame.call # "server_send"
  BY <1>1, SendingFrame
<1>4. SeenIn(calls, {k}, Served(calls), NULL, {})
  BY <1>3, SeenWithoutBroadcast
<1> QED
  BY <1>2, <1>4 DEF calls

LEMMA SeenSendingCalled ==
  ASSUME NEW k, NEW msg, NEW to
  PROVE  SeenIn(<<Sending(k), Broadcasting(msg, to)>>, {k}, <<>>, msg, ToSet(to))
<1> DEFINE calls == <<Sending(k), Broadcasting(msg, to)>>
<1>1. ToSet(calls) = {Sending(k), Broadcasting(msg, to)} /\ calls # <<>> /\ Head(calls) = Sending(k)
  BY TwoCalls
<1> HIDE DEF calls
<1>2. Served(calls) = <<>>
  BY <1>1, BroadcastingFrame, SendingFrame DEF Served
<1>3. /\ \A c : Sending(c) \in ToSet(calls) <=> c \in {k}
      /\ Broadcasting(msg, to) \in ToSet(calls)
      /\ \A frame \in ToSet(calls) : frame.call = "server_send" => frame = Broadcasting(msg, to)
  BY <1>1, BroadcastingFrame, SendingFrame
<1>4. SeenIn(calls, {k}, Served(calls), msg, ToSet(to))
  BY <1>3, SeenWithBroadcast
<1> QED
  BY <1>2, <1>4 DEF calls

LEMMA SeenServed ==
  ASSUME NEW k, NEW m
  PROVE  SeenIn(<<Serving(m), Sending(k)>>, {k}, <<m>>, NULL, {})
<1> DEFINE calls == <<Serving(m), Sending(k)>>
<1>1. ToSet(calls) = {Serving(m), Sending(k)} /\ calls # <<>> /\ Head(calls) = Serving(m)
  BY TwoCalls
<1> HIDE DEF calls
<1>2. Served(calls) = <<m>>
  BY <1>1, SendingFrame, ServingFrame DEF Served
<1>3. /\ \A c : Sending(c) \in ToSet(calls) <=> c \in {k}
      /\ \A frame \in ToSet(calls) : frame.call # "server_send"
  BY <1>1, SendingFrame, ServingFrame
<1>4. SeenIn(calls, {k}, Served(calls), NULL, {})
  BY <1>3, SeenWithoutBroadcast
<1> QED
  BY <1>2, <1>4 DEF calls

LEMMA SeenAnswered ==
  ASSUME NEW k, NEW msg, NEW to
  PROVE  SeenIn(<<Broadcasting(msg, to), Sending(k)>>, {k}, <<>>, msg, ToSet(to))
<1> DEFINE calls == <<Broadcasting(msg, to), Sending(k)>>
<1>1. /\ ToSet(calls) = {Broadcasting(msg, to), Sending(k)} /\ calls # <<>>
      /\ Head(calls) = Broadcasting(msg, to)
  BY TwoCalls
<1> HIDE DEF calls
<1>2. Served(calls) = <<>>
  BY <1>1, BroadcastingFrame, SendingFrame DEF Served
<1>3. /\ \A c : Sending(c) \in ToSet(calls) <=> c \in {k}
      /\ Broadcasting(msg, to) \in ToSet(calls)
      /\ \A frame \in ToSet(calls) : frame.call = "server_send" => frame = Broadcasting(msg, to)
  BY <1>1, BroadcastingFrame, SendingFrame
<1>4. SeenIn(calls, {k}, Served(calls), msg, ToSet(to))
  BY <1>3, SeenWithBroadcast
<1> QED
  BY <1>2, <1>4 DEF calls

-----------------------------------------------------------------------------
(***************************************************************************)
(* The stack in an application with a queue on one side.  The client or    *)
(* the server that hands over directly has nothing in its queues, a        *)
(* broadcast calls every client once, and at most one client is sending:   *)
(* one that is called by the broadcast under way, and is not called by it  *)
(* again, or the one that called the server.                               *)
(***************************************************************************)
Once(to) == to \in Seq(Clients) /\ \A i, j \in DOMAIN to : to[i] = to[j] => i = j

InCalls ==
  \/ stack = <<>>
  \/ ~ClientDirect /\ \E m : m.client_id \in Clients /\ stack = <<Serving(m)>>
  \/ ~ServerDirect /\ \E msg : stack = <<Broadcasting(msg, Callers)>>
  \/ ServerDirect /\ \E msg, to : Once(to) /\ stack = <<Broadcasting(msg, to)>>
  \/ \E c \in Clients : stack = <<Sending(c)>>
  \/ ServerDirect /\ \E c \in Clients : \E msg, to :
       Once(to) /\ c \notin ToSet(to) /\ stack = <<Sending(c), Broadcasting(msg, to)>>
  \/ ClientDirect /\ \E c \in Clients : \E m :
       m.client_id = c /\ stack = <<Serving(m), Sending(c)>>
  \/ ClientDirect /\ \E c \in Clients : \E msg :
       stack = <<Broadcasting(msg, Callers), Sending(c)>>

Queues ==
  /\ ~(ClientDirect /\ ServerDirect)
  /\ ClientDirect => \A c \in Clients : up[c] = <<>>
  /\ ServerDirect => \A c \in Clients : down[c] = <<>>

Domains ==
  /\ Clients = DOMAIN up /\ Clients = DOMAIN down
  /\ Clients = DOMAIN ack_required /\ Clients = DOMAIN anticipated /\ Clients = DOMAIN buffer

\* Whatever a client holds back or sends carries its client_id.
Signed(c) ==
  /\ buffer[c] # NULL => buffer[c].client_id = c
  /\ IsSequence(up[c]) /\ \A i \in DOMAIN up[c] : up[c][i].client_id = c

DirectInv == InCalls /\ Queues /\ Domains /\ \A c \in Clients : Signed(c)

LEMMA CallersAreTheClients == Once(Callers) /\ ToSet(Callers) = Clients
<1> DEFINE N == Cardinality(Clients)
           P(f) == f \in [1..N -> Clients] /\ IsInjective(f)
<1>1. IsFiniteSet(Clients)
  BY ApplicationsAssumption
<1>2. N \in Nat /\ ExistsBijection(1..N, Clients)
  BY <1>1, FS_CardinalityType
<1>3. PICK g : g \in Bijection(1..N, Clients)
  BY <1>2 DEF ExistsBijection
<1>4. g \in [1..N -> Clients] /\ IsInjective(g)
  BY <1>3 DEF Bijection, Injection
<1>5. Callers \in [1..N -> Clients] /\ IsInjective(Callers)
  BY <1>4 DEF Callers, SetToSeq
<1>6. Once(Callers)
  BY <1>2, <1>5 DEF Once, IsInjective
<1>7. Callers \in Surjection(1..N, Clients)
  <2>1. Callers \in Injection(1..N, Clients)
    BY <1>5 DEF Injection
  <2>2. Cardinality(1..N) = N /\ IsFiniteSet(1..N)
    BY <1>2, FS_Interval
  <2> QED
    BY <2>1, <2>2, <1>1, FS_Injection
<1>8. ToSet(Callers) = Clients
  BY <1>5, <1>7 DEF Surjection, ToSet
<1> QED
  BY <1>6, <1>8

-----------------------------------------------------------------------------
(***************************************************************************)
(* send_buffer up to client->send is, for everybody else, all of it.  What *)
(* called it, `callers`, is nothing or the rest of a broadcast.            *)
(***************************************************************************)
CalledBy(callers, msg, T) ==
  \/ callers = <<>> /\ T = {}
  \/ ServerDirect /\ \E to : Once(to) /\ callers = <<Broadcasting(msg, to)>> /\ T = ToSet(to)

LEMMA AppendToNothing ==
  ASSUME NEW x
  PROVE  <<x>> \o <<>> = Append(<<>>, x)
  OBVIOUS

LEMMA BeginSendMaps ==
  ASSUME DirectInv, direct' = direct, NEW c \in Clients,
         NEW op, NEW parent, NEW version, NEW callers, NEW msg, NEW T, NEW msg0, NEW T0,
         op.client_id = c, c \notin T, CalledBy(callers, msg, T),
         Seen({}, <<>>, msg0, T0),
         BeginSend(c, op, parent, version, callers),
         anticipated' = anticipated,
         DOMAIN ack_required' = Clients,
         \A k \in Clients : k # c => ack_required'[k] = ack_required[k],
         ServerDirect => \A k \in Clients : down'[k] = <<>>,
         DOMAIN down' = Clients
  PROVE  /\ HatSend(c, Op(op.client_id, parent, op.hash, op.comps), version)
         /\ DownHat' = DownSeen(down', msg, T)
         /\ DirectInv'
<1> DEFINE sent == Op(op.client_id, parent, op.hash, op.comps)
<1>0. /\ Queues /\ Domains /\ \A k \in Clients : Signed(k)
  BY DEF DirectInv
<1>1. /\ buffer' = [buffer EXCEPT ![c] = sent]
      /\ sentAt' = [sentAt EXCEPT ![c] = version]
      /\ \/ /\ ClientDirect
            /\ stack' = <<Serving(sent), Sending(c)>> \o callers
            /\ UNCHANGED up
         \/ /\ ~ClientDirect
            /\ stack' = <<Sending(c)>> \o callers
            /\ up' = [up EXCEPT ![c] = Append(@, sent)]
  BY DEF BeginSend
<1>2. sent.client_id = c /\ sent # NULL
  BY Messages
<1> HIDE DEF sent
<1>3. /\ UpHat = UpSeen(up, <<>>)
      /\ AnticipatedHat = [k \in Clients |-> IF k \in {} THEN ot_dup_op(buffer[k]) ELSE anticipated[k]]
      /\ BufferHat = [k \in Clients |-> IF k \in {} THEN NULL ELSE buffer[k]]
      /\ AckHat = [k \in Clients |-> ack_required[k] \/ k \in {}]
  BY DEF Seen
<1>4. \A k \in Clients : UpHat[k] = up[k]
  BY <1>3 DEF UpSeen
<1>5. ASSUME NEW served, NEW other, Seen({c}, served, other, T)',
             UpSeen(up', served) = [UpHat EXCEPT ![c] = Append(@, sent)]
      PROVE  HatSend(c, sent, version)
  <2>1. /\ UpHat' = UpSeen(up', served)
        /\ AnticipatedHat' = [k \in Clients |-> IF k \in {c} THEN ot_dup_op(buffer'[k]) ELSE anticipated'[k]]
        /\ BufferHat' = [k \in Clients |-> IF k \in {c} THEN NULL ELSE buffer'[k]]
        /\ AckHat' = [k \in Clients |-> ack_required'[k] \/ k \in {c}]
    BY <1>5 DEF Seen
  <2>2. buffer'[c] = sent /\ \A k \in Clients : k # c => buffer'[k] = buffer[k]
    BY <1>0, <1>1 DEF Domains
  <2>3. AnticipatedHat' = [AnticipatedHat EXCEPT ![c] = ot_dup_op(sent)]
    BY <1>3, <2>1, <2>2
  <2>4. BufferHat' = [BufferHat EXCEPT ![c] = NULL]
    BY <1>3, <2>1, <2>2
  <2>5. AckHat' = [AckHat EXCEPT ![c] = TRUE]
    <3>1. \A k \in Clients : k # c => ack_required'[k] = ack_required[k]
      OBVIOUS
    <3>2. \A k \in Clients : AckHat'[k] = [AckHat EXCEPT ![c] = TRUE][k]
      BY <1>3, <2>1, <3>1
    <3>3. AckHat' = [k \in Clients |-> AckHat'[k]]
      BY <2>1
    <3>4. [AckHat EXCEPT ![c] = TRUE] = [k \in Clients |-> [AckHat EXCEPT ![c] = TRUE][k]]
      BY <1>3
    <3> QED
      BY <3>2, <3>3, <3>4
  <2> QED
    BY <1>1, <1>5, <2>1, <2>3, <2>4, <2>5 DEF HatSend
<1>6. Domains'
  BY <1>0, <1>1 DEF Domains
<1>7. ASSUME NEW k \in Clients PROVE Signed(k)'
  <2>1. Signed(k)
    BY <1>0
  <2>2. buffer'[k] = IF k = c THEN sent ELSE buffer[k]
    BY <1>0, <1>1 DEF Domains
  <2>3. up'[k] = up[k] \/ (k = c /\ up'[k] = Append(up[k], sent))
    BY <1>0, <1>1 DEF Domains
  <2>4. /\ IsSequence(up[k])
        /\ IsSequence(Append(up[k], sent))
        /\ DOMAIN up[k] = 1..Len(up[k]) /\ Len(up[k]) \in Nat
        /\ DOMAIN Append(up[k], sent) = 1..(Len(up[k]) + 1)
        /\ \A i \in 1..Len(up[k]) : Append(up[k], sent)[i] = up[k][i]
        /\ Append(up[k], sent)[Len(up[k]) + 1] = sent
    BY <2>1, AppendedSequence DEF Signed
  <2>5. k = c => \A i \in DOMAIN Append(up[k], sent) : Append(up[k], sent)[i].client_id = k
    BY <1>2, <2>1, <2>4 DEF Signed
  <2> QED
    BY <1>2, <2>1, <2>2, <2>3, <2>4, <2>5 DEF Signed
<1>8. CASE ClientDirect
  <2>1. callers = <<>> /\ T = {}
    BY <1>0, <1>8 DEF CalledBy, Queues
  <2>2. stack' = <<Serving(sent), Sending(c)>> /\ up' = up
    BY <1>1, <1>8, <2>1, TwoCalls
  <2>3. Seen({c}, <<sent>>, NULL, T)'
    BY <2>1, <2>2, SeenServed, SeenInGives
  <2>4. UpSeen(up', <<sent>>) = [UpHat EXCEPT ![c] = Append(@, sent)]
    <3>1. <<sent>> # <<>> /\ <<sent>>[1] = sent
      OBVIOUS
    <3>2. UpSeen(up', <<sent>>) = [k \in Clients |-> IF k = c THEN <<sent>> \o up[k] ELSE up[k]]
      BY <1>2, <2>2, <3>1 DEF UpSeen
    <3>3. <<sent>> \o up[c] = Append(up[c], sent)
      BY <1>0, <1>8, AppendToNothing DEF Queues
    <3>4. UpHat = [k \in Clients |-> up[k]]
      BY <1>3 DEF UpSeen
    <3> QED
      BY <3>2, <3>3, <3>4
  <2>5. DownHat' = DownSeen(down', msg, T)
    BY <2>1, <2>3 DEF Seen, DownSeen
  <2>6. InCalls'
    BY <1>2, <1>8, <2>2 DEF InCalls, ClientDirect
  <2>7. Queues'
    BY <1>0, <1>8, <2>2 DEF Queues, ClientDirect, ServerDirect
  <2> QED
    BY <1>5, <1>6, <1>7, <2>3, <2>4, <2>5, <2>6, <2>7 DEF DirectInv, sent
<1>9. CASE ~ClientDirect
  <2>1. stack' = <<Sending(c)>> \o callers /\ up' = [up EXCEPT ![c] = Append(@, sent)]
    BY <1>1, <1>9
  <2>2. PICK other : /\ Seen({c}, <<>>, other, T)'
                     /\ DownSeen(down', other, T) = DownSeen(down', msg, T)
                     /\ InCalls'
    <3>1. CASE callers = <<>> /\ T = {}
      <4>1. stack' = <<Sending(c)>>
        BY <2>1, <3>1, OneCall
      <4>2. Seen({c}, <<>>, NULL, T)'
        BY <3>1, <4>1, SeenSending, SeenInGives
      <4>3. DownSeen(down', NULL, T) = DownSeen(down', msg, T)
        BY <3>1 DEF DownSeen
      <4>4. InCalls'
        BY <4>1 DEF InCalls
      <4> QED
        BY <4>2, <4>3, <4>4
    <3>2. ASSUME ServerDirect, NEW to, Once(to), callers = <<Broadcasting(msg, to)>>, T = ToSet(to)
          PROVE  /\ Seen({c}, <<>>, msg, T)'
                 /\ InCalls'
      <4>1. stack' = <<Sending(c), Broadcasting(msg, to)>>
        BY <2>1, <3>2, TwoCalls
      <4>2. Seen({c}, <<>>, msg, T)'
        BY <3>2, <4>1, SeenSendingCalled, SeenInGives
      <4>3. InCalls'
        BY <3>2, <4>1 DEF InCalls, ServerDirect
      <4> QED
        BY <4>2, <4>3
    <3> QED
      BY <3>1, <3>2 DEF CalledBy
  <2>3. UpSeen(up', <<>>) = [UpHat EXCEPT ![c] = Append(@, sent)]
    <3>1. UpHat = [k \in Clients |-> up[k]]
      BY <1>3 DEF UpSeen
    <3>2. UpSeen(up', <<>>) = [k \in Clients |-> up'[k]]
      BY DEF UpSeen
    <3>3. up'[c] = Append(up[c], sent) /\ \A k \in Clients : k # c => up'[k] = up[k]
      BY <1>0, <2>1 DEF Domains
    <3> QED
      BY <3>1, <3>2, <3>3
  <2>4. DownHat' = DownSeen(down', msg, T)
    BY <2>2 DEF Seen
  <2>5. Queues'
    BY <1>0, <1>9 DEF Queues, ClientDirect, ServerDirect
  <2> QED
    BY <1>5, <1>6, <1>7, <2>2, <2>3, <2>4, <2>5 DEF DirectInv, sent
<1> QED
  BY <1>8, <1>9

-----------------------------------------------------------------------------
(***************************************************************************)
(* The application calls ot_client_apply.                                  *)
(***************************************************************************)
LEMMA SignedUnchanged ==
  ASSUME NEW k, Signed(k), buffer'[k] = buffer[k], up'[k] = up[k]
  PROVE  Signed(k)'
  BY DEF Signed

LEMMA IdleSeen ==
  /\ stack = <<>> => Seen({}, <<>>, NULL, {})
  /\ stack' = <<>> => Seen({}, <<>>, NULL, {})'
  BY SeenIdle, SeenInGives

LEMMA NothingSeen ==
  ASSUME NEW msg, Seen({}, <<>>, msg, {}), Domains
  PROVE  /\ UpHat = [c \in Clients |-> up[c]]
         /\ DownHat = [c \in Clients |-> down[c]]
         /\ AnticipatedHat = [c \in Clients |-> anticipated[c]]
         /\ BufferHat = [c \in Clients |-> buffer[c]]
         /\ \A c \in Clients : AckHat[c] <=> ack_required[c]
  BY DEF Seen, UpSeen, DownSeen

LEMMA DirectEditMaps ==
  ASSUME DirectInv, direct' = direct, NEW c \in Clients, DirectEdit(c)
  PROVE  DirectInv' /\ Queued!Next
<1>0. /\ Queues /\ Domains /\ \A k \in Clients : Signed(k)
  BY DEF DirectInv
<1>1. stack = <<>> /\ edits[c] < MaxEdits /\ edits' = [edits EXCEPT ![c] = @ + 1]
  BY DEF DirectEdit, Idle
<1>2. PICK comps \in Edits(c, edits[c], TextOf(doc[c])) : Apply(c, comps)
  BY DEF DirectEdit
<1> DEFINE Chosen(r) ==
             \E buffered \in {Buffered(c, r)} :
               /\ doc' = [doc EXCEPT ![c] = r.doc]
               /\ UNCHANGED <<down, seen, ack_required, anticipated, server_doc>>
               /\ \/ /\ buffered = NULL
                     /\ UNCHANGED <<up, buffer, sentAt, stack>>
                  \/ /\ buffered # NULL
                     /\ ack_required[c]
                     /\ buffer' = [buffer EXCEPT ![c] = buffered]
                     /\ UNCHANGED <<up, sentAt, stack>>
                  \/ /\ buffered # NULL
                     /\ ~ack_required[c]
                     /\ BeginSend(c, buffered, buffered.parent, seen[c], <<>>)
<1>3. PICK r \in {ot_doc_append(Opened(doc[c]), Op(c, ZeroHash, ZeroHash, comps))} : Chosen(r)
  BY <1>2 DEF Apply
<1>4. PICK buffered :
        /\ buffered = Buffered(c, r)
        /\ doc' = [doc EXCEPT ![c] = r.doc]
        /\ UNCHANGED <<down, seen, ack_required, anticipated, server_doc>>
        /\ \/ /\ buffered = NULL
              /\ UNCHANGED <<up, buffer, sentAt, stack>>
           \/ /\ buffered # NULL
              /\ ack_required[c]
              /\ buffer' = [buffer EXCEPT ![c] = buffered]
              /\ UNCHANGED <<up, sentAt, stack>>
           \/ /\ buffered # NULL
              /\ ~ack_required[c]
              /\ BeginSend(c, buffered, buffered.parent, seen[c], <<>>)
  BY <1>3
<1> HIDE DEF Chosen
<1>5. Seen({}, <<>>, NULL, {})
  BY <1>1, IdleSeen
<1>6. /\ UpHat = [k \in Clients |-> up[k]]
      /\ DownHat = [k \in Clients |-> down[k]]
      /\ AnticipatedHat = [k \in Clients |-> anticipated[k]]
      /\ BufferHat = [k \in Clients |-> buffer[k]]
      /\ AckHat[c] <=> ack_required[c]
  BY <1>0, <1>5, NothingSeen
<1>7. buffered # NULL => buffered.client_id = c
  <2>1. Op(c, ZeroHash, ZeroHash, comps).client_id = c
    BY Messages
  <2>2. buffer[c] # NULL => buffer[c].client_id = c
    BY <1>0 DEF Signed
  <2> QED
    BY <1>3, <1>4, <2>1, <2>2, BufferedResult
<1>8. buffered = IF r.err # "none" THEN NULL ELSE IF BufferHat[c] = NULL THEN ot_dup_op(r.op)
                 ELSE ot_compose(BufferHat[c], r.op)
  BY <1>4, <1>6 DEF Buffered
<1>9. DirectInv' /\ HatApplied(c, r, buffered)
  <2>1. CASE buffered = NULL
    <3>1. UNCHANGED <<up, down, ack_required, anticipated, buffer, sentAt, seen, stack>>
      BY <1>4, <2>1
    <3>2. Seen({}, <<>>, NULL, {})'
      BY <1>1, <3>1, IdleSeen
    <3>3. UNCHANGED <<UpHat, DownHat, AnticipatedHat, BufferHat, AckHat>>
      BY <1>5, <3>1, <3>2 DEF Seen
    <3>4. DirectInv'
      BY <1>0, <1>1, <3>1, SignedUnchanged
         DEF DirectInv, InCalls, Queues, Domains, ClientDirect, ServerDirect
    <3> QED
      BY <1>4, <2>1, <3>1, <3>3, <3>4 DEF HatApplied
  <2>2. CASE buffered # NULL /\ ack_required[c]
    <3>1. /\ UNCHANGED <<up, down, ack_required, anticipated, sentAt, seen, stack>>
          /\ buffer' = [buffer EXCEPT ![c] = buffered]
      BY <1>4, <2>2
    <3>2. Seen({}, <<>>, NULL, {})'
      BY <1>1, <3>1, IdleSeen
    <3>3. UNCHANGED <<UpHat, DownHat, AnticipatedHat, AckHat>>
      BY <1>5, <3>1, <3>2 DEF Seen, UpSeen, DownSeen
    <3>4. BufferHat' = [BufferHat EXCEPT ![c] = buffered]
      <4>1. BufferHat' = [k \in Clients |-> buffer'[k]]
        BY <3>2 DEF Seen
      <4>2. buffer'[c] = buffered /\ \A k \in Clients : k # c => buffer'[k] = buffer[k]
        BY <1>0, <3>1 DEF Domains
      <4> QED
        BY <1>6, <4>1, <4>2
    <3>5. \A k \in Clients : Signed(k)'
      BY <1>0, <1>7, <2>2, <3>1 DEF Signed, Domains
    <3>6. DirectInv'
      BY <1>0, <1>1, <3>1, <3>5
         DEF DirectInv, InCalls, Queues, Domains, ClientDirect, ServerDirect
    <3> QED
      BY <1>4, <1>6, <2>2, <3>1, <3>3, <3>4, <3>6 DEF HatApplied
  <2>3. CASE buffered # NULL /\ ~ack_required[c]
    <3>1. PICK version : version = seen[c]
      OBVIOUS
    <3>2. /\ UNCHANGED <<down, seen, ack_required, anticipated>>
          /\ BeginSend(c, buffered, buffered.parent, seen[c], <<>>)
      BY <1>4, <2>3
    <3>3. BeginSend(c, buffered, buffered.parent, version, <<>>)
      BY <3>1, <3>2 DEF BeginSend
    <3>4. CalledBy(<<>>, NULL, {}) /\ c \notin {}
      BY DEF CalledBy
    <3>5. /\ ServerDirect => \A k \in Clients : down'[k] = <<>>
          /\ DOMAIN ack_required' = Clients /\ DOMAIN down' = Clients
          /\ \A k \in Clients : k # c => ack_required'[k] = ack_required[k]
      BY <1>0, <3>2 DEF Queues, Domains
    <3>6. /\ HatSend(c, Op(buffered.client_id, buffered.parent, buffered.hash, buffered.comps),
                     version)
          /\ DownHat' = DownSeen(down', NULL, {})
          /\ DirectInv'
      BY <1>5, <1>7, <2>3, <3>2, <3>3, <3>4, <3>5, BeginSendMaps
    <3>7. DownHat' = DownHat
      BY <1>5, <3>2, <3>6 DEF Seen
    <3>8. HatSend(c, Op(buffered.client_id, buffered.parent, buffered.hash, buffered.comps),
                  seen[c])
      BY <3>1, <3>6 DEF HatSend
    <3> QED
      BY <1>4, <1>6, <2>3, <3>2, <3>6, <3>7, <3>8 DEF HatApplied
  <2> QED
    BY <2>1, <2>2, <2>3
<1>10. HatApply(c, comps)
  BY <1>3, <1>8, <1>9 DEF HatApply
<1> QED
  BY <1>1, <1>4, <1>9, <1>10, QueuedEdit

-----------------------------------------------------------------------------
(***************************************************************************)
(* ot_client_receive, called by the application or by a broadcast.         *)
(***************************************************************************)
LEMMA BackToCallers ==
  ASSUME NEW callers, NEW msg, NEW T, CalledBy(callers, msg, T),
         stack' = callers, direct' = direct
  PROVE  Seen({}, <<>>, msg, T)' /\ InCalls'
<1>1. CASE callers = <<>> /\ T = {}
  <2>1. Seen({}, <<>>, NULL, {})'
    BY <1>1, IdleSeen
  <2>2. DownSeen(down', NULL, {}) = DownSeen(down', msg, {})
    BY DEF DownSeen
  <2>3. InCalls'
    BY <1>1 DEF InCalls
  <2> QED
    BY <1>1, <2>1, <2>2, <2>3 DEF Seen
<1>2. ASSUME ServerDirect, NEW to, Once(to), callers = <<Broadcasting(msg, to)>>, T = ToSet(to)
      PROVE  Seen({}, <<>>, msg, T)' /\ InCalls'
  <2>1. stack' = <<Broadcasting(msg, to)>>
    BY <1>2
  <2>2. Seen({}, <<>>, msg, T)'
    BY <1>2, <2>1, SeenBroadcasting, SeenInGives
  <2>3. InCalls'
    BY <1>2, <2>1 DEF InCalls, ServerDirect
  <2> QED
    BY <2>2, <2>3
<1> QED
  BY <1>1, <1>2 DEF CalledBy

LEMMA ReceiveMaps ==
  ASSUME DirectInv, direct' = direct, NEW c \in Clients,
         NEW callers, NEW msg, NEW T, NEW msg0, NEW T0, NEW received,
         Seen({}, <<>>, msg0, T0), CalledBy(callers, msg, T), c \notin T,
         DownHat[c] # <<>>, received = Head(DownHat[c]),
         Receive(c, received, callers),
         DownSeen(down', msg, T) = [DownHat EXCEPT ![c] = Tail(@)],
         DOMAIN down' = Clients,
         ServerDirect => \A k \in Clients : down'[k] = <<>>,
         UNCHANGED <<server_doc, edits>>
  PROVE  DirectInv' /\ Queued!Next
<1>0. /\ Queues /\ Domains /\ \A k \in Clients : Signed(k)
  BY DEF DirectInv
<1>1. /\ UpHat = UpSeen(up, <<>>)
      /\ AnticipatedHat = [k \in Clients |-> IF k \in {} THEN ot_dup_op(buffer[k]) ELSE anticipated[k]]
      /\ BufferHat = [k \in Clients |-> IF k \in {} THEN NULL ELSE buffer[k]]
      /\ AckHat = [k \in Clients |-> ack_required[k] \/ k \in {}]
  BY DEF Seen
<1>2. AnticipatedHat[c] = anticipated[c] /\ BufferHat[c] = buffer[c]
  BY <1>1
<1>3. ASSUME stack' = callers, up' = up,
             Clients = DOMAIN ack_required', Clients = DOMAIN anticipated',
             Clients = DOMAIN buffer',
             \A k \in Clients : buffer'[k] # NULL => buffer'[k].client_id = k
      PROVE  /\ UpHat' = UpHat
             /\ AnticipatedHat' = [k \in Clients |-> anticipated'[k]]
             /\ BufferHat' = [k \in Clients |-> buffer'[k]]
             /\ AckHat' = [k \in Clients |-> ack_required'[k] \/ k \in {}]
             /\ DownHat' = [DownHat EXCEPT ![c] = Tail(@)]
             /\ DirectInv'
  <2>1. Seen({}, <<>>, msg, T)' /\ InCalls'
    BY <1>3, BackToCallers
  <2>2. /\ UpHat' = UpSeen(up', <<>>)
        /\ AnticipatedHat' = [k \in Clients |-> IF k \in {} THEN ot_dup_op(buffer'[k]) ELSE anticipated'[k]]
        /\ BufferHat' = [k \in Clients |-> IF k \in {} THEN NULL ELSE buffer'[k]]
        /\ AckHat' = [k \in Clients |-> ack_required'[k] \/ k \in {}]
        /\ DownHat' = DownSeen(down', msg, T)
    BY <2>1 DEF Seen
  <2>3. UpHat' = UpHat
    BY <1>1, <1>3, <2>2
  <2>4. Queues' /\ Domains'
    BY <1>0, <1>3 DEF Queues, Domains, ClientDirect, ServerDirect
  <2>5. \A k \in Clients : Signed(k)'
    BY <1>0, <1>3 DEF Signed
  <2> QED
    BY <2>1, <2>2, <2>3, <2>4, <2>5 DEF DirectInv
<1>4. CASE IsError(received) /\ stack' = callers /\ UNCHANGED <<up, clientVars>>
  <2>1. UNCHANGED <<up, doc, ack_required, anticipated, buffer, seen, sentAt>>
    BY <1>4 DEF clientVars
  <2>2. \A k \in Clients : buffer'[k] # NULL => buffer'[k].client_id = k
    BY <1>0, <2>1 DEF Signed
  <2>3. /\ UpHat' = UpHat
        /\ AnticipatedHat' = [k \in Clients |-> anticipated'[k]]
        /\ BufferHat' = [k \in Clients |-> buffer'[k]]
        /\ AckHat' = [k \in Clients |-> ack_required'[k] \/ k \in {}]
        /\ DownHat' = [DownHat EXCEPT ![c] = Tail(@)]
        /\ DirectInv'
    BY <1>0, <1>3, <1>4, <2>1, <2>2 DEF Domains
  <2>4. UNCHANGED <<UpHat, AckHat, AnticipatedHat, BufferHat, doc, seen, sentAt,
                    server_doc, edits>>
    BY <1>1, <2>1, <2>3
  <2> QED
    BY <1>4, <2>3, <2>4, QueuedReceiveError
<1>5. CASE IsOwn(c, received) /\ Acknowledge(c, received.hash, callers)
  <2>1. /\ seen' = [seen EXCEPT ![c] = @ + 1] /\ UNCHANGED doc
        /\ ack_required' = [ack_required EXCEPT ![c] = FALSE]
    BY <1>5 DEF Acknowledge
  <2>2. CASE /\ buffer[c] = NULL
             /\ anticipated' = [anticipated EXCEPT ![c] = NULL]
             /\ stack' = callers
             /\ UNCHANGED <<up, buffer, sentAt>>
    <3>1. \A k \in Clients : buffer'[k] # NULL => buffer'[k].client_id = k
      BY <1>0, <2>2 DEF Signed
    <3>2. /\ UpHat' = UpHat
          /\ AnticipatedHat' = [k \in Clients |-> anticipated'[k]]
          /\ BufferHat' = [k \in Clients |-> buffer'[k]]
          /\ AckHat' = [k \in Clients |-> ack_required'[k] \/ k \in {}]
          /\ DownHat' = [DownHat EXCEPT ![c] = Tail(@)]
          /\ DirectInv'
      BY <1>0, <1>3, <2>1, <2>2, <3>1 DEF Domains
    <3>3. AckHat' = [AckHat EXCEPT ![c] = FALSE]
      <4>1. /\ ack_required'[c] = FALSE
            /\ \A k \in Clients : k # c => ack_required'[k] = ack_required[k]
        BY <1>0, <2>1 DEF Domains
      <4> QED
        BY <1>1, <3>2, <4>1
    <3>4. AnticipatedHat' = [AnticipatedHat EXCEPT ![c] = NULL]
      <4>1. anticipated'[c] = NULL /\ \A k \in Clients : k # c => anticipated'[k] = anticipated[k]
        BY <1>0, <2>2 DEF Domains
      <4> QED
        BY <1>1, <3>2, <4>1
    <3>5. BufferHat' = BufferHat
      BY <1>1, <2>2, <3>2
    <3> QED
      BY <1>2, <1>5, <2>1, <2>2, <3>2, <3>3, <3>4, <3>5, QueuedReceiveAck
  <2>3. CASE /\ buffer[c] # NULL
             /\ UNCHANGED anticipated
             /\ BeginSend(c, buffer[c], received.hash, seen[c] + 1, callers)
    <3>1. PICK op, version, parent :
            op = buffer[c] /\ version = seen[c] + 1 /\ parent = received.hash
      OBVIOUS
    <3>2. BeginSend(c, op, parent, version, callers)
      BY <2>3, <3>1 DEF BeginSend
    <3>3. op.client_id = c
      BY <1>0, <2>3, <3>1 DEF Signed
    <3>4. /\ DOMAIN ack_required' = Clients
          /\ \A k \in Clients : k # c => ack_required'[k] = ack_required[k]
      BY <1>0, <2>1 DEF Domains
    <3>5. /\ HatSend(c, Op(op.client_id, parent, op.hash, op.comps), version)
          /\ DownHat' = DownSeen(down', msg, T)
          /\ DirectInv'
      BY <2>3, <3>2, <3>3, <3>4, BeginSendMaps
    <3>6. HatSend(c, Op(BufferHat[c].client_id, Head(DownHat[c]).hash,
                        BufferHat[c].hash, BufferHat[c].comps), seen[c] + 1)
      BY <1>2, <3>1, <3>5 DEF HatSend
    <3> QED
      BY <1>2, <1>5, <2>1, <2>3, <3>5, <3>6, QueuedReceiveAck
  <2> QED
    BY <1>5, <2>2, <2>3 DEF Acknowledge
<1>6. CASE /\ ~IsError(received) /\ ~IsOwn(c, received)
           /\ Incoming(c, received)
           /\ seen' = [seen EXCEPT ![c] = @ + 1]
           /\ stack' = callers
           /\ UNCHANGED <<up, ack_required, sentAt>>
  <2>1. PICK first, second :
          /\ first = xform_anticipated(c, received)
          /\ second = xform_buffer(c, first[1])
          /\ anticipated' = [anticipated EXCEPT ![c] = first[2]]
          /\ buffer' = [buffer EXCEPT ![c] = second[1]]
          /\ \/ /\ second[2] = NULL
                /\ UNCHANGED doc
             \/ /\ second[2] # NULL
                /\ doc' = [doc EXCEPT ![c] = ot_doc_append(Opened(doc[c]), second[2]).doc]
    BY <1>6 DEF Incoming
  <2>2. /\ second[1] # NULL <=> buffer[c] # NULL
        /\ buffer[c] # NULL => second[1].client_id = buffer[c].client_id
    BY <2>1, TransformedHeld
  <2>3. \A k \in Clients : buffer'[k] # NULL => buffer'[k].client_id = k
    BY <1>0, <2>1, <2>2 DEF Signed, Domains
  <2>4. /\ UpHat' = UpHat
        /\ AnticipatedHat' = [k \in Clients |-> anticipated'[k]]
        /\ BufferHat' = [k \in Clients |-> buffer'[k]]
        /\ AckHat' = [k \in Clients |-> ack_required'[k] \/ k \in {}]
        /\ DownHat' = [DownHat EXCEPT ![c] = Tail(@)]
        /\ DirectInv'
    <3>1. /\ Clients = DOMAIN ack_required' /\ Clients = DOMAIN anticipated'
          /\ Clients = DOMAIN buffer'
      BY <1>0, <1>6, <2>1 DEF Domains
    <3> QED
      BY <1>3, <1>6, <2>3, <3>1
  <2>5. AckHat' = AckHat
    BY <1>1, <1>6, <2>4
  <2>6. AnticipatedHat' = [AnticipatedHat EXCEPT ![c] = first[2]]
    <3>1. anticipated'[c] = first[2] /\ \A k \in Clients : k # c => anticipated'[k] = anticipated[k]
      BY <1>0, <2>1 DEF Domains
    <3> QED
      BY <1>1, <2>4, <3>1
  <2>7. BufferHat' = [BufferHat EXCEPT ![c] = second[1]]
    <3>1. buffer'[c] = second[1] /\ \A k \in Clients : k # c => buffer'[k] = buffer[k]
      BY <1>0, <2>1, SMTT(40) DEF Domains
    <3> QED
      BY <1>1, <2>4, <3>1
  <2>8. first \in {HatFirst(c, Head(DownHat[c]))} /\ second \in {HatSecond(c, first[1])}
    BY <1>2, <2>1 DEF HatFirst, HatSecond, xform_anticipated, xform_buffer
  <2>9. UNCHANGED <<UpHat, AckHat, sentAt, server_doc, edits>>
    BY <1>6, <2>4, <2>5
  <2>10. ~IsError(Head(DownHat[c])) /\ ~IsOwn(c, Head(DownHat[c]))
    BY <1>6
  <2>11. /\ seen' = [seen EXCEPT ![c] = @ + 1]
         /\ DownHat' = [DownHat EXCEPT ![c] = Tail(@)]
         /\ DirectInv'
    BY <1>6, <2>4
  <2>12. \/ /\ second[2] = NULL
            /\ UNCHANGED doc
         \/ /\ second[2] # NULL
            /\ doc' = [doc EXCEPT ![c] = ot_doc_append(Opened(doc[c]), second[2]).doc]
    BY <2>1, SMTT(40)
  <2>13. Queued!Next
    BY <2>6, <2>7, <2>8, <2>9, <2>10, <2>11, <2>12, QueuedReceiveOp
  <2> QED
    BY <2>11, <2>13
<1> QED
  BY <1>4, <1>5, <1>6 DEF Receive

-----------------------------------------------------------------------------
(***************************************************************************)
(* What is under way when a call goes on.                                  *)
(***************************************************************************)
LEMMA TopOfStack ==
  ASSUME NEW x, NEW y, stack = <<x>> \/ stack = <<x, y>>
  PROVE  /\ Top = x /\ \A call : Runs(call) <=> x.call = call
         /\ stack = <<x>> => Below = <<>>
         /\ stack = <<x, y>> => Below = <<y>>
<1>1. ASSUME stack = <<x>>
      PROVE  Top = x /\ stack # <<>> /\ Below = <<>>
  BY <1>1, OneCall DEF Top, Below
<1>2. ASSUME stack = <<x, y>>
      PROVE  Top = x /\ stack # <<>> /\ Below = <<y>> /\ stack # <<x>>
  <2>1. Head(<<x, y>>) = x /\ Tail(<<x, y>>) = <<y>> /\ <<x, y>> # <<>>
    BY TwoCalls
  <2>2. <<x, y>> # <<x>>
    <3>1. Len(<<x, y>>) = 2 /\ Len(<<x>>) = 1
      OBVIOUS
    <3> QED
      BY <3>1
  <2> QED
    BY <1>2, <2>1, <2>2 DEF Top, Below
<1>3. ASSUME NEW call PROVE Runs(call) <=> Top.call = call
  BY <1>1, <1>2 DEF Runs, Top
<1> QED
  BY <1>1, <1>2, <1>3

LEMMA WhoIsSending ==
  ASSUME InCalls, Runs("send_buffer")
  PROVE  \E c \in Clients :
           \/ stack = <<Sending(c)>>
           \/ ServerDirect /\ \E msg, to :
                Once(to) /\ stack = <<Sending(c), Broadcasting(msg, to)>>
<1>1. stack # <<>>
  BY DEF Runs
<1>2. ASSUME NEW m, stack = <<Serving(m)>> PROVE FALSE
  BY <1>2, TopOfStack, ServingFrame
<1>3. ASSUME NEW msg, NEW to, stack = <<Broadcasting(msg, to)>> PROVE FALSE
  BY <1>3, TopOfStack, BroadcastingFrame
<1>4. ASSUME NEW m, NEW c, stack = <<Serving(m), Sending(c)>> PROVE FALSE
  BY <1>4, TopOfStack, ServingFrame
<1>5. ASSUME NEW msg, NEW to, NEW c, stack = <<Broadcasting(msg, to), Sending(c)>> PROVE FALSE
  BY <1>5, TopOfStack, BroadcastingFrame
<1> QED
  BY <1>1, <1>2, <1>3, <1>4, <1>5 DEF InCalls

LEMMA WhoIsServed ==
  ASSUME InCalls, Runs("ot_server_receive")
  PROVE  \/ ~ClientDirect /\ \E m : m.client_id \in Clients /\ stack = <<Serving(m)>>
         \/ ClientDirect /\ \E c \in Clients : \E m :
              m.client_id = c /\ stack = <<Serving(m), Sending(c)>>
<1>1. stack # <<>>
  BY DEF Runs
<1>2. ASSUME NEW c, stack = <<Sending(c)>> PROVE FALSE
  BY <1>2, TopOfStack, SendingFrame
<1>3. ASSUME NEW msg, NEW to, stack = <<Broadcasting(msg, to)>> PROVE FALSE
  BY <1>3, TopOfStack, BroadcastingFrame
<1>4. ASSUME NEW msg, NEW to, NEW c, stack = <<Sending(c), Broadcasting(msg, to)>> PROVE FALSE
  BY <1>4, TopOfStack, SendingFrame
<1>5. ASSUME NEW msg, NEW to, NEW c, stack = <<Broadcasting(msg, to), Sending(c)>> PROVE FALSE
  BY <1>5, TopOfStack, BroadcastingFrame
<1> QED
  BY <1>1, <1>2, <1>3, <1>4, <1>5 DEF InCalls

LEMMA WhatIsBroadcast ==
  ASSUME InCalls, Runs("server_send")
  PROVE  \/ ~ServerDirect /\ \E msg : stack = <<Broadcasting(msg, Callers)>>
         \/ ServerDirect /\ \E msg, to : Once(to) /\ stack = <<Broadcasting(msg, to)>>
         \/ ClientDirect /\ \E c \in Clients : \E msg :
              stack = <<Broadcasting(msg, Callers), Sending(c)>>
<1>1. stack # <<>>
  BY DEF Runs
<1>2. ASSUME NEW c, stack = <<Sending(c)>> PROVE FALSE
  BY <1>2, TopOfStack, SendingFrame
<1>3. ASSUME NEW m, stack = <<Serving(m)>> PROVE FALSE
  BY <1>3, TopOfStack, ServingFrame
<1>4. ASSUME NEW msg, NEW to, NEW c, stack = <<Sending(c), Broadcasting(msg, to)>> PROVE FALSE
  BY <1>4, TopOfStack, SendingFrame
<1>5. ASSUME NEW m, NEW c, stack = <<Serving(m), Sending(c)>> PROVE FALSE
  BY <1>5, TopOfStack, ServingFrame
<1> QED
  BY <1>1, <1>2, <1>3, <1>4, <1>5 DEF InCalls

-----------------------------------------------------------------------------
(***************************************************************************)
(* The messages the application delivers from the queues.                  *)
(***************************************************************************)
LEMMA DeliverDownMaps ==
  ASSUME DirectInv, direct' = direct, NEW c \in Clients, DeliverDown(c)
  PROVE  DirectInv' /\ Queued!Next
<1>0. Queues /\ Domains
  BY DEF DirectInv
<1>1. /\ stack = <<>> /\ down[c] # <<>> /\ down' = [down EXCEPT ![c] = Tail(@)]
      /\ Receive(c, Head(down[c]), <<>>)
      /\ UNCHANGED <<server_doc, edits>>
  BY DEF DeliverDown, Idle, TakeDown
<1>2. Seen({}, <<>>, NULL, {})
  BY <1>1, IdleSeen
<1>3. DownHat = [k \in Clients |-> down[k]]
  BY <1>0, <1>2, NothingSeen
<1>4. CalledBy(<<>>, NULL, {}) /\ c \notin {}
  BY DEF CalledBy
<1>5. DownHat[c] # <<>> /\ Head(down[c]) = Head(DownHat[c])
  BY <1>1, <1>3
<1>6. DownSeen(down', NULL, {}) = [DownHat EXCEPT ![c] = Tail(@)] /\ DOMAIN down' = Clients
  BY <1>0, <1>1, <1>3 DEF DownSeen, Domains
<1>7. ServerDirect => \A k \in Clients : down'[k] = <<>>
  BY <1>0, <1>1 DEF Queues
<1>8. PICK received : received = Head(down[c])
  OBVIOUS
<1>9. Receive(c, received, <<>>)
  BY <1>1, <1>8 DEF Receive, Acknowledge, BeginSend
<1> QED
  BY <1>1, <1>2, <1>4, <1>5, <1>6, <1>7, <1>8, <1>9, ReceiveMaps

LEMMA DeliverUpMaps ==
  ASSUME DirectInv, direct' = direct, NEW c \in Clients, DeliverUp(c)
  PROVE  DirectInv' /\ UNCHANGED Queued!vars
<1>0. Queues /\ Domains /\ \A k \in Clients : Signed(k)
  BY DEF DirectInv
<1>1. /\ stack = <<>> /\ up[c] # <<>> /\ up' = [up EXCEPT ![c] = Tail(@)]
      /\ stack' = <<Serving(Head(up[c]))>>
      /\ UNCHANGED <<down, doc, ack_required, anticipated, buffer, seen, sentAt, server_doc, edits>>
  BY DEF DeliverUp, Idle, TakeUp, clientVars
<1>2. ~ClientDirect
  BY <1>0, <1>1 DEF Queues
<1>3. PICK m : m = Head(up[c])
  OBVIOUS
<1>4. /\ IsSequence(up[c]) /\ IsSequence(Tail(up[c]))
      /\ Len(up[c]) \in Nat \ {0} /\ m = up[c][1]
      /\ DOMAIN up[c] = 1..Len(up[c])
      /\ DOMAIN Tail(up[c]) = 1..(Len(up[c]) - 1)
      /\ \A i \in 1..(Len(up[c]) - 1) : Tail(up[c])[i] = up[c][i + 1]
  BY <1>0, <1>1, <1>3, TailOfSequence DEF Signed
<1>5. m.client_id = c
  BY <1>0, <1>4 DEF Signed
<1>6. <<m>> \o Tail(up[c]) = up[c]
  <2>1. up[c] \in Seq({up[c][i] : i \in DOMAIN up[c]})
    BY <1>4 DEF IsSequence
  <2> QED
    BY <1>1, <1>3, <2>1, HeadTailProperties
<1>7. Seen({}, <<>>, NULL, {}) /\ Seen({}, <<m>>, NULL, {})'
  <2>1. stack' = <<Serving(m)>>
    BY <1>1, <1>3
  <2> QED
    BY <1>1, <2>1, IdleSeen, SeenServing, SeenInGives
<1>8. UpHat' = UpHat
  <2>1. <<m>> # <<>> /\ <<m>>[1] = m
    OBVIOUS
  <2>2. UpHat' = UpSeen(up', <<m>>) /\ UpHat = UpSeen(up, <<>>)
    BY <1>7 DEF Seen
  <2>3. UpHat' = [k \in Clients |-> IF k = c THEN <<m>> \o up'[k] ELSE up'[k]]
    BY <1>5, <2>1, <2>2 DEF UpSeen
  <2>4. UpHat = [k \in Clients |-> up[k]]
    BY <2>2 DEF UpSeen
  <2>5. up'[c] = Tail(up[c]) /\ \A k \in Clients : k # c => up'[k] = up[k]
    BY <1>0, <1>1 DEF Domains
  <2> QED
    BY <1>6, <2>3, <2>4, <2>5
<1>9. HatsUnchanged
  BY <1>1, <1>7, <1>8 DEF Seen, HatsUnchanged
<1>10. InCalls'
  <2>1. stack' = <<Serving(m)>> /\ m.client_id \in Clients
    BY <1>1, <1>3, <1>5
  <2> QED
    BY <1>2, <2>1 DEF InCalls, ClientDirect
<1>11. Queues' /\ Domains'
  BY <1>0, <1>1, <1>2 DEF Queues, Domains, ClientDirect, ServerDirect
<1>12. ASSUME NEW k \in Clients PROVE Signed(k)'
  <2>1. CASE k = c
    <3>1. up'[k] = Tail(up[c]) /\ buffer'[k] = buffer[k]
      BY <1>0, <1>1, <2>1 DEF Domains
    <3>2. \A i \in DOMAIN Tail(up[c]) : Tail(up[c])[i].client_id = c
      BY <1>0, <1>4 DEF Signed
    <3> QED
      BY <1>0, <1>4, <2>1, <3>1, <3>2 DEF Signed
  <2>2. CASE k # c
    BY <1>0, <1>1, <2>2, SignedUnchanged DEF Domains
  <2> QED
    BY <2>1, <2>2
<1> QED
  BY <1>1, <1>9, <1>10, <1>11, <1>12, QueuedVars DEF DirectInv

-----------------------------------------------------------------------------
(***************************************************************************)
(* The calls under way.  send_buffer: everybody else has seen it done.     *)
(***************************************************************************)
LEMMA FinishMaps ==
  ASSUME DirectInv, direct' = direct, FinishSend
  PROVE  DirectInv' /\ UNCHANGED Queued!vars
<1>0. InCalls /\ Queues /\ Domains /\ \A k \in Clients : Signed(k)
  BY DEF DirectInv
<1>1. /\ Runs("send_buffer") /\ Finish(Top.client) /\ stack' = Below
      /\ UNCHANGED <<up, down, doc, seen, sentAt, server_doc, edits>>
  BY DEF FinishSend
<1>2. PICK c \in Clients :
         \/ stack = <<Sending(c)>>
         \/ ServerDirect /\ \E msg, to :
              Once(to) /\ stack = <<Sending(c), Broadcasting(msg, to)>>
  BY <1>0, <1>1, WhoIsSending
<1>3. Top = Sending(c) /\ Sending(c).client = c
  BY <1>2, TopOfStack, SendingFrame
<1>4. /\ anticipated' = [anticipated EXCEPT ![c] = ot_dup_op(buffer[c])]
      /\ ack_required' = [ack_required EXCEPT ![c] = TRUE]
      /\ buffer' = [buffer EXCEPT ![c] = NULL]
  BY <1>1, <1>3 DEF Finish
<1>5. PICK msg, T : /\ Seen({c}, <<>>, msg, T) /\ Seen({}, <<>>, msg, T)'
                    /\ InCalls'
  <2>1. CASE stack = <<Sending(c)>>
    <3>1. stack' = <<>>
      BY <1>1, <2>1, TopOfStack
    <3>2. Seen({c}, <<>>, NULL, {}) /\ Seen({}, <<>>, NULL, {})' /\ InCalls'
      BY <2>1, <3>1, SeenSending, SeenInGives, IdleSeen DEF InCalls
    <3> QED
      BY <3>2
  <2>2. ASSUME ServerDirect, NEW msg, NEW to, Once(to),
               stack = <<Sending(c), Broadcasting(msg, to)>>
        PROVE  /\ Seen({c}, <<>>, msg, ToSet(to)) /\ Seen({}, <<>>, msg, ToSet(to))'
               /\ InCalls'
    <3>1. stack' = <<Broadcasting(msg, to)>>
      BY <1>1, <2>2, TopOfStack
    <3>2. Seen({c}, <<>>, msg, ToSet(to)) /\ Seen({}, <<>>, msg, ToSet(to))'
      BY <2>2, <3>1, SeenSendingCalled, SeenBroadcasting, SeenInGives
    <3>3. InCalls'
      BY <2>2, <3>1 DEF InCalls, ServerDirect
    <3> QED
      BY <3>2, <3>3
  <2> QED
    BY <1>2, <2>1, <2>2
<1>6. /\ buffer'[c] = NULL /\ anticipated'[c] = ot_dup_op(buffer[c]) /\ ack_required'[c] = TRUE
      /\ \A k \in Clients : k # c => /\ buffer'[k] = buffer[k]
                                     /\ anticipated'[k] = anticipated[k]
                                     /\ ack_required'[k] = ack_required[k]
  BY <1>0, <1>4 DEF Domains
<1>7. HatsUnchanged
  <2>1. UpHat' = UpHat /\ DownHat' = DownHat
    BY <1>1, <1>5 DEF Seen
  <2>2. AnticipatedHat' = AnticipatedHat /\ BufferHat' = BufferHat
    BY <1>5, <1>6 DEF Seen
  <2>3. AckHat' = AckHat
    BY <1>5, <1>6 DEF Seen
  <2> QED
    BY <2>1, <2>2, <2>3 DEF HatsUnchanged
<1>8. Queues' /\ Domains'
  BY <1>0, <1>1, <1>4 DEF Queues, Domains, ClientDirect, ServerDirect
<1>9. \A k \in Clients : Signed(k)'
  BY <1>0, <1>1, <1>6 DEF Signed
<1> QED
  BY <1>1, <1>5, <1>7, <1>8, <1>9, QueuedVars DEF DirectInv

(***************************************************************************)
(* ot_server_receive is the server's step: what it broadcasts is, from     *)
(* there on, on its way to every client.                                   *)
(***************************************************************************)
LEMMA ServeMaps ==
  ASSUME DirectInv, direct' = direct, Serve
  PROVE  DirectInv' /\ Queued!Next
<1>0. InCalls /\ Queues /\ Domains /\ \A k \in Clients : Signed(k)
  BY DEF DirectInv
<1>1. Runs("ot_server_receive")
  BY DEF Serve
<1>2. PICK r : /\ r = Received(Top.msg)
               /\ server_doc' = r.doc /\ stack' = Reply(r) \o Below
               /\ UNCHANGED <<up, down, doc, ack_required, anticipated, buffer, seen,
                              sentAt, edits>>
  BY DEF Serve, clientVars
<1>3. PICK msg : msg = IF r.err = "none" THEN r.op ELSE ErrorMsg(r.err)
  OBVIOUS
<1>4. Reply(r) = <<Broadcasting(msg, Callers)>>
  BY <1>3 DEF Reply
<1>5. Once(Callers) /\ ToSet(Callers) = Clients
  BY CallersAreTheClients
<1>6. PICK c, m, senders :
        /\ c \in Clients /\ m.client_id = c /\ Top = Serving(m)
        /\ Seen(senders, <<m>>, NULL, {}) /\ Seen(senders, <<>>, msg, Clients)'
        /\ InCalls'
  <2>1. ASSUME ~ClientDirect, NEW m, m.client_id \in Clients, stack = <<Serving(m)>>
        PROVE  /\ Top = Serving(m)
               /\ Seen({}, <<m>>, NULL, {}) /\ Seen({}, <<>>, msg, Clients)'
               /\ InCalls'
    <3>1. Top = Serving(m) /\ Below = <<>>
      BY <2>1, TopOfStack
    <3>2. stack' = <<Broadcasting(msg, Callers)>>
      BY <1>2, <1>4, <3>1, OneCall
    <3>3. Seen({}, <<m>>, NULL, {}) /\ Seen({}, <<>>, msg, Clients)'
      BY <1>5, <2>1, <3>2, SeenServing, SeenBroadcasting, SeenInGives
    <3>4. InCalls'
      BY <1>5, <3>2 DEF InCalls
    <3> QED
      BY <3>1, <3>3, <3>4
  <2>2. ASSUME ClientDirect, NEW c \in Clients, NEW m, m.client_id = c,
               stack = <<Serving(m), Sending(c)>>
        PROVE  /\ Top = Serving(m)
               /\ Seen({c}, <<m>>, NULL, {}) /\ Seen({c}, <<>>, msg, Clients)'
               /\ InCalls'
    <3>1. Top = Serving(m) /\ Below = <<Sending(c)>>
      BY <2>2, TopOfStack
    <3>2. stack' = <<Broadcasting(msg, Callers), Sending(c)>>
      BY <1>2, <1>4, <3>1, TwoCalls
    <3>3. Seen({c}, <<m>>, NULL, {}) /\ Seen({c}, <<>>, msg, Clients)'
      BY <1>5, <2>2, <3>2, SeenServed, SeenAnswered, SeenInGives
    <3>4. InCalls'
      BY <2>2, <3>2 DEF InCalls, ClientDirect
    <3> QED
      BY <3>1, <3>3, <3>4
  <2> QED
    BY <1>0, <1>1, <2>1, <2>2, WhoIsServed
<1>7. r \in {Received(m)}
  BY <1>2, <1>6, ServingFrame
<1>8. /\ UpHat[c] # <<>> /\ Head(UpHat[c]) = m
      /\ UpHat' = [UpHat EXCEPT ![c] = Tail(@)]
  <2>1. <<m>> # <<>> /\ <<m>>[1] = m
    OBVIOUS
  <2>2. UpHat = UpSeen(up, <<m>>) /\ UpHat' = UpSeen(up', <<>>)
    BY <1>6 DEF Seen
  <2>3. UpHat = [k \in Clients |-> IF k = c THEN <<m>> \o up[k] ELSE up[k]]
    BY <1>6, <2>1, <2>2 DEF UpSeen
  <2>4. UpHat' = [k \in Clients |-> up[k]]
    BY <1>2, <2>2 DEF UpSeen
  <2>5. /\ <<m>> \o up[c] # <<>> /\ Head(<<m>> \o up[c]) = m
        /\ Tail(<<m>> \o up[c]) = up[c]
    <3> DEFINE S == {m} \cup {up[c][i] : i \in DOMAIN up[c]}
               t == <<m>> \o up[c]
    <3>1. up[c] \in Seq(S) /\ <<m>> \in Seq(S) /\ Len(<<m>>) = 1 /\ <<m>>[1] = m
      <4> DEFINE E == {up[c][i] : i \in DOMAIN up[c]}
      <4>1. up[c] \in Seq(E)
        BY <1>0, <1>6 DEF Signed, IsSequence
      <4> HIDE DEF E
      <4>2. E \subseteq {m} \cup E
        OBVIOUS
      <4>3. up[c] \in Seq({m} \cup E)
        <5>1. /\ Len(up[c]) \in Nat
              /\ up[c] \in [1..Len(up[c]) -> E]
          BY <4>1
        <5>2. up[c] \in [1..Len(up[c]) -> {m} \cup E]
          BY <5>1
        <5> QED
          BY <5>1, <5>2, SeqDef
      <4>4. <<m>> \in Seq({m} \cup E)
        OBVIOUS
      <4> QED
        BY <4>3, <4>4 DEF E
    <3>2. /\ t \in Seq(S) /\ Len(t) = 1 + Len(up[c])
          /\ \A i \in 1..(1 + Len(up[c])) : t[i] = IF i <= 1 THEN <<m>>[i] ELSE up[c][i - 1]
      BY <3>1, ConcatProperties
    <3>3. Len(up[c]) \in Nat /\ t # <<>> /\ t[1] = m
      BY <3>1, <3>2
    <3> HIDE DEF t, S
    <3>4. Tail(t) \in Seq(S) /\ Len(Tail(t)) = Len(up[c]) /\ Head(t) = t[1]
          /\ \A i \in 1..Len(Tail(t)) : Tail(t)[i] = t[i + 1]
      BY <3>2, <3>3, HeadTailProperties
    <3>5. \A i \in 1..Len(up[c]) : Tail(t)[i] = up[c][i]
      BY <3>2, <3>3, <3>4, SMTT(40)
    <3>6. Tail(t) = up[c]
      BY <3>1, <3>4, <3>5, SeqEqual
    <3> QED
      BY <3>3, <3>4, <3>6 DEF t
  <2> QED
    BY <1>6, <2>3, <2>4, <2>5
<1>9. DownHat' = [k \in Clients |-> Append(DownHat[k], msg)]
  BY <1>2, <1>6 DEF Seen, DownSeen
<1>10. UNCHANGED <<doc, AckHat, AnticipatedHat, BufferHat, seen, sentAt, edits>>
  BY <1>2, <1>6 DEF Seen
<1>11. Queued!Next
  <2>1. DownHat' = [k \in Clients |->
                      Append(DownHat[k], IF r.err = "none" THEN r.op ELSE ErrorMsg(r.err))]
    BY <1>3, <1>9
  <2> QED
    BY <1>2, <1>6, <1>7, <1>8, <1>10, <2>1, QueuedServerStep
<1>12. Queues' /\ Domains'
  BY <1>0, <1>2 DEF Queues, Domains, ClientDirect, ServerDirect
<1>13. \A k \in Clients : Signed(k)'
  BY <1>0, <1>2, SignedUnchanged
<1> QED
  BY <1>6, <1>11, <1>12, <1>13 DEF DirectInv

(***************************************************************************)
(* A broadcast that fills the queues, or has called everybody.             *)
(***************************************************************************)
LEMMA PostMaps ==
  ASSUME DirectInv, direct' = direct, Post
  PROVE  DirectInv' /\ UNCHANGED Queued!vars
<1>0. InCalls /\ Queues /\ Domains /\ \A k \in Clients : Signed(k)
  BY DEF DirectInv
<1>1. /\ Runs("server_send") /\ ~ServerDirect
      /\ down' = [k \in Clients |-> Append(down[k], Top.msg)] /\ stack' = Below
      /\ UNCHANGED <<up, doc, ack_required, anticipated, buffer, seen, sentAt, server_doc, edits>>
  BY DEF Post, Broadcast, clientVars
<1>2. PICK msg, senders :
        /\ Top = Broadcasting(msg, Callers)
        /\ Seen(senders, <<>>, msg, Clients) /\ Seen(senders, <<>>, NULL, {})'
        /\ InCalls'
  <2>1. ASSUME NEW msg, stack = <<Broadcasting(msg, Callers)>>
        PROVE  /\ Top = Broadcasting(msg, Callers)
               /\ Seen({}, <<>>, msg, Clients) /\ Seen({}, <<>>, NULL, {})'
               /\ InCalls'
    <3>1. Top = Broadcasting(msg, Callers) /\ stack' = <<>>
      BY <1>1, <2>1, TopOfStack
    <3>2. Seen({}, <<>>, msg, Clients)
      BY <2>1, CallersAreTheClients, SeenBroadcasting, SeenInGives
    <3> QED
      BY <3>1, <3>2, IdleSeen DEF InCalls
  <2>2. ASSUME ClientDirect, NEW c \in Clients, NEW msg,
               stack = <<Broadcasting(msg, Callers), Sending(c)>>
        PROVE  /\ Top = Broadcasting(msg, Callers)
               /\ Seen({c}, <<>>, msg, Clients) /\ Seen({c}, <<>>, NULL, {})'
               /\ InCalls'
    <3>1. Top = Broadcasting(msg, Callers) /\ stack' = <<Sending(c)>>
      BY <1>1, <2>2, TopOfStack
    <3>2. Seen({c}, <<>>, msg, Clients)
      BY <2>2, CallersAreTheClients, SeenAnswered, SeenInGives
    <3>3. Seen({c}, <<>>, NULL, {})'
      BY <3>1, SeenSending, SeenInGives
    <3> QED
      BY <3>1, <3>2, <3>3 DEF InCalls
  <2> QED
    BY <1>0, <1>1, <2>1, <2>2, WhatIsBroadcast
<1>3. Top.msg = msg
  BY <1>2, BroadcastingFrame
<1>4. HatsUnchanged
  <2>1. DownHat' = DownHat
    <3>1. DownHat = [k \in Clients |-> Append(down[k], msg)]
      BY <1>2 DEF Seen, DownSeen
    <3>2. DownHat' = [k \in Clients |-> down'[k]]
      BY <1>2 DEF Seen, DownSeen
    <3> QED
      BY <1>1, <1>3, <3>1, <3>2
  <2> QED
    BY <1>1, <1>2, <2>1 DEF Seen, HatsUnchanged
<1>5. Queues' /\ Domains'
  BY <1>0, <1>1 DEF Queues, Domains, ClientDirect, ServerDirect
<1>6. \A k \in Clients : Signed(k)'
  BY <1>0, <1>1, SignedUnchanged
<1> QED
  BY <1>1, <1>2, <1>4, <1>5, <1>6, QueuedVars DEF DirectInv

LEMMA CalledOneByOne ==
  ASSUME InCalls, Queues, Runs("server_send"), ServerDirect
  PROVE  \E msg, to : Once(to) /\ stack = <<Broadcasting(msg, to)>>
  BY WhatIsBroadcast DEF Queues

LEMMA ReturnMaps ==
  ASSUME DirectInv, direct' = direct, Return
  PROVE  DirectInv' /\ UNCHANGED Queued!vars
<1>0. InCalls /\ Queues /\ Domains /\ \A k \in Clients : Signed(k)
  BY DEF DirectInv
<1>1. /\ Runs("server_send") /\ ServerDirect /\ Top.to = <<>> /\ stack' = Below
      /\ UNCHANGED <<up, down, doc, ack_required, anticipated, buffer, seen, sentAt,
                     server_doc, edits>>
  BY DEF Return, vars, clientVars
<1>2. PICK msg, to : Once(to) /\ stack = <<Broadcasting(msg, to)>>
  BY <1>0, <1>1, CalledOneByOne
<1>3. Top = Broadcasting(msg, to) /\ stack' = <<>>
  BY <1>1, <1>2, TopOfStack
<1>4. to = <<>>
  BY <1>1, <1>3, BroadcastingFrame
<1>5. Seen({}, <<>>, msg, {})
  BY <1>2, <1>4, SeenBroadcasting, SeenInGives, NoCall
<1>6. Seen({}, <<>>, NULL, {})'
  BY <1>3, IdleSeen
<1>7. HatsUnchanged
  BY <1>1, <1>5, <1>6 DEF Seen, DownSeen, HatsUnchanged
<1>8. InCalls' /\ Queues' /\ Domains'
  BY <1>0, <1>1, <1>3 DEF InCalls, Queues, Domains, ClientDirect, ServerDirect
<1>9. \A k \in Clients : Signed(k)'
  BY <1>0, <1>1, SignedUnchanged
<1> QED
  BY <1>1, <1>7, <1>8, <1>9, QueuedVars DEF DirectInv

(***************************************************************************)
(* A broadcast that calls the next client: it receives what is, for        *)
(* everybody else, the only message on its way to it.                      *)
(***************************************************************************)
LEMMA OnceTail ==
  ASSUME NEW to, Once(to), to # <<>>
  PROVE  /\ Once(Tail(to)) /\ Head(to) \in Clients /\ Head(to) \notin ToSet(Tail(to))
         /\ ToSet(to) = {Head(to)} \cup ToSet(Tail(to))
<1> DEFINE t == Tail(to)
<1>1. to \in Seq(Clients) /\ Len(to) \in Nat \ {0} /\ DOMAIN to = 1..Len(to) /\ Head(to) = to[1]
  BY DEF Once
<1>2. \A i, j \in DOMAIN to : to[i] = to[j] => i = j
  BY DEF Once
<1>3. /\ t \in Seq(Clients) /\ Head(to) \in Clients /\ Len(t) = Len(to) - 1
      /\ \A i \in 1..Len(t) : t[i] = to[i + 1]
  BY <1>1, HeadTailProperties
<1>4. DOMAIN t = 1..(Len(to) - 1)
  BY <1>3
<1> HIDE DEF t
<1>5. Once(t)
  <2>1. ASSUME NEW i \in DOMAIN t, NEW j \in DOMAIN t, t[i] = t[j] PROVE i = j
    <3>1. i \in 1..(Len(to) - 1) /\ j \in 1..(Len(to) - 1) /\ to[i + 1] = to[j + 1]
      BY <1>3, <1>4, <2>1
    <3>2. i + 1 \in DOMAIN to /\ j + 1 \in DOMAIN to
      BY <1>1, <3>1
    <3>3. i + 1 = j + 1
      BY <1>2, <3>1, <3>2
    <3> QED
      BY <3>1, <3>3
  <2> QED
    BY <1>3, <2>1 DEF Once
<1>6. Head(to) \notin ToSet(t)
  <2>1. ASSUME NEW i \in DOMAIN t, t[i] = to[1] PROVE FALSE
    <3>1. i \in 1..(Len(to) - 1) /\ to[i + 1] = to[1]
      BY <1>3, <1>4, <2>1
    <3>2. i + 1 \in DOMAIN to /\ 1 \in DOMAIN to
      BY <1>1, <3>1
    <3>3. i + 1 = 1
      BY <1>2, <3>1, <3>2
    <3> QED
      BY <3>1, <3>3
  <2> QED
    BY <1>1, <2>1 DEF ToSet
<1>7. ToSet(to) = {Head(to)} \cup ToSet(t)
  <2>1. ASSUME NEW x \in ToSet(to) PROVE x = Head(to) \/ x \in ToSet(t)
    <3>1. PICK i \in 1..Len(to) : to[i] = x
      BY <1>1 DEF ToSet
    <3>2. CASE i = 1
      BY <1>1, <3>1, <3>2
    <3>3. CASE i # 1
      <4>1. i - 1 \in DOMAIN t /\ t[i - 1] = x
        BY <1>1, <1>3, <1>4, <3>1, <3>3
      <4> QED
        BY <4>1 DEF ToSet
    <3> QED
      BY <3>2, <3>3
  <2>2. Head(to) \in ToSet(to)
    BY <1>1 DEF ToSet
  <2>3. ASSUME NEW x \in ToSet(t) PROVE x \in ToSet(to)
    <3>1. PICK i \in DOMAIN t : t[i] = x
      BY <2>3 DEF ToSet
    <3>2. i + 1 \in DOMAIN to /\ to[i + 1] = x
      BY <1>1, <1>3, <1>4, <3>1
    <3> QED
      BY <3>2 DEF ToSet
  <2> QED
    BY <2>1, <2>2, <2>3
<1> QED
  BY <1>3, <1>5, <1>6, <1>7 DEF t

LEMMA CallClientMaps ==
  ASSUME DirectInv, direct' = direct, CallClient
  PROVE  DirectInv' /\ Queued!Next
<1>0. InCalls /\ Queues /\ Domains
  BY DEF DirectInv
<1>1. /\ Runs("server_send") /\ ServerDirect /\ Top.to # <<>>
      /\ UNCHANGED <<down, server_doc, edits>>
  BY DEF CallClient
<1>2. PICK msg, to : Once(to) /\ stack = <<Broadcasting(msg, to)>>
  BY <1>0, <1>1, CalledOneByOne
<1>3. Top = Broadcasting(msg, to) /\ Below = <<>> /\ Top.msg = msg /\ Top.to = to
  BY <1>2, TopOfStack, BroadcastingFrame
<1>4. PICK c, callers, T : /\ c = Head(to) /\ callers = <<Broadcasting(msg, Tail(to))>>
                           /\ T = ToSet(Tail(to))
  OBVIOUS
<1>5. /\ Once(Tail(to)) /\ c \in Clients /\ c \notin T
      /\ ToSet(to) = {c} \cup T
  BY <1>1, <1>2, <1>3, <1>4, OnceTail
<1>6. Receive(c, msg, callers)
  <2>1. Receive(Head(Top.to), Top.msg, <<Broadcasting(Top.msg, Tail(Top.to))>> \o Below)
    BY DEF CallClient
  <2>2. /\ Head(Top.to) = c
        /\ <<Broadcasting(Top.msg, Tail(Top.to))>> \o Below = callers
    BY <1>3, <1>4, OneCall
  <2> QED
    BY <1>3, <2>1, <2>2 DEF Receive, Acknowledge, BeginSend
<1>7. Seen({}, <<>>, msg, ToSet(to))
  BY <1>2, SeenBroadcasting, SeenInGives
<1>8. CalledBy(callers, msg, T)
  BY <1>1, <1>4, <1>5 DEF CalledBy
<1>9. \A k \in Clients : down[k] = <<>> /\ down'[k] = <<>>
  BY <1>0, <1>1 DEF Queues
<1>10. DownHat = [k \in Clients |-> IF k \in {c} \cup T THEN Append(<<>>, msg) ELSE <<>>]
  BY <1>5, <1>7, <1>9 DEF Seen, DownSeen
<1>11. /\ DownHat[c] # <<>> /\ Head(DownHat[c]) = msg /\ Tail(DownHat[c]) = <<>>
  <2>1. Append(<<>>, msg) = <<msg>>
    BY AppendToNothing, OneCall
  <2> QED
    BY <1>5, <1>10, <2>1, OneCall
<1>12. DownSeen(down', msg, T) = [DownHat EXCEPT ![c] = Tail(@)]
  BY <1>5, <1>9, <1>10, <1>11 DEF DownSeen
<1>13. DOMAIN down' = Clients
  BY <1>0, <1>1 DEF Domains
<1> QED
  BY <1>1, <1>5, <1>6, <1>7, <1>8, <1>9, <1>11, <1>12, <1>13, ReceiveMaps

-----------------------------------------------------------------------------
(***************************************************************************)
(* Together.                                                               *)
(***************************************************************************)
OneQueue == {"client", "server"} \notin Applications

LEMMA InitMaps ==
  ASSUME OneQueue, DirectInit
  PROVE  DirectInv /\ Queued!Init
<1>1. stack = <<>> /\ direct \in Applications
  BY DEF DirectInit
<1>2. /\ up = [c \in Clients |-> <<>>] /\ down = [c \in Clients |-> <<>>]
      /\ doc = [c \in Clients |-> OpenedDoc]
      /\ ack_required = [c \in Clients |-> FALSE]
      /\ anticipated = [c \in Clients |-> NULL] /\ buffer = [c \in Clients |-> NULL]
      /\ seen = [c \in Clients |-> Version0] /\ sentAt = [c \in Clients |-> Version0]
      /\ server_doc = OpenedDoc /\ edits = [c \in Clients |-> 0]
  BY DEF DirectInit, Init
<1>3. Domains
  BY <1>2 DEF Domains
<1>4. Queues
  <2>1. direct \subseteq {"client", "server"} /\ direct # {"client", "server"}
    BY <1>1, ApplicationsAssumption DEF OneQueue
  <2> QED
    BY <1>2, <2>1 DEF Queues, ClientDirect, ServerDirect
<1>5. \A k \in Clients : Signed(k)
  BY <1>2, EmptySequence DEF Signed
<1>6. Seen({}, <<>>, NULL, {})
  BY <1>1, IdleSeen
<1>7. /\ UpHat = [c \in Clients |-> <<>>] /\ DownHat = [c \in Clients |-> <<>>]
      /\ AnticipatedHat = [c \in Clients |-> NULL] /\ BufferHat = [c \in Clients |-> NULL]
  BY <1>2, <1>3, <1>6, NothingSeen
<1>8. AckHat = [c \in Clients |-> FALSE]
  BY <1>2, <1>6 DEF Seen
<1>9. Queued!Init
  BY <1>2, <1>7, <1>8, SameOpened
     DEF Queued!Init, UpHat, DownHat, AnticipatedHat, BufferHat, AckHat, NULL, Queued!NULL
<1> QED
  BY <1>1, <1>3, <1>4, <1>5, <1>9 DEF DirectInv, InCalls

LEMMA NextMaps ==
  ASSUME DirectInv, [DirectNext]_directVars
  PROVE  DirectInv' /\ (Queued!Next \/ UNCHANGED Queued!vars)
<1>1. ASSUME direct' = direct, Step PROVE DirectInv' /\ (Queued!Next \/ UNCHANGED Queued!vars)
  BY <1>1, FinishMaps, ServeMaps, PostMaps, ReturnMaps, CallClientMaps DEF Step
<1>2. ASSUME direct' = direct, NEW c \in Clients, DirectEdit(c) \/ DeliverUp(c) \/ DeliverDown(c)
      PROVE  DirectInv' /\ (Queued!Next \/ UNCHANGED Queued!vars)
  BY <1>2, DirectEditMaps, DeliverUpMaps, DeliverDownMaps
<1>3. CASE UNCHANGED directVars
  <2>1. UNCHANGED <<up, down, doc, ack_required, anticipated, buffer, seen, sentAt,
                    server_doc, edits, direct, stack>>
    BY <1>3 DEF directVars, vars, clientVars
  <2>2. DirectInv'
    BY <2>1, SignedUnchanged
       DEF DirectInv, InCalls, Queues, Domains, ClientDirect, ServerDirect
  <2>3. HatsUnchanged
    BY <2>1 DEF HatsUnchanged, UpHat, DownHat, AnticipatedHat, BufferHat, AckHat,
                UpOf, DownOf, IsSending, BroadcastsTo, Runs, Top
  <2> QED
    BY <2>1, <2>2, <2>3, QueuedVars
<1> QED
  BY <1>1, <1>2, <1>3 DEF DirectNext

\* A call under way is never more than a client that is sending and, above or
\* below it, the server it called or the broadcast that called it; no client
\* is called twice by a broadcast, and a client that sends is not called by it
\* again (client.c, server.c).
THEOREM CallsNest ==
  ASSUME OneQueue
  PROVE  DirectSpec => []InCalls
<1>1. DirectInit => DirectInv
  BY InitMaps
<1>2. DirectInv /\ [DirectNext]_directVars => DirectInv'
  BY NextMaps
<1>3. DirectInv => InCalls
  BY DEF DirectInv
<1> QED
  BY <1>1, <1>2, <1>3, PTL DEF DirectSpec

\* As long as the client or the server queues what it sends, a run in which
\* the other one hands it over at once is a run of System: whatever the nested
\* calls do, in send_buffer and in the middle of a broadcast, nobody sees it
\* (client.c, server.c).  So everything that holds of System holds of it.
THEOREM AsQueuedHolds ==
  ASSUME OneQueue
  PROVE  DirectSpec => AsQueued
<1>1. DirectInit => DirectInv /\ Queued!Init
  BY InitMaps
<1>2. DirectInv /\ [DirectNext]_directVars => DirectInv' /\ [Queued!Next]_(Queued!vars)
  BY NextMaps
<1> QED
  BY <1>1, <1>2, PTL DEF DirectSpec, AsQueued, Queued!Spec

-----------------------------------------------------------------------------
(***************************************************************************)
(* A run of Session is one of System as far as those who are inside can    *)
(* tell: a client on its way in counts as one that has opened its letter   *)
(* already, and one that is outside as one that takes nothing it is sent.  *)
(* Connect alone is no step of System.                                     *)
(***************************************************************************)
DocHat ==
  [c \in Clients |-> IF phase[c] = "connected" THEN Opening(letter[c]) ELSE doc[c]]
SeenHat ==
  [c \in Clients |-> IF phase[c] = "connected" THEN Len(letter[c]) ELSE seen[c]]

Entered == INSTANCE System_proofs WITH doc <- DocHat, seen <- SeenHat

(***************************************************************************)
(* What has nothing to do with clients is the same in both.                *)
(***************************************************************************)
LEMMA EnteredBuilders ==
  /\ \A comps, n : Entered!ot_skip(comps, n) = ot_skip(comps, n)
  /\ \A comps, text : Entered!ot_insert(comps, text) = ot_insert(comps, text)
  /\ \A comps, n : Entered!ot_delete(comps, n) = ot_delete(comps, n)
<1>1. \A comps, c : Entered!AppendComp(comps, c) = AppendComp(comps, c)
  BY DEF AppendComp, Entered!AppendComp, Merge, Entered!Merge, Last, Entered!Last, Front, Entered!Front
<1>2. \A x : /\ Entered!SkipComp(x) = SkipComp(x) /\ Entered!InsertComp(x) = InsertComp(x)
             /\ Entered!DeleteComp(x) = DeleteComp(x)
  BY DEF SkipComp, Entered!SkipComp, InsertComp, Entered!InsertComp, DeleteComp, Entered!DeleteComp
<1> QED
  BY <1>1, <1>2 DEF ot_skip, Entered!ot_skip, ot_insert, Entered!ot_insert, ot_delete, Entered!ot_delete

\* A copy is the same in both.
LEMMA EnteredCopy ==
  \A op : Entered!ot_dup_op(op) = ot_dup_op(op)
<1>1. \A comps, x : /\ Entered!ot_open_element(comps, x) = ot_open_element(comps, x)
                   /\ Entered!ot_close_element(comps) = ot_close_element(comps)
  BY DEF ot_open_element, Entered!ot_open_element, ot_close_element, Entered!ot_close_element,
         OpenComp, Entered!OpenComp, CloseComp, Entered!CloseComp
<1>2. \A list, c : Entered!Rebuilt(list, c) = Rebuilt(list, c)
  BY <1>1, EnteredBuilders DEF Rebuilt, Entered!Rebuilt
<1>3. \A comps : Entered!FoldLeft(Entered!Rebuilt, <<>>, comps) = FoldLeft(Rebuilt, <<>>, comps)
  BY <1>2 DEF FoldLeft, Entered!FoldLeft, MapThenFoldSet, Entered!MapThenFoldSet, Max, Entered!Max
<1> QED
  BY <1>3 DEF ot_dup_op, Entered!ot_dup_op, Op, Entered!Op

LEMMA EnteredIters ==
  /\ \A comps : Entered!ot_iter_next(comps) = ot_iter_next(comps)
  /\ \A comps, it, n : Entered!ot_iter_skip(comps, it, n) = ot_iter_skip(comps, it, n)
  /\ \A comps, it : Entered!Kind(comps, it) = Kind(comps, it)
  /\ \A comps, it : Entered!Left(comps, it) = Left(comps, it)
  /\ \A comps, it : Entered!LeftText(comps, it) = LeftText(comps, it)
  /\ \A m, n : Entered!Least(m, n) = Least(m, n)
<1>1. \A c : Entered!ot_comp_size(c) = ot_comp_size(c)
  BY DEF ot_comp_size, Entered!ot_comp_size
<1>2. \A comps, it, n : Entered!ot_iter_skip(comps, it, n) = ot_iter_skip(comps, it, n)
  BY <1>1 DEF ot_iter_skip, Entered!ot_iter_skip
<1>3. \A comps, it : Entered!Left(comps, it) = Left(comps, it)
  BY <1>1 DEF Left, Entered!Left
<1>4. \A comps : Entered!ot_iter_next(comps) = ot_iter_next(comps)
  BY DEF ot_iter_next, Entered!ot_iter_next
<1>5. \A comps, it : /\ Entered!Kind(comps, it) = Kind(comps, it)
                     /\ Entered!LeftText(comps, it) = LeftText(comps, it)
  BY DEF Kind, Entered!Kind, LeftText, Entered!LeftText
<1>6. \A m, n : Entered!Least(m, n) = Least(m, n)
  BY DEF Least, Entered!Least
<1> QED
  BY <1>2, <1>3, <1>4, <1>5, <1>6

LEMMA EnteredXformStep ==
  ASSUME NEW op1, NEW op2, NEW s
  PROVE  Entered!XformStep(op1, op2, s) = XformStep(op1, op2, s)
<1>1. Entered!InsertFirst(op1, s) = InsertFirst(op1, s)
  BY EnteredBuilders, EnteredIters DEF InsertFirst, Entered!InsertFirst
<1>2. Entered!InsertSecond(op2, s) = InsertSecond(op2, s)
  BY EnteredBuilders, EnteredIters DEF InsertSecond, Entered!InsertSecond
<1>3. \A p, q, n : Entered!Walk(op1, op2, s, p, q, n) = Walk(op1, op2, s, p, q, n)
  BY EnteredIters DEF Walk, Entered!Walk
<1>4. \A kinds, n : Entered!Over(op1, op2, kinds, s, n) = Over(op1, op2, kinds, s, n)
  BY <1>3, EnteredBuilders DEF Over, Entered!Over
<1>5. Entered!Common(op1, op2, s) = Common(op1, op2, s)
  BY EnteredIters DEF Common, Entered!Common
<1>6. \A kinds : Entered!MeetsStub(kinds) <=> MeetsStub(kinds)
  BY DEF MeetsStub, Entered!MeetsStub, Stubs, Entered!Stubs
<1>7. \A kinds : Entered!XformTurn(op1, op2, kinds, s) = XformTurn(op1, op2, kinds, s)
  BY <1>1, <1>2, <1>4, <1>5, <1>6 DEF XformTurn, Entered!XformTurn, Stubs, Entered!Stubs
<1> QED
  BY <1>7, EnteredIters DEF XformStep, Entered!XformStep

LEMMA EnteredXformComps ==
  \A comps1, comps2 : Entered!XformComps(comps1, comps2) = XformComps(comps1, comps2)
<1> SUFFICES ASSUME NEW comps1, NEW comps2
             PROVE  Entered!XformComps(comps1, comps2) = XformComps(comps1, comps2)
  OBVIOUS
<1> DEFINE turns == Len(comps1) + Len(comps2)
           Theirs(run) ==
             [k \in 0..turns |->
                IF k = 0 THEN Entered!XformStart(comps1, comps2)
                ELSE IF Entered!XformRunning(run[k - 1]) THEN Entered!XformStep(comps1, comps2, run[k - 1])
                     ELSE run[k - 1]]
           Ours(run) ==
             [k \in 0..turns |->
                IF k = 0 THEN XformStart(comps1, comps2)
                ELSE IF XformRunning(run[k - 1]) THEN XformStep(comps1, comps2, run[k - 1])
                     ELSE run[k - 1]]
<1>1. Entered!XformStart(comps1, comps2) = XformStart(comps1, comps2)
  BY EnteredIters DEF XformStart, Entered!XformStart
<1>2. \A s : Entered!XformRunning(s) <=> XformRunning(s)
  BY DEF XformRunning, Entered!XformRunning
<1>3. \A run : Theirs(run) = Ours(run)
  BY <1>1, <1>2, EnteredXformStep
<1>4. /\ Entered!XformComps(comps1, comps2) = (CHOOSE run : run = Theirs(run))[turns]
      /\ XformComps(comps1, comps2) = (CHOOSE run : run = Ours(run))[turns]
  BY DEF XformComps, Entered!XformComps
<1> HIDE DEF Theirs, Ours
<1>5. (CHOOSE run : run = Theirs(run)) = (CHOOSE run : run = Ours(run))
  BY <1>3
<1> QED
  BY <1>4, <1>5

LEMMA EnteredComposeStep ==
  ASSUME NEW op1, NEW op2, NEW s
  PROVE  Entered!ComposeStep(op1, op2, s) = ComposeStep(op1, op2, s)
<1>1. Entered!KeepDelete(op1, s) = KeepDelete(op1, s)
  BY EnteredBuilders, EnteredIters DEF KeepDelete, Entered!KeepDelete, Delete, Entered!Delete
<1>2. \A kind : Entered!NextText(op1, op2, kind, s) = NextText(op1, op2, kind, s)
  BY EnteredIters DEF NextText, Entered!NextText
<1>3. \A text : Entered!InsertText(op2, s, text) = InsertText(op2, s, text)
  BY EnteredBuilders, EnteredIters DEF InsertText, Entered!InsertText
<1>4. Entered!TakeInsert(op1, op2, s) = TakeInsert(op1, op2, s)
  BY <1>2, <1>3, EnteredIters DEF TakeInsert, Entered!TakeInsert
<1>5. Entered!Shared(op1, op2, s) = Shared(op1, op2, s)
  BY EnteredIters DEF Shared, Entered!Shared
<1>6. \A n : Entered!Kept(op1, s, n) = Kept(op1, s, n)
  BY EnteredIters DEF Kept, Entered!Kept
<1>7. \A kinds, n : Entered!Along(op1, op2, kinds, s, n) = Along(op1, op2, kinds, s, n)
  BY <1>6, EnteredBuilders, EnteredIters DEF Along, Entered!Along
<1>8. \A kinds : Entered!ComposeMeetsStub(kinds) <=> ComposeMeetsStub(kinds)
  BY DEF ComposeMeetsStub, Entered!ComposeMeetsStub, Stubs, Entered!Stubs
<1>9. \A kinds : Entered!ComposeTurn(op1, op2, kinds, s) = ComposeTurn(op1, op2, kinds, s)
  BY <1>1, <1>4, <1>5, <1>7, <1>8 DEF ComposeTurn, Entered!ComposeTurn, Stubs, Entered!Stubs
<1> QED
  BY <1>9, EnteredIters DEF ComposeStep, Entered!ComposeStep

LEMMA EnteredVolume ==
  \A comps : Entered!Volume(comps) = Volume(comps)
  BY DEF Volume, Entered!Volume, SizeIf, Entered!SizeIf, SumOf, Entered!SumOf, FoldLeft, Entered!FoldLeft,
         MapThenFoldSet, Entered!MapThenFoldSet, Max, Entered!Max, ot_comp_size, Entered!ot_comp_size

LEMMA EnteredComposeComps ==
  \A comps1, comps2 : Entered!ComposeComps(comps1, comps2) = ComposeComps(comps1, comps2)
<1> SUFFICES ASSUME NEW comps1, NEW comps2
             PROVE  Entered!ComposeComps(comps1, comps2) = ComposeComps(comps1, comps2)
  OBVIOUS
<1> DEFINE turns == Volume(comps1) + Volume(comps2) + 1
           Theirs(run) ==
             [k \in 0..turns |->
                IF k = 0 THEN Entered!ComposeStart(comps1, comps2)
                ELSE IF Entered!ComposeRunning(run[k - 1]) THEN Entered!ComposeStep(comps1, comps2, run[k - 1])
                     ELSE run[k - 1]]
           Ours(run) ==
             [k \in 0..turns |->
                IF k = 0 THEN ComposeStart(comps1, comps2)
                ELSE IF ComposeRunning(run[k - 1]) THEN ComposeStep(comps1, comps2, run[k - 1])
                     ELSE run[k - 1]]
<1>1. Entered!ComposeStart(comps1, comps2) = ComposeStart(comps1, comps2)
  BY EnteredIters DEF ComposeStart, Entered!ComposeStart
<1>2. \A s : Entered!ComposeRunning(s) <=> ComposeRunning(s)
  BY DEF ComposeRunning, Entered!ComposeRunning
<1>3. \A run : Theirs(run) = Ours(run)
  BY <1>1, <1>2, EnteredComposeStep
<1>4. /\ Entered!ComposeComps(comps1, comps2) = (CHOOSE run : run = Theirs(run))[turns]
      /\ ComposeComps(comps1, comps2) = (CHOOSE run : run = Ours(run))[turns]
  BY EnteredVolume DEF ComposeComps, Entered!ComposeComps
<1> HIDE DEF Theirs, Ours
<1>5. (CHOOSE run : run = Theirs(run)) = (CHOOSE run : run = Ours(run))
  BY <1>3
<1> QED
  BY <1>4, <1>5

LEMMA EnteredXform ==
  \A op1, op2 : Entered!ot_xform(op1, op2) = ot_xform(op1, op2)
  BY EnteredXformComps DEF ot_xform, Entered!ot_xform, Primes, Entered!Primes,
       Op, Entered!Op, NULL, Entered!NULL, ZeroHash, Entered!ZeroHash

LEMMA EnteredCompose ==
  \A op1, op2 : Entered!ot_compose(op1, op2) = ot_compose(op1, op2)
  BY EnteredComposeComps DEF ot_compose, Entered!ot_compose, Composition,
       Entered!Composition, Op, Entered!Op, NULL, Entered!NULL, ZeroHash,
       Entered!ZeroHash

LEMMA EnteredSize ==
  \A comps : Entered!ot_size(comps) = ot_size(comps)
  BY DEF ot_size, Entered!ot_size, SumOf, Entered!SumOf, FoldLeft,
       Entered!FoldLeft, MapThenFoldSet, Entered!MapThenFoldSet, Max,
       Entered!Max, Measure, Entered!Measure, Bytes, Entered!Bytes, Cardinality,
       Entered!Cardinality

LEMMA EnteredSnapshot ==
  \A comps : Entered!ot_snapshot(comps) = ot_snapshot(comps)
  BY DEF ot_snapshot, Entered!ot_snapshot, FoldLeft, Entered!FoldLeft,
       MapThenFoldSet, Entered!MapThenFoldSet, Max, Entered!Max

LEMMA EnteredAppend ==
  ASSUME NEW d, NEW op
  PROVE  Entered!ot_doc_append(d, op) = ot_doc_append(d, op)
<1>1. Entered!Exceeds(d, op) = Exceeds(d, op)
  BY EnteredSize DEF Exceeds, Entered!Exceeds
<1>2. Entered!Composed(d, op) = Composed(d, op)
  BY EnteredCompose DEF Composed, Entered!Composed, Op, Entered!Op, ZeroHash,
       Entered!ZeroHash
<1>3. ASSUME NEW composed
      PROVE  Entered!AppendComposed(d, op, composed) = AppendComposed(d, op, composed)
  BY EnteredSize, EnteredSnapshot DEF AppendComposed, Entered!AppendComposed,
       NewHead, Entered!NewHead, Moved, Entered!Moved, Extended,
       Entered!Extended, Parent, Entered!Parent, Refused, Entered!Refused, Last,
       Entered!Last, Op, Entered!Op, NULL, Entered!NULL, ZeroHash,
       Entered!ZeroHash, HashOf, Entered!HashOf
<1> QED
  BY <1>1, <1>2, <1>3 DEF ot_doc_append, Entered!ot_doc_append, Refused,
       Entered!Refused, NULL, Entered!NULL

LEMMA EnteredComposeFrom ==
  ASSUME NEW history, NEW start
  PROVE  Entered!ComposeFrom(history, start) = ComposeFrom(history, start)
<1> DEFINE more == Len(history) - start
           Theirs(run) ==
             [n \in 0..more |-> IF n = 0 THEN Entered!ot_dup_op(history[start])
                                ELSE Entered!ComposeNext(run[n - 1], history[start + n])]
           Ours(run) ==
             [n \in 0..more |-> IF n = 0 THEN ot_dup_op(history[start])
                                ELSE ComposeNext(run[n - 1], history[start + n])]
<1>1. \A op1, op2 : Entered!ComposeNext(op1, op2) = ComposeNext(op1, op2)
  BY EnteredCompose DEF ComposeNext, Entered!ComposeNext, NULL, Entered!NULL
<1>2. \A run : Theirs(run) = Ours(run)
  BY <1>1, EnteredCopy
<1>3. /\ Entered!ComposeFrom(history, start) = (CHOOSE run : run = Theirs(run))[more]
      /\ ComposeFrom(history, start) = (CHOOSE run : run = Ours(run))[more]
  BY DEF ComposeFrom, Entered!ComposeFrom
<1> HIDE DEF Theirs, Ours
<1>4. (CHOOSE run : run = Theirs(run)) = (CHOOSE run : run = Ours(run))
  BY <1>2
<1> QED
  BY <1>3, <1>4

LEMMA EnteredReceived ==
  ASSUME NEW d, NEW op
  PROVE  Entered!ReceivedOn(d, op) = ReceivedOn(d, op)
<1>1. \A hash : Entered!Start(d, hash) = Start(d, hash)
  BY DEF Start, Entered!Start, Newest, Entered!Newest, Positions,
       Entered!Positions, ZeroHash, Entered!ZeroHash
<1>2. \A hash : Entered!ot_doc_compose_after(d, hash) = ot_doc_compose_after(d, hash)
  BY <1>1, EnteredComposeFrom DEF ot_doc_compose_after,
       Entered!ot_doc_compose_after, Positions, Entered!Positions, NULL,
       Entered!NULL, ZeroHash, Entered!ZeroHash
<1>3. Entered!xform(d, op) = xform(d, op)
  BY <1>2, EnteredXform DEF xform, Entered!xform, XformAfter, Entered!XformAfter,
       NULL, Entered!NULL
<1>4. \A e, x : Entered!append_op(e, x) = append_op(e, x)
  BY EnteredAppend DEF append_op, Entered!append_op, Refused, Entered!Refused,
       NULL, Entered!NULL
<1> QED
  BY <1>3, <1>4 DEF ReceivedOn, Entered!ReceivedOn, can_append,
       Entered!can_append, ot_new_doc, Entered!ot_new_doc, NULL, Entered!NULL,
       ZeroHash, Entered!ZeroHash

LEMMA EnteredOpened ==
  /\ \A d : Entered!Opened(d) = Opened(d)
  /\ \A d : Entered!TextOf(d) = TextOf(d)
  /\ Entered!OpenedDoc = OpenedDoc
  /\ Entered!Version0 = Version0
<1>1. \A d : Entered!Opened(d) = Opened(d)
  BY DEF Opened, Entered!Opened, ot_new_doc, Entered!ot_new_doc, NULL,
       Entered!NULL
<1>2. \A d : Entered!TextOf(d) = TextOf(d)
  BY EnteredSnapshot DEF TextOf, Entered!TextOf, Text, Entered!Text, NULL,
       Entered!NULL
<1>3. Entered!OpenedDoc = OpenedDoc
  BY EnteredAppend DEF OpenedDoc, Entered!OpenedDoc, ot_new_doc,
       Entered!ot_new_doc, Op, Entered!Op, ZeroHash, Entered!ZeroHash,
       InsertComp, Entered!InsertComp, NULL, Entered!NULL
<1>4. Entered!Version0 = Version0
  BY DEF Version0, Entered!Version0
<1> QED
  BY <1>1, <1>2, <1>3, <1>4
-----------------------------------------------------------------------------
(***************************************************************************)
(* The steps of a client that is inside are steps of the System it is in.  *)
(***************************************************************************)
IsInside(c) ==
  /\ phase[c] = "inside" /\ UNCHANGED <<phase, letter>>
  /\ DOMAIN doc = Clients /\ DOMAIN seen = Clients

LEMMA StayingHats ==
  ASSUME NEW c \in Clients, IsInside(c)
  PROVE  /\ DocHat[c] = doc[c] /\ SeenHat[c] = seen[c]
         /\ doc' = doc => DocHat' = DocHat
         /\ seen' = seen => SeenHat' = SeenHat
         /\ \A x : doc' = [doc EXCEPT ![c] = x] => DocHat' = [DocHat EXCEPT ![c] = x]
         /\ \A n : seen' = [seen EXCEPT ![c] = n] => SeenHat' = [SeenHat EXCEPT ![c] = n]
<1>1. DocHat[c] = doc[c] /\ SeenHat[c] = seen[c]
  BY DEF IsInside, DocHat, SeenHat
<1>2. doc' = doc => DocHat' = DocHat
  BY DEF IsInside, DocHat
<1>3. seen' = seen => SeenHat' = SeenHat
  BY DEF IsInside, SeenHat
<1>4. ASSUME NEW x, doc' = [doc EXCEPT ![c] = x] PROVE DocHat' = [DocHat EXCEPT ![c] = x]
  BY <1>4 DEF IsInside, DocHat
<1>5. ASSUME NEW n, seen' = [seen EXCEPT ![c] = n] PROVE SeenHat' = [SeenHat EXCEPT ![c] = n]
  BY <1>5 DEF IsInside, SeenHat
<1> QED
  BY <1>1, <1>2, <1>3, <1>4, <1>5

LEMMA EnteredNull == Entered!NULL = NULL
BY DEF NULL, Entered!NULL

LEMMA EnteredApply ==
  ASSUME NEW c \in Clients, IsInside(c), NEW comps, ot_client_apply(c, comps)
  PROVE  Entered!ot_client_apply(c, comps)
<1> DEFINE made == ot_doc_append(Opened(doc[c]), Op(c, ZeroHash, ZeroHash, comps))
           Body(r, b) ==
             /\ DocHat' = [DocHat EXCEPT ![c] = r.doc]
             /\ UNCHANGED <<down, SeenHat>>
             /\ \/ /\ b = NULL
                   /\ UNCHANGED <<up, ack_required, anticipated, buffer, sentAt>>
                \/ /\ b # NULL
                   /\ ack_required[c]
                   /\ buffer' = [buffer EXCEPT ![c] = b]
                   /\ UNCHANGED <<up, ack_required, anticipated, sentAt>>
                \/ /\ b # NULL
                   /\ ~ack_required[c]
                   /\ Entered!send_buffer(c, b, b.parent, SeenHat[c])
<1>1. /\ DocHat[c] = doc[c] /\ SeenHat[c] = seen[c]
      /\ seen' = seen => SeenHat' = SeenHat
      /\ \A x : doc' = [doc EXCEPT ![c] = x] => DocHat' = [DocHat EXCEPT ![c] = x]
  BY StayingHats
<1>2. made = Entered!ot_doc_append(Entered!Opened(DocHat[c]),
               Entered!Op(c, Entered!ZeroHash, Entered!ZeroHash, comps))
  BY <1>1, EnteredAppend, EnteredOpened DEF Op, Entered!Op, ZeroHash, Entered!ZeroHash
<1>3. \A r : Entered!Buffered(c, r) = Buffered(c, r)
  BY EnteredCompose, EnteredCopy DEF Buffered, Entered!Buffered, NULL, Entered!NULL
<1>4. PICK r \in {made} : \E b \in {Buffered(c, r)} :
        /\ doc' = [doc EXCEPT ![c] = r.doc]
        /\ UNCHANGED <<down, seen>>
        /\ \/ /\ b = NULL
              /\ UNCHANGED <<up, ack_required, anticipated, buffer, sentAt>>
           \/ /\ b # NULL
              /\ ack_required[c]
              /\ buffer' = [buffer EXCEPT ![c] = b]
              /\ UNCHANGED <<up, ack_required, anticipated, sentAt>>
           \/ /\ b # NULL
              /\ ~ack_required[c]
              /\ send_buffer(c, b, b.parent, seen[c])
  BY DEF ot_client_apply
<1>5. PICK b \in {Buffered(c, r)} :
        /\ doc' = [doc EXCEPT ![c] = r.doc]
        /\ UNCHANGED <<down, seen>>
        /\ \/ /\ b = NULL
              /\ UNCHANGED <<up, ack_required, anticipated, buffer, sentAt>>
           \/ /\ b # NULL
              /\ ack_required[c]
              /\ buffer' = [buffer EXCEPT ![c] = b]
              /\ UNCHANGED <<up, ack_required, anticipated, sentAt>>
           \/ /\ b # NULL
              /\ ~ack_required[c]
              /\ send_buffer(c, b, b.parent, seen[c])
  BY <1>4
<1>6. ASSUME send_buffer(c, b, b.parent, seen[c])
      PROVE  Entered!send_buffer(c, b, b.parent, SeenHat[c])
  BY <1>1, <1>6, EnteredCopy DEF send_buffer, Entered!send_buffer, Op, Entered!Op, NULL, Entered!NULL
<1>7. Body(r, b)
  BY <1>1, <1>5, <1>6
<1>8. Entered!ot_client_apply(c, comps) <=>
        \E x \in {Entered!ot_doc_append(Entered!Opened(DocHat[c]),
                    Entered!Op(c, Entered!ZeroHash, Entered!ZeroHash, comps))} :
        \E y \in {Entered!Buffered(c, x)} : Body(x, y)
  BY EnteredNull DEF Entered!ot_client_apply
<1> HIDE DEF made, Body
<1> QED
  BY <1>2, <1>3, <1>4, <1>5, <1>7, <1>8

LEMMA EnteredEdit ==
  ASSUME NEW c \in Clients, IsInside(c), Edit(c)
  PROVE  Entered!Edit(c)
<1>1. PICK comps \in Edits(c, edits[c], TextOf(doc[c])) : ot_client_apply(c, comps)
  BY DEF Edit
<1>2. Entered!ot_client_apply(c, comps)
  BY <1>1, EnteredApply
<1>3. Entered!TextOf(DocHat[c]) = TextOf(doc[c])
  BY StayingHats, EnteredOpened
<1> QED
  BY <1>1, <1>2, <1>3 DEF Edit, Entered!Edit

LEMMA EnteredServerStep ==
  ASSUME NEW c \in Clients, IsInside(c), ServerStep(c)
  PROVE  Entered!ServerStep(c)
<1>1. PICK r \in {Received(Head(up[c]))} :
        /\ server_doc' = r.doc
        /\ \/ r.err = "none" /\ Broadcast(r.op)
           \/ r.err # "none" /\ Broadcast(ErrorMsg(r.err))
  BY DEF ServerStep, ot_server_receive
<1>2. r = Entered!Received(Head(up[c]))
  BY EnteredReceived DEF Received, Entered!Received
<1>3. TakeUp(c) /\ Entered!TakeUp(c)
  BY DEF ServerStep, ot_server_receive, TakeUp, Entered!TakeUp
<1>4. /\ server_doc' = r.doc
      /\ \/ r.err = "none" /\ Entered!Broadcast(r.op)
         \/ r.err # "none" /\ Entered!Broadcast(Entered!ErrorMsg(r.err))
  BY <1>1 DEF Broadcast, Entered!Broadcast, ErrorMsg, Entered!ErrorMsg
<1>5. Entered!ot_server_receive(c)
  BY <1>2, <1>3, <1>4 DEF Entered!ot_server_receive
<1>6. DocHat' = DocHat /\ SeenHat' = SeenHat
  BY StayingHats DEF ServerStep, clientVars
<1> QED
  BY <1>5, <1>6 DEF ServerStep, clientVars, Entered!ServerStep, Entered!clientVars

LEMMA EnteredReceiveError ==
  ASSUME NEW c \in Clients, IsInside(c), ReceiveError(c)
  PROVE  Entered!ReceiveError(c)
<1>1. DocHat' = DocHat /\ SeenHat' = SeenHat
  BY StayingHats DEF ReceiveError
<1> QED
  BY <1>1 DEF ReceiveError, Entered!ReceiveError, TakeDown, Entered!TakeDown,
              IsError, Entered!IsError

LEMMA EnteredReceiveAck ==
  ASSUME NEW c \in Clients, IsInside(c), ReceiveAck(c)
  PROVE  Entered!ReceiveAck(c)
<1>1. SeenHat[c] = seen[c] /\ DocHat' = DocHat
  BY StayingHats DEF ReceiveAck
<1>2. SeenHat' = [SeenHat EXCEPT ![c] = SeenHat[c] + 1]
  <2>1. PICK n : n = seen[c] + 1
    OBVIOUS
  <2>2. seen' = [seen EXCEPT ![c] = n]
    BY <2>1 DEF ReceiveAck
  <2> QED
    BY <1>1, <2>1, <2>2, StayingHats
<1>3. /\ Entered!TakeDown(c)
      /\ ~Entered!IsError(Head(down[c])) /\ Head(down[c]).client_id = c
  BY DEF ReceiveAck, TakeDown, Entered!TakeDown, IsError, Entered!IsError
<1>4. \/ /\ buffer[c] = NULL
         /\ ack_required' = [ack_required EXCEPT ![c] = FALSE]
         /\ anticipated' = [anticipated EXCEPT ![c] = NULL]
         /\ UNCHANGED <<up, buffer, sentAt>>
      \/ /\ buffer[c] # NULL
         /\ Entered!send_buffer(c, buffer[c], Head(down[c]).hash, SeenHat[c] + 1)
  BY <1>1, EnteredCopy DEF ReceiveAck, send_buffer, Entered!send_buffer, Op, Entered!Op, NULL, Entered!NULL
<1> QED
  BY <1>1, <1>2, <1>3, <1>4, EnteredNull DEF Entered!ReceiveAck

LEMMA EnteredReceiveOp ==
  ASSUME NEW c \in Clients, IsInside(c), ReceiveOp(c)
  PROVE  Entered!ReceiveOp(c)
<1> DEFINE msg == Head(down[c])
<1>1. DocHat[c] = doc[c] /\ SeenHat[c] = seen[c]
  BY StayingHats
<1>2. SeenHat' = [SeenHat EXCEPT ![c] = SeenHat[c] + 1]
  <2>1. PICK n : n = seen[c] + 1
    OBVIOUS
  <2>2. seen' = [seen EXCEPT ![c] = n]
    BY <2>1 DEF ReceiveOp
  <2> QED
    BY <1>1, <2>1, <2>2, StayingHats
<1>3. /\ Entered!TakeDown(c)
      /\ ~Entered!IsError(msg) /\ msg.client_id # c
  BY DEF ReceiveOp, TakeDown, Entered!TakeDown, IsError, Entered!IsError
<1>4. \A pair, failed : Entered!OrElse(pair, failed) = OrElse(pair, failed)
  BY EnteredNull DEF OrElse, Entered!OrElse
<1>5. Entered!xform_anticipated(c, msg) = xform_anticipated(c, msg)
  BY <1>4, EnteredNull, EnteredXform DEF xform_anticipated, Entered!xform_anticipated
<1>6. \A inter : Entered!xform_buffer(c, inter) = xform_buffer(c, inter)
  BY <1>4, EnteredNull, EnteredXform DEF xform_buffer, Entered!xform_buffer
<1>7. PICK first \in {xform_anticipated(c, msg)} :
        \E second \in {xform_buffer(c, first[1])} :
          /\ anticipated' = [anticipated EXCEPT ![c] = first[2]]
          /\ buffer' = [buffer EXCEPT ![c] = second[1]]
          /\ \/ /\ second[2] = NULL
                /\ UNCHANGED doc
             \/ /\ second[2] # NULL
                /\ doc' = [doc EXCEPT ![c] = ot_doc_append(Opened(doc[c]), second[2]).doc]
  BY DEF ReceiveOp, Incoming
<1>8. PICK second \in {xform_buffer(c, first[1])} :
        /\ anticipated' = [anticipated EXCEPT ![c] = first[2]]
        /\ buffer' = [buffer EXCEPT ![c] = second[1]]
        /\ \/ /\ second[2] = NULL
              /\ UNCHANGED doc
           \/ /\ second[2] # NULL
              /\ doc' = [doc EXCEPT ![c] = ot_doc_append(Opened(doc[c]), second[2]).doc]
  BY <1>7
<1>9. \/ /\ second[2] = NULL
         /\ UNCHANGED DocHat
      \/ /\ second[2] # NULL
         /\ DocHat' = [DocHat EXCEPT ![c] =
                         Entered!ot_doc_append(Entered!Opened(DocHat[c]), second[2]).doc]
  <2>1. CASE second[2] = NULL
    BY <1>8, <2>1, StayingHats
  <2>2. CASE second[2] # NULL
    <3>1. PICK x : x = ot_doc_append(Opened(doc[c]), second[2]).doc
      OBVIOUS
    <3>2. x = Entered!ot_doc_append(Entered!Opened(DocHat[c]), second[2]).doc
      BY <1>1, <3>1, EnteredAppend, EnteredOpened
    <3>3. DocHat' = [DocHat EXCEPT ![c] = x]
      BY <1>8, <2>2, <3>1, StayingHats
    <3> QED
      BY <2>2, <3>2, <3>3
  <2> QED
    BY <2>1, <2>2
<1>10. Entered!Incoming(c, msg)
  <2>1. first = Entered!xform_anticipated(c, msg) /\ second = Entered!xform_buffer(c, first[1])
    BY <1>5, <1>6, <1>7, <1>8
  <2> HIDE DEF msg
  <2> QED
    BY <1>8, <1>9, <2>1, EnteredNull DEF Entered!Incoming
<1> QED
  BY <1>2, <1>3, <1>10 DEF ReceiveOp, Entered!ReceiveOp

LEMMA EnteredStep ==
  ASSUME NEW c \in Clients, IsInside(c), Edit(c) \/ ServerStep(c) \/ ClientStep(c)
  PROVE  Entered!Next
<1>1. CASE Edit(c)
  BY <1>1, EnteredEdit DEF Entered!Next
<1>2. CASE ServerStep(c)
  BY <1>2, EnteredServerStep DEF Entered!Next
<1>3. CASE ClientStep(c)
  <2>1. Entered!ot_client_receive(c)
    BY <1>3, EnteredReceiveError, EnteredReceiveAck, EnteredReceiveOp
       DEF ClientStep, ot_client_receive, Entered!ot_client_receive
  <2> QED
    BY <1>3, <2>1 DEF ClientStep, Entered!ClientStep, Entered!Next
<1> QED
  BY <1>1, <1>2, <1>3

LEMMA EnteredDecode ==
  ASSUME NEW d, NEW ops
  PROVE  Entered!ot_decode_doc(d, ops) = ot_decode_doc(d, ops)
<1> DEFINE Theirs(run) ==
             [n \in 0..Len(ops) |-> IF n = 0 THEN Entered!Refused(d, "none")
                                    ELSE Entered!DecodeNext(run[n - 1], ops[n])]
           Ours(run) ==
             [n \in 0..Len(ops) |-> IF n = 0 THEN Refused(d, "none")
                                    ELSE DecodeNext(run[n - 1], ops[n])]
<1>1. /\ Entered!Refused(d, "none") = Refused(d, "none")
      /\ \A r, op : Entered!DecodeNext(r, op) = DecodeNext(r, op)
  BY EnteredAppend DEF DecodeNext, Entered!DecodeNext, Refused, Entered!Refused, NULL, Entered!NULL
<1>2. \A run : Theirs(run) = Ours(run)
  BY <1>1
<1>3. /\ Entered!ot_decode_doc(d, ops) = (CHOOSE run : run = Theirs(run))[Len(ops)]
      /\ ot_decode_doc(d, ops) = (CHOOSE run : run = Ours(run))[Len(ops)]
  BY DEF ot_decode_doc, Entered!ot_decode_doc
<1> HIDE DEF Theirs, Ours
<1>4. (CHOOSE run : run = Theirs(run)) = (CHOOSE run : run = Ours(run))
  BY <1>2
<1> QED
  BY <1>3, <1>4

LEMMA EnteredEditors == EditorsFit => Entered!EditorsFit
<1>1. \A X : Entered!OperationsOver(X) = OperationsOver(X)
  BY DEF OperationsOver, Entered!OperationsOver, ComponentsOver, Entered!ComponentsOver,
         CloseComp, Entered!CloseComp
<1>2. \A comps : Entered!Passable(comps) <=> Passable(comps)
  BY DEF Passable, Entered!Passable, IsEmpty, Entered!IsEmpty, ot_comp_size,
         Entered!ot_comp_size, Stubs, Entered!Stubs
<1>3. \A comps : Entered!BaseLen(comps) = BaseLen(comps)
  BY DEF BaseLen, Entered!BaseLen, SizeIf, Entered!SizeIf, ot_comp_size,
         Entered!ot_comp_size, SumOf, Entered!SumOf, FoldLeft, Entered!FoldLeft,
         MapThenFoldSet, Entered!MapThenFoldSet, Max, Entered!Max
<1>4. \A X : Entered!Fits(X) <=> Fits(X)
  BY <1>1, <1>2, <1>3 DEF Fits, Entered!Fits
<1> QED
  BY <1>4 DEF EditorsFit, Entered!EditorsFit

LEMMA EnteredInserters == EditorsInsert => Entered!EditorsInsert
<1>1. \A X : Entered!OperationsOver(X) = OperationsOver(X)
  BY DEF OperationsOver, Entered!OperationsOver, ComponentsOver, Entered!ComponentsOver,
         CloseComp, Entered!CloseComp
<1>2. \A comps : /\ Entered!Passable(comps) <=> Passable(comps)
                 /\ Entered!IsNormal(comps) <=> IsNormal(comps)
  BY DEF Passable, Entered!Passable, IsEmpty, Entered!IsEmpty, ot_comp_size,
         Entered!ot_comp_size, Stubs, Entered!Stubs, IsNormal, Entered!IsNormal
<1>3. \A comps : Entered!BaseLen(comps) = BaseLen(comps)
  BY DEF BaseLen, Entered!BaseLen, SizeIf, Entered!SizeIf, ot_comp_size,
         Entered!ot_comp_size, SumOf, Entered!SumOf, FoldLeft, Entered!FoldLeft,
         MapThenFoldSet, Entered!MapThenFoldSet, Max, Entered!Max
<1>4. \A X : Entered!Fits(X) <=> Fits(X)
  BY <1>1, <1>2, <1>3 DEF Fits, Entered!Fits
<1> QED
  BY <1>2, <1>4, EnteredEditors DEF EditorsInsert, Entered!EditorsInsert

-----------------------------------------------------------------------------
(***************************************************************************)
(* Whoever is not inside has done nothing yet.                             *)
(***************************************************************************)
Outsiders ==
  /\ DOMAIN doc = Clients /\ DOMAIN seen = Clients
  /\ DOMAIN phase = Clients /\ DOMAIN letter = Clients
  /\ \A k \in Clients : phase[k] # "inside" => up[k] = <<>> /\ ~ack_required[k]

EnteredInv ==
  Entered!OrderInv /\ Entered!TextInv /\ Entered!BridgeInv

LEMMA EnteredInit ==
  ASSUME EditorsFit, SessionInit
  PROVE  EnteredInv /\ Outsiders
<1>1. Entered!Init
  BY EnteredOpened, EnteredNull DEF SessionInit, Init, Entered!Init, DocHat, SeenHat
<1>2. EnteredInv
  BY <1>1, EnteredEditors, Entered!InitOrdered, Entered!InitText, Entered!InitBridge,
     UintRangeAssumption, ClientsAssumption, MaxEditsAssumption DEF EnteredInv
<1>3. Outsiders
  BY DEF SessionInit, Init, Outsiders
<1> QED
  BY <1>2, <1>3

LEMMA EnteredInitLaid ==
  ASSUME EditorsFit, SessionInit
  PROVE  Entered!LaidInv
<1>1. Entered!Init
  BY EnteredOpened, EnteredNull DEF SessionInit, Init, Entered!Init, DocHat, SeenHat
<1> QED
  BY <1>1, EnteredEditors, Entered!InitLaid,
     UintRangeAssumption, ClientsAssumption, MaxEditsAssumption

LEMMA EnteredNext ==
  ASSUME EditorsFit, EnteredInv, AckedAsAnticipated, [Entered!Next]_Entered!vars
  PROVE  EnteredInv'
<1>1. Entered!AckedAlike
  <2>1. Entered!AckedAsAnticipated
    BY DEF AckedAsAnticipated, Entered!AckedAsAnticipated, IsOwn, Entered!IsOwn,
           IsError, Entered!IsError
  <2> QED
    BY <2>1, Entered!AckedAsAnticipatedIsAlike,
       UintRangeAssumption, ClientsAssumption, MaxEditsAssumption
<1>2. Entered!OrderInv'
  BY Entered!NextOrdered,
     UintRangeAssumption, ClientsAssumption, MaxEditsAssumption DEF EnteredInv
<1>3. Entered!TextInv'
  BY EnteredEditors, Entered!NextKeepsText,
     UintRangeAssumption, ClientsAssumption, MaxEditsAssumption DEF EnteredInv, Entered!OrderInv
<1>4. Entered!BridgeInv'
  BY <1>1, EnteredEditors, Entered!NextKeepsBridge,
     UintRangeAssumption, ClientsAssumption, MaxEditsAssumption DEF EnteredInv
<1> QED
  BY <1>2, <1>3, <1>4 DEF EnteredInv

(***************************************************************************)
(* A client that opens its letter does what the mapping has done already.  *)
(***************************************************************************)
LEMMA JoinMaps ==
  ASSUME Outsiders, NEW c \in Clients, Join(c)
  PROVE  UNCHANGED Entered!vars
<1>1. DocHat' = DocHat
  BY DEF Join, Outsiders, DocHat
<1>2. SeenHat' = SeenHat
  BY DEF Join, Outsiders, SeenHat
<1> QED
  BY <1>1, <1>2 DEF Join, Entered!vars, Entered!clientVars

\* What a client gets with its connection is what NewcomerFits speaks of.
LEMMA ConnectMaps ==
  ASSUME EnteredInv, Outsiders, NEW c \in Clients, Connect(c)
  PROVE  EnteredInv' /\ (Entered!LaidInv => Entered!LaidInv')
<1> DEFINE encoded == IF server_doc = NULL THEN <<>> ELSE server_doc.history
           given == IF server_doc = NULL THEN NULL
                    ELSE ot_decode_doc(ot_new_doc(0), server_doc.history).doc
<1>1. /\ phase[c] = "outside" /\ phase' = [phase EXCEPT ![c] = "connected"]
      /\ letter' = [letter EXCEPT ![c] = encoded]
      /\ down' = [down EXCEPT ![c] = <<>>]
      /\ UNCHANGED <<up, doc, ack_required, anticipated, buffer, seen, sentAt, server_doc, edits>>
  BY DEF Connect, clientVars, ot_encode_doc
<1>2. /\ Entered!DocOrNone(server_doc)
      /\ server_doc # NULL => server_doc.history # <<>>
  <2>1. Entered!DocOrNone(server_doc)
    BY DEF EnteredInv, Entered!TextInv
  <2> QED
    BY <2>1, EnteredNull DEF Entered!DocOrNone, Entered!MadeDoc, Entered!CleanDoc
<1>3. Opening(encoded) = given
  BY <1>2 DEF Opening
<1>4. Len(encoded) = Entered!Version
  BY EnteredNull DEF Entered!Version
<1> HIDE DEF encoded, given
<1>5. DocHat' = [DocHat EXCEPT ![c] = given]
  BY <1>1, <1>3 DEF Outsiders, DocHat
<1>6. SeenHat' = [SeenHat EXCEPT ![c] = Entered!Version]
  BY <1>1, <1>4 DEF Outsiders, SeenHat
<1>7. given = IF server_doc = Entered!NULL THEN Entered!NULL
              ELSE Entered!ot_decode_doc(Entered!ot_new_doc(0), Entered!ot_encode_doc(server_doc)).doc
  BY EnteredDecode, EnteredNull DEF given, Entered!ot_encode_doc, ot_new_doc, Entered!ot_new_doc
<1>8. Entered!Welcomed(c)
  BY <1>1, <1>5, <1>6, <1>7 DEF Entered!Welcomed
<1>9. up[c] = <<>> /\ ~ack_required[c]
  BY <1>1 DEF Outsiders
<1> QED
  BY <1>8, <1>9, Entered!NewcomerFits, Entered!NewcomerLaid,
     UintRangeAssumption, ClientsAssumption, MaxEditsAssumption DEF EnteredInv

(***************************************************************************)
(* Nobody else moves when a client does.                                   *)
(***************************************************************************)
LEMMA StepLeavesOthers ==
  ASSUME Entered!Control, NEW c \in Clients, Edit(c) \/ ServerStep(c) \/ ClientStep(c),
         NEW k \in Clients, k # c
  PROVE  up'[k] = up[k] /\ ack_required'[k] = ack_required[k]
<1>1. /\ DOMAIN up = Clients /\ DOMAIN ack_required = Clients
  BY DEF Entered!Control, Entered!TypeOK
<1>2. ASSUME NEW op, NEW parent, NEW version, send_buffer(c, op, parent, version)
      PROVE  up'[k] = up[k] /\ ack_required'[k] = ack_required[k]
  BY <1>1, <1>2 DEF send_buffer
<1>3. CASE Edit(c)
  <2>1. PICK comps : ot_client_apply(c, comps)
    BY <1>3 DEF Edit
  <2>2. \/ UNCHANGED <<up, ack_required>>
        \/ \E op, parent, version : send_buffer(c, op, parent, version)
    BY <2>1 DEF ot_client_apply
  <2> QED
    BY <1>2, <2>2
<1>4. CASE ServerStep(c)
  BY <1>1, <1>4 DEF ServerStep, ot_server_receive, TakeUp, clientVars
<1>5. CASE ClientStep(c)
  <2>1. CASE ReceiveError(c) \/ ReceiveOp(c)
    BY <2>1 DEF ReceiveError, ReceiveOp
  <2>2. CASE ReceiveAck(c)
    <3>1. \/ ack_required' = [ack_required EXCEPT ![c] = FALSE] /\ UNCHANGED up
          \/ \E op, parent, version : send_buffer(c, op, parent, version)
      BY <2>2 DEF ReceiveAck
    <3> QED
      BY <1>1, <1>2, <3>1
  <2> QED
    BY <1>5, <2>1, <2>2 DEF ClientStep, ot_client_receive
<1> QED
  BY <1>3, <1>4, <1>5

LEMMA StepKeepsDomains ==
  ASSUME NEW c \in Clients, Edit(c) \/ ServerStep(c) \/ ClientStep(c)
  PROVE  DOMAIN doc' = DOMAIN doc /\ DOMAIN seen' = DOMAIN seen
<1>1. CASE Edit(c)
  <2>1. PICK comps : ot_client_apply(c, comps)
    BY <1>1 DEF Edit
  <2>2. \E x : doc' = [doc EXCEPT ![c] = x]
    BY <2>1 DEF ot_client_apply
  <2> QED
    BY <2>1, <2>2 DEF ot_client_apply
<1>2. CASE ServerStep(c)
  BY <1>2 DEF ServerStep, clientVars
<1>3. CASE ReceiveError(c) \/ ReceiveAck(c)
  BY <1>3 DEF ReceiveError, ReceiveAck
<1>4. CASE ReceiveOp(c)
  <2>1. doc' = doc \/ \E x : doc' = [doc EXCEPT ![c] = x]
    BY <1>4 DEF ReceiveOp, Incoming
  <2>2. seen' = [seen EXCEPT ![c] = seen[c] + 1]
    BY <1>4 DEF ReceiveOp
  <2> QED
    BY <2>1, <2>2
<1> QED
  BY <1>1, <1>2, <1>3, <1>4 DEF ClientStep, ot_client_receive

LEMMA NextKeepsOutsiders ==
  ASSUME EnteredInv, Outsiders, SessionNext
  PROVE  Outsiders'
<1>1. PICK c \in Clients : Connect(c) \/ Join(c) \/ InsideStep(c)
  BY DEF SessionNext
<1>2. CASE Connect(c)
  BY <1>2 DEF Connect, clientVars, Outsiders
<1>3. CASE Join(c)
  BY <1>3 DEF Join, Outsiders
<1>4. CASE InsideStep(c)
  <2>1. /\ phase[c] = "inside" /\ UNCHANGED <<phase, letter>>
        /\ Edit(c) \/ ServerStep(c) \/ ClientStep(c)
    BY <1>4 DEF InsideStep
  <2>2. DOMAIN doc' = Clients /\ DOMAIN seen' = Clients
    BY <2>1, StepKeepsDomains DEF Outsiders
  <2>3. ASSUME NEW k \in Clients, phase'[k] # "inside"
        PROVE  up'[k] = <<>> /\ ~ack_required'[k]
    <3>1. k # c /\ up[k] = <<>> /\ ~ack_required[k]
      BY <2>1, <2>3 DEF Outsiders
    <3>2. Entered!Control
      BY DEF EnteredInv, Entered!OrderInv
    <3> QED
      BY <2>1, <3>1, <3>2, StepLeavesOthers
  <2> QED
    BY <2>1, <2>2, <2>3 DEF Outsiders
<1> QED
  BY <1>1, <1>2, <1>3, <1>4

LEMMA SessionKeeps ==
  ASSUME EditorsFit, EnteredInv, Outsiders, AckedAsAnticipated, [SessionNext]_sessionVars
  PROVE  EnteredInv' /\ Outsiders'
<1>1. CASE UNCHANGED sessionVars
  <2>1. Outsiders'
    BY <1>1 DEF sessionVars, vars, clientVars, Outsiders
  <2>2. UNCHANGED Entered!vars
    BY <1>1 DEF sessionVars, vars, clientVars, DocHat, SeenHat, Entered!vars, Entered!clientVars
  <2> QED
    BY <2>1, <2>2, EnteredNext
<1>2. CASE SessionNext
  <2>1. PICK c \in Clients : Connect(c) \/ Join(c) \/ InsideStep(c)
    BY <1>2 DEF SessionNext
  <2>2. CASE Connect(c)
    BY <1>2, <2>2, ConnectMaps, NextKeepsOutsiders
  <2>3. CASE Join(c)
    BY <1>2, <2>3, JoinMaps, EnteredNext, NextKeepsOutsiders
  <2>4. CASE InsideStep(c)
    <3>1. IsInside(c)
      BY <2>4 DEF InsideStep, IsInside, Outsiders
    <3>2. Entered!Next
      BY <2>4, <3>1, EnteredStep DEF InsideStep
    <3> QED
      BY <1>2, <3>2, EnteredNext, NextKeepsOutsiders
  <2> QED
    BY <2>1, <2>2, <2>3, <2>4
<1> QED
  BY <1>1, <1>2

LEMMA EnteredSettles == EnteredInv => InsidersConverge
<1> SUFFICES ASSUME EnteredInv, NEW c \in Clients,
                    phase[c] = "inside", up[c] = <<>>, down[c] = <<>>
             PROVE  TextOf(doc[c]) = TextOf(server_doc) /\ ~ack_required[c]
  BY DEF InsidersConverge
<1>1. Entered!TextOf(DocHat[c]) = Entered!TextOf(server_doc) /\ ~ack_required[c]
  BY Entered!BridgedSettles, UintRangeAssumption, ClientsAssumption, MaxEditsAssumption
     DEF EnteredInv
<1>2. DocHat[c] = doc[c]
  BY DEF DocHat
<1> QED
  BY <1>1, <1>2, EnteredOpened

\* A client that joins while operations of others are on their way ends up
\* with the same text as those that were there from the start, and waits for
\* nothing: what was sent between ot_encode_doc and ot_client_open is just what
\* the decoded document lacks (doc.c, encode.c, decode.c, client.c).  As with
\* Converged, the server makes of every operation what its author anticipated.
THEOREM InsidersConvergeHolds ==
  ASSUME EditorsFit
  PROVE  SessionSpec /\ []AckedAsAnticipated => []InsidersConverge
<1>1. SessionInit => EnteredInv /\ Outsiders
  BY EnteredInit
<1>2. EnteredInv /\ Outsiders /\ AckedAsAnticipated /\ [SessionNext]_sessionVars
        => EnteredInv' /\ Outsiders'
  BY SessionKeeps
<1> QED
  BY <1>1, <1>2, EnteredSettles, PTL DEF SessionSpec

-----------------------------------------------------------------------------
(***************************************************************************)
(* Newcomers among editors that only insert.                               *)
(***************************************************************************)
LEMMA LaidAsAnticipated == EnteredInv /\ Entered!LaidInv => AckedAsAnticipated
<1> SUFFICES ASSUME EnteredInv, Entered!LaidInv PROVE AckedAsAnticipated
  OBVIOUS
<1>1. Entered!AckedAsAnticipated
  BY Entered!LaidIsAcked,
     UintRangeAssumption, ClientsAssumption, MaxEditsAssumption DEF EnteredInv
<1> QED
  BY <1>1 DEF AckedAsAnticipated, Entered!AckedAsAnticipated, IsOwn, Entered!IsOwn,
              IsError, Entered!IsError

LEMMA EnteredNextLaid ==
  ASSUME EditorsInsert, EnteredInv, Entered!LaidInv, [Entered!Next]_Entered!vars
  PROVE  Entered!LaidInv'
BY EnteredInserters, Entered!NextKeepsLaid,
   UintRangeAssumption, ClientsAssumption, MaxEditsAssumption DEF EnteredInv

LEMMA SessionKeepsLaid ==
  ASSUME EditorsInsert, EnteredInv, Outsiders, Entered!LaidInv, [SessionNext]_sessionVars
  PROVE  Entered!LaidInv'
<1>1. CASE UNCHANGED sessionVars
  <2>1. UNCHANGED Entered!vars
    BY <1>1 DEF sessionVars, vars, clientVars, DocHat, SeenHat, Entered!vars, Entered!clientVars
  <2> QED
    BY <2>1, EnteredNextLaid
<1>2. CASE SessionNext
  <2>1. PICK c \in Clients : Connect(c) \/ Join(c) \/ InsideStep(c)
    BY <1>2 DEF SessionNext
  <2>2. CASE Connect(c)
    BY <2>2, ConnectMaps
  <2>3. CASE Join(c)
    BY <2>3, JoinMaps, EnteredNextLaid
  <2>4. CASE InsideStep(c)
    <3>1. IsInside(c)
      BY <2>4 DEF InsideStep, IsInside, Outsiders
    <3>2. Entered!Next
      BY <2>4, <3>1, EnteredStep DEF InsideStep
    <3> QED
      BY <3>2, EnteredNextLaid
  <2> QED
    BY <2>1, <2>2, <2>3, <2>4
<1> QED
  BY <1>1, <1>2

\* What InsidersConvergeHolds says, of every behaviour of editors that only
\* insert: newcomers converge with those who are editing.
THEOREM InsertersWelcome ==
  ASSUME EditorsInsert
  PROVE  SessionSpec => []InsidersConverge
<1>1. EditorsFit
  BY DEF EditorsInsert
<1>2. SessionInit => EnteredInv /\ Outsiders /\ Entered!LaidInv
  BY <1>1, EnteredInit, EnteredInitLaid
<1>3. EnteredInv /\ Outsiders /\ Entered!LaidInv /\ [SessionNext]_sessionVars
        => EnteredInv' /\ Outsiders' /\ Entered!LaidInv'
  BY <1>1, LaidAsAnticipated, SessionKeeps, SessionKeepsLaid
<1> QED
  BY <1>2, <1>3, EnteredSettles, PTL DEF SessionSpec
=============================================================================
