------------------------- MODULE ServerAlone_proofs -------------------------
(***************************************************************************)
(* Whatever a server is sent, its broadcasts are enough to have its        *)
(* document, it crashes in one place only, and it gets stuck in a loop     *)
(* only on what no operation of positive sizes holds: for any operations,  *)
(* any documents it is opened with and any length of the history.          *)
(***************************************************************************)
EXTENDS ServerAlone, Ops_proofs

-----------------------------------------------------------------------------
(***************************************************************************)
(* The invariant.  Server and follower compose with the same composition,  *)
(* and the follower has no maximum size, so it takes what the server took; *)
(* that a composition is missing only while the history is empty says      *)
(* where a refusal can meet a NULL.                                        *)
(***************************************************************************)
Shaped ==
  /\ server_doc # NULL => IsDocument(server_doc)
  /\ IsDocument(follower)
  /\ follower.max_size = 0

AloneInv == Shaped /\ FollowerHasTheDocument /\ CrashesOnlyEmptyAndLimited

-----------------------------------------------------------------------------
LEMMA HashIsThere ==
  /\ \A id, parent, hash, comps : "hash" \in DOMAIN Op(id, parent, hash, comps)
  /\ \A x, h : "hash" \in DOMAIN x => x # NULL /\ [x EXCEPT !.hash = h] # NULL
<1>1. DOMAIN NULL = {"null"} /\ "hash" # "null"
  BY DEF NULL
<1>2. \A x, h : DOMAIN [x EXCEPT !.hash = h] = DOMAIN x
  OBVIOUS
<1>3. \A id, parent, hash, comps : "hash" \in DOMAIN Op(id, parent, hash, comps)
  BY DEF Op
<1> QED
  BY <1>1, <1>2, <1>3

LEMMA NewDocument ==
  /\ IsDocument(ot_new_doc(0))
  /\ ot_new_doc(0).max_size = 0
  /\ ot_new_doc(0) # NULL
<1>1. DOMAIN NULL = {"null"} /\ DOMAIN ot_new_doc(0) = {"history", "composed", "size", "max_size"}
  BY DEF NULL, ot_new_doc
<1> QED
  BY <1>1 DEF IsDocument, ot_new_doc

\* What composes is an operation, and only its author and its components
\* count.
LEMMA ComposedResult ==
  ASSUME NEW d, NEW op
  PROVE  /\ Composed(d, op) # NULL => "hash" \in DOMAIN Composed(d, op)
         /\ d.history = <<>> => Composed(d, op) # NULL
         /\ \A e, p, h :
              /\ e.history = d.history
              /\ e.composed = d.composed
              => Composed(e, Op(op.client_id, p, h, op.comps)) = Composed(d, op)
<1>1. \A p1, p2 : ot_compose(p1, p2) # NULL => "hash" \in DOMAIN ot_compose(p1, p2)
  BY HashIsThere DEF ot_compose, Composition
<1>2. Composed(d, op) # NULL => "hash" \in DOMAIN Composed(d, op)
  BY <1>1, HashIsThere DEF Composed
<1>3. d.history = <<>> => Composed(d, op) # NULL
  BY HashIsThere DEF Composed
<1>4. ASSUME NEW e, NEW p, NEW h, e.history = d.history, e.composed = d.composed
      PROVE  Composed(e, Op(op.client_id, p, h, op.comps)) = Composed(d, op)
  <2> DEFINE same == Op(op.client_id, p, h, op.comps)
  <2>1. same.client_id = op.client_id /\ same.comps = op.comps
    BY DEF Op
  <2> HIDE DEF same
  <2>2. ot_compose(e.composed, same) = ot_compose(d.composed, op)
    BY <1>4, <2>1 DEF ot_compose
  <2>3. Composed(e, same) = Composed(d, op)
    BY <1>4, <2>1, <2>2 DEF Composed
  <2> QED
    BY <2>3 DEF same
<1> QED
  BY <1>2, <1>3, <1>4

LEMMA ExtendedDocument ==
  ASSUME NEW d, IsDocument(d), NEW head, NEW composed, "hash" \in DOMAIN composed
  PROVE  /\ IsDocument(Extended(d, head, composed))
         /\ Extended(d, head, composed).history = Append(d.history, head)
         /\ Extended(d, head, composed).composed = [composed EXCEPT !.hash = head.hash]
         /\ Extended(d, head, composed).max_size = d.max_size
<1> DEFINE e == Extended(d, head, composed)
<1>1. /\ DOMAIN e = {"history", "composed", "size", "max_size"}
      /\ e.history = Append(d.history, head)
      /\ e.composed = [composed EXCEPT !.hash = head.hash]
      /\ e.max_size = d.max_size
  BY DEF Extended, IsDocument
<1> HIDE DEF e
<1>2. e.composed # NULL
  BY <1>1, HashIsThere
<1>3. IsDocument(e)
  BY <1>1, <1>2 DEF IsDocument
<1> QED
  BY <1>1, <1>3 DEF e

\* The three ways out of ot_doc_append.
LEMMA AppendCases ==
  ASSUME NEW d, NEW op
  PROVE  \/ /\ Exceeds(d, op)
            /\ ot_doc_append(d, op) = Refused(d, "max_size")
         \/ /\ ~Exceeds(d, op)
            /\ Composed(d, op) = NULL
            /\ ot_doc_append(d, op) = Refused(d, "append_failed")
         \/ /\ ~Exceeds(d, op)
            /\ Composed(d, op) # NULL
            /\ ot_doc_append(d, op) =
                 Moved(d, NewHead(d, op, Composed(d, op)), Composed(d, op))
BY DEF ot_doc_append, AppendComposed

LEMMA ResultFields ==
  /\ \A d, err : /\ Refused(d, err).doc = d
                 /\ Refused(d, err).err = err
  /\ \A d, head, composed : /\ Moved(d, head, composed).doc = Extended(d, head, composed)
                            /\ Moved(d, head, composed).err = "none"
                            /\ Moved(d, head, composed).op = head
BY DEF Refused, Moved

\* What one document has taken, another one with the same history takes in the
\* form the first has given to it, and the two are the same again.
LEMMA FollowerAppends ==
  ASSUME NEW d, IsDocument(d), NEW f, IsDocument(f), f.max_size = 0,
         f.history = d.history, f.composed = d.composed,
         NEW op, ot_doc_append(d, op).err = "none"
  PROVE  LET r == ot_doc_append(d, op)
             g == ot_doc_append(f, r.op).doc
         IN  /\ IsDocument(r.doc) /\ IsDocument(g)
             /\ g.max_size = 0
             /\ g.history = r.doc.history
             /\ g.composed = r.doc.composed
<1> DEFINE composed == Composed(d, op)
           head == NewHead(d, op, composed)
<1>1. /\ composed # NULL
      /\ ot_doc_append(d, op) = Moved(d, head, composed)
  <2>1. \A err : Refused(d, err).err = err
    BY ResultFields
  <2> QED
    BY <2>1, AppendCases
<1>2. head = Op(op.client_id, Parent(d), HashOf(ot_snapshot(composed.comps)), op.comps)
  BY DEF NewHead
<1>3. Composed(f, head) = composed
  BY <1>2, ComposedResult
<1>4. NewHead(f, head, composed) = head
  <2>1. head.client_id = op.client_id /\ head.comps = op.comps
    BY <1>2 DEF Op
  <2>2. Parent(f) = Parent(d)
    BY DEF Parent
  <2> QED
    BY <1>2, <2>1, <2>2 DEF NewHead
<1>5. "hash" \in DOMAIN composed
  BY <1>1, ComposedResult
<1> HIDE DEF composed, head
<1>6. ot_doc_append(f, head) = Moved(f, head, composed)
  <2>1. ~Exceeds(f, head)
    BY DEF Exceeds
  <2> QED
    BY <1>1, <1>3, <1>4, <2>1, AppendCases
<1>7. /\ ot_doc_append(d, op).doc = Extended(d, head, composed)
      /\ ot_doc_append(d, op).op = head
      /\ ot_doc_append(f, head).doc = Extended(f, head, composed)
  BY <1>1, <1>6, ResultFields
<1>8. ASSUME NEW e, e = d \/ e = f
      PROVE  /\ IsDocument(Extended(e, head, composed))
             /\ Extended(e, head, composed).history = Append(d.history, head)
             /\ Extended(e, head, composed).composed = [composed EXCEPT !.hash = head.hash]
             /\ Extended(e, head, composed).max_size = e.max_size
  <2>1. IsDocument(e) /\ e.history = d.history
    BY <1>8
  <2> QED
    BY <1>5, <2>1, ExtendedDocument
<1> QED
  BY <1>7, <1>8

\* Whatever is given to append_op, a refusal leaves the document as it was,
\* and without a composition only for its maximum size.
LEMMA Refusal ==
  ASSUME NEW d, IsDocument(d), NEW op, op # NULL, ot_doc_append(d, op).err # "none"
  PROVE  /\ ot_doc_append(d, op).doc = d
         /\ d.composed = NULL => d.history = <<>> /\ d.max_size > 0
<1>1. \/ Exceeds(d, op) /\ ot_doc_append(d, op) = Refused(d, "max_size")
      \/ Composed(d, op) = NULL /\ ot_doc_append(d, op) = Refused(d, "append_failed")
  BY AppendCases, ResultFields
<1>2. ot_doc_append(d, op).doc = d
  BY <1>1, ResultFields
<1>3. d.composed = NULL => d.history = <<>> /\ Exceeds(d, op)
  BY <1>1, ComposedResult DEF IsDocument
<1> QED
  BY <1>2, <1>3 DEF Exceeds

-----------------------------------------------------------------------------
LEMMA ReceivedIsAppended ==
  ASSUME NEW op, op # NULL
  PROVE  ReceivedOn(server_doc, op) =
           IF Candidate(op) = NULL THEN Refused(Document, "xform_failed")
                                   ELSE ot_doc_append(Document, Candidate(op))
<1>1. CASE server_doc = NULL
  BY <1>1 DEF ReceivedOn, append_op, Candidate, Document
<1>2. CASE server_doc # NULL
  BY <1>2 DEF ReceivedOn, append_op, Candidate, Document
<1> QED
  BY <1>1, <1>2

LEMMA InitAlone == Init => AloneInv
<1> SUFFICES ASSUME Init PROVE AloneInv
  OBVIOUS
<1>1. IsDocument(Document) /\ (server_doc # NULL => IsDocument(server_doc))
  BY OpeningsAssumption, NewDocument DEF Init, Document
<1>2. follower = [Document EXCEPT !.max_size = 0]
  BY DEF Init
<1>3. /\ DOMAIN follower = {"history", "composed", "size", "max_size"}
      /\ follower.history = Document.history
      /\ follower.composed = Document.composed
      /\ follower.max_size = 0
  BY <1>1, <1>2 DEF IsDocument
<1>4. IsDocument(follower)
  BY <1>1, <1>3 DEF IsDocument
<1>5. status # "crashed"
  BY DEF Init
<1> QED
  BY <1>1, <1>3, <1>4, <1>5
  DEF AloneInv, Shaped, FollowerHasTheDocument, CrashesOnlyEmptyAndLimited

\* The server stops: it keeps its document, and if it crashed, that one is
\* empty and has a maximum size.
LEMMA StopKeepsAlone ==
  ASSUME AloneInv, NEW why, NEW op, Stops(why, op),
         why = "crashed" => Document.history = <<>> /\ Document.max_size > 0
  PROVE  AloneInv'
<1>1. status' = why /\ UNCHANGED <<server_doc, follower>>
  BY DEF Stops
<1>2. Document' = Document
  BY <1>1 DEF Document
<1> QED
  BY <1>1, <1>2 DEF AloneInv, Shaped, FollowerHasTheDocument, CrashesOnlyEmptyAndLimited

LEMMA ReceiveKeepsAlone ==
  ASSUME AloneInv, NEW op, op # NULL, ReceiveOp(op)
  PROVE  AloneInv'
<1> DEFINE r == ReceivedOn(server_doc, op)
<1>1. IsDocument(Document)
  BY NewDocument DEF AloneInv, Shaped, Document
<1>2. CASE Sticks(op) /\ Stops("stuck", op)
  BY <1>2, StopKeepsAlone
<1>3. CASE Crashes(op, r) /\ Stops("crashed", op)
  <2>1. Candidate(op) # NULL /\ r.err # "none" /\ r.doc.composed = NULL
    BY <1>3 DEF Crashes
  <2>2. r = ot_doc_append(Document, Candidate(op))
    BY <2>1, ReceivedIsAppended
  <2>3. Document.history = <<>> /\ Document.max_size > 0
    BY <1>1, <2>1, <2>2, Refusal
  <2> QED
    BY <1>3, <2>3, StopKeepsAlone
<1>4. CASE /\ server_doc' = r.doc
           /\ \/ r.err = "none" /\ Follows(r.op)
              \/ r.err # "none" /\ UNCHANGED follower
           /\ UNCHANGED <<status, message>>
           /\ status = "ready"
  <2>1. status' # "crashed"
    BY <1>4
  <2>2. CASE r.err = "none" /\ Follows(r.op)
    <3>1. Candidate(op) # NULL /\ r = ot_doc_append(Document, Candidate(op))
      BY <2>2, ReceivedIsAppended, ResultFields
    <3>2. follower' = ot_doc_append(follower, r.op).doc
      BY <2>2 DEF Follows
    <3>3. /\ IsDocument(r.doc) /\ IsDocument(follower')
          /\ follower'.max_size = 0
          /\ follower'.history = r.doc.history
          /\ follower'.composed = r.doc.composed
      BY <1>1, <2>2, <3>1, <3>2, FollowerAppends
      DEF AloneInv, Shaped, FollowerHasTheDocument
    <3>4. server_doc' # NULL
      <4>1. DOMAIN NULL = {"null"} /\ DOMAIN server_doc' = {"history", "composed", "size", "max_size"}
        BY <1>4, <3>3 DEF NULL, IsDocument
      <4> QED
        BY <4>1
    <3>5. Document' = r.doc
      BY <1>4, <3>4 DEF Document
    <3> HIDE DEF r
    <3> QED
      BY <1>4, <2>1, <3>3, <3>5
      DEF AloneInv, Shaped, FollowerHasTheDocument, CrashesOnlyEmptyAndLimited
  <2>3. CASE r.err # "none" /\ UNCHANGED follower
    <3>1. r.doc = Document
      BY <1>1, <2>3, ReceivedIsAppended, Refusal, ResultFields
    <3>2. Document' = Document /\ IsDocument(server_doc')
      BY <1>1, <1>4, <3>1 DEF Document
    <3> QED
      BY <2>1, <2>3, <3>2
      DEF AloneInv, Shaped, FollowerHasTheDocument, CrashesOnlyEmptyAndLimited
  <2> QED
    BY <1>4, <2>2, <2>3
<1> QED
  BY <1>2, <1>3, <1>4 DEF ReceiveOp

LEMMA NextKeepsAlone == AloneInv /\ [Next]_vars => AloneInv'
<1> SUFFICES ASSUME AloneInv, [Next]_vars PROVE AloneInv'
  OBVIOUS
<1>1. CASE Next
  <2>1. PICK comps \in Comps, parent \in Parents : ReceiveOp(Op(1, parent, ZeroHash, comps))
    BY <1>1 DEF Next
  <2>2. Op(1, parent, ZeroHash, comps) # NULL
    BY HashIsThere
  <2> QED
    BY <2>1, <2>2, ReceiveKeepsAlone
<1>2. CASE UNCHANGED vars
  <2>1. UNCHANGED <<server_doc, follower, status>>
    BY <1>2 DEF vars
  <2>2. Document' = Document
    BY <2>1 DEF Document
  <2> QED
    BY <2>1, <2>2
    DEF AloneInv, Shaped, FollowerHasTheDocument, CrashesOnlyEmptyAndLimited
<1> QED
  BY <1>1, <1>2

LEMMA AloneInvariant == Spec => []AloneInv
BY InitAlone, NextKeepsAlone, PTL DEF Spec

-----------------------------------------------------------------------------
\* A follower that sees nothing but the broadcasts of ot_server_receive has the
\* server's document, operation for operation and hash for hash.
THEOREM FollowerHasTheDocumentHolds == Spec => []FollowerHasTheDocument
<1>1. AloneInv => FollowerHasTheDocument
  BY DEF AloneInv
<1> QED
  BY <1>1, AloneInvariant, PTL

\* The NULL that append_op encodes (server.c) is met only by the first operation
\* of a document with a maximum size.
THEOREM CrashesOnlyEmptyAndLimitedHolds == Spec => []CrashesOnlyEmptyAndLimited
<1>1. AloneInv => CrashesOnlyEmptyAndLimited
  BY DEF AloneInv
<1> QED
  BY <1>1, AloneInvariant, PTL
-----------------------------------------------------------------------------
(***************************************************************************)
(* Where the server can get stuck.  ot_compose walks over its two          *)
(* operations to the end or fails, so a document that has taken a second   *)
(* operation had a first one that can be passed, and whatever it has taken *)
(* since can be passed too, and the compositions of it.                    *)
(***************************************************************************)
Given ==
  Comps \cup UNION {{d.composed.comps} \cup {op.comps : op \in ToSet(d.history)} :
                      d \in Openings \ {NULL}}
Letters == UNION {Alphabet(comps) : comps \in Given}

Clean(op) == op.comps \in OperationsOver(Letters) /\ Passable(op.comps)

StartsClean(d) == d.history # <<>> /\ Passable(d.history[1].comps)
AllClean(d) == Clean(d.composed) /\ \A i \in 1..Len(d.history) : Clean(d.history[i])

PassInv(d) ==
  /\ d.history \in Seq(ToSet(d.history))
  /\ d.history # <<>> => d.composed.hash = Last(d.history).hash
  /\ Len(d.history) = 1 => /\ d.composed.comps = d.history[1].comps
                           /\ d.composed.comps \in OperationsOver(Letters)
  /\ Len(d.history) > 1 => AllClean(d)

StuckInv == PassInv(Document) /\ SticksOnlyOnEmpty

LEMMA GivenOverLetters ==
  ASSUME NEW comps \in Given, IsOperation(comps)
  PROVE  comps \in OperationsOver(Letters)
<1>1. Alphabet(comps) \subseteq Letters
  BY DEF Letters
<1> QED
  BY <1>1, OperationOver

LEMMA MessageOverLetters ==
  ASSUME NEW comps \in Comps
  PROVE  comps \in OperationsOver(Letters)
BY CompsAssumption, GivenOverLetters DEF Given

LEMMA OneOrMore == \A n \in Nat : n # 0 => n = 1 \/ n > 1
OBVIOUS

LEMMA StartIsEnough ==
  ASSUME NEW d, PassInv(d), d.history # <<>>
  PROVE  /\ StartsClean(d) <=> AllClean(d)
         /\ Len(d.history) > 1 => StartsClean(d)
         /\ d.composed.comps \in OperationsOver(Letters)
         /\ Passable(d.composed.comps) => StartsClean(d)
<1> DEFINE h == d.history
<1>1. Len(h) \in Nat /\ Len(h) # 0
  <2>1. h \in Seq(ToSet(h)) /\ h # <<>>
    BY DEF PassInv
  <2> HIDE DEF h
  <2> QED
    BY <2>1
<1> HIDE DEF h
<1>2. CASE Len(h) = 1
  <2>1. d.composed.comps = h[1].comps /\ d.composed.comps \in OperationsOver(Letters)
    BY <1>2 DEF PassInv, h
  <2>2. \A i \in 1..Len(h) : i = 1
    BY <1>2
  <2>3. 1 \in 1..Len(h)
    BY <1>2
  <2> QED
    BY <1>2, <2>1, <2>2, <2>3 DEF StartsClean, AllClean, Clean, h
<1>3. CASE Len(h) > 1
  <2>1. AllClean(d) /\ 1 \in 1..Len(h)
    BY <1>1, <1>3 DEF PassInv, h
  <2> QED
    BY <2>1 DEF StartsClean, AllClean, Clean, h
<1>4. Len(h) = 1 \/ Len(h) > 1
  BY <1>1, OneOrMore
<1> QED
  BY <1>2, <1>3, <1>4

LEMMA NewIsClean == PassInv(ot_new_doc(0))
<1>1. ot_new_doc(0).history = <<>>
  BY DEF ot_new_doc
<1>2. \A S : <<>> \in Seq(S)
  OBVIOUS
<1> DEFINE d == ot_new_doc(0)
<1>3. d.history = <<>> /\ d.history \in Seq(ToSet(d.history))
  BY <1>1, <1>2
<1>5. Len(d.history) = 0
  BY <1>1
<1> HIDE DEF d
<1>4. PassInv(d)
  BY <1>3, <1>5 DEF PassInv
<1> QED
  BY <1>4 DEF d

LEMMA OpeningIsClean ==
  ASSUME NEW d \in Openings, d # NULL
  PROVE  PassInv(d)
<1>1. IsWritten(d)
  BY OpeningsAssumption
<1> DEFINE h == d.history
<1>2. h \in Seq(ToSet(h)) /\ \A i \in 1..Len(h) : h[i] \in ToSet(h)
  <2>1. ToSet(h) = {h[i] : i \in DOMAIN h} /\ h \in Seq({h[i] : i \in DOMAIN h})
    BY <1>1 DEF IsWritten, IsSequence, ToSet
  <2>2. h \in Seq(ToSet(h))
    BY <2>1
  <2>3. DOMAIN h = 1..Len(h)
    BY <2>2
  <2> QED
    BY <2>1, <2>2, <2>3
<1>3. \A op \in ToSet(h) : op.comps \in Given
  BY DEF Given
<1>4. d.composed.comps \in Given
  BY DEF Given
<1>5. Len(h) \in Nat /\ (Len(h) # 0 => h # <<>>)
  <2> HIDE DEF h
  <2> QED
    BY <1>2
<1>6. ASSUME Len(h) > 1 PROVE AllClean(d)
  <2>1. /\ IsOperation(d.composed.comps) /\ Passable(d.composed.comps)
        /\ \A op \in ToSet(h) : IsOperation(op.comps) /\ Passable(op.comps)
    BY <1>1, <1>5, <1>6 DEF IsWritten
  <2>2. Clean(d.composed)
    BY <1>4, <2>1, GivenOverLetters DEF Clean
  <2>3. \A op \in ToSet(h) : Clean(op)
    BY <1>3, <2>1, GivenOverLetters DEF Clean
  <2> QED
    BY <1>2, <2>2, <2>3 DEF AllClean
<1>7. ASSUME Len(h) = 1
      PROVE  d.composed.comps = h[1].comps /\ d.composed.comps \in OperationsOver(Letters)
  <2>1. IsOperation(d.composed.comps) /\ d.composed.comps = h[1].comps
    BY <1>1, <1>5, <1>7 DEF IsWritten
  <2> QED
    BY <1>4, <2>1, GivenOverLetters
<1> QED
  BY <1>1, <1>2, <1>6, <1>7 DEF PassInv, IsWritten

LEMMA AppendIsClean ==
  ASSUME NEW d, IsDocument(d), PassInv(d), NEW op,
         op.comps \in OperationsOver(Letters),
         d.history # <<>> /\ ~Exceeds(d, op) =>
           ~ComposeRunning(ComposeComps(d.composed.comps, op.comps)),
         ot_doc_append(d, op).err = "none"
  PROVE  PassInv(ot_doc_append(d, op).doc)
<1> DEFINE composed == Composed(d, op)
           head == NewHead(d, op, composed)
           e == ot_doc_append(d, op).doc
           h == d.history
<1>1. /\ ~Exceeds(d, op)
      /\ composed # NULL
      /\ ot_doc_append(d, op) = Moved(d, head, composed)
  <2>1. \A err : Refused(d, err).err = err
    BY ResultFields
  <2> QED
    BY <2>1, AppendCases
<1>2. head.comps = op.comps
  <2> HIDE DEF composed
  <2> QED
    BY DEF NewHead, Op
<1>3. "hash" \in DOMAIN composed
  BY <1>1, ComposedResult
<1>4. e = Extended(d, head, composed)
  BY <1>1, ResultFields
<1>5. e.history = Append(h, head) /\ e.composed = [composed EXCEPT !.hash = head.hash]
  BY <1>3, <1>4, ExtendedDocument
<1>6. e.composed.hash = head.hash /\ e.composed.comps = composed.comps
  <2>1. "comps" \in DOMAIN composed
    BY <1>1 DEF composed, Composed, ot_compose, Composition, Op
  <2> HIDE DEF composed, head, e
  <2> QED
    BY <1>3, <1>5, <2>1
<1> HIDE DEF e, head
<1>7. h \in Seq(ToSet(h) \cup {head})
  <2>1. h \in Seq(ToSet(h))
    BY DEF PassInv
  <2> QED
    BY <2>1
<1>8. /\ Len(h) \in Nat /\ Len(e.history) = Len(h) + 1
      /\ \A i \in 1..Len(h) : e.history[i] = h[i]
      /\ e.history[Len(h) + 1] = head
      /\ e.history \in Seq(ToSet(h) \cup {head})
  <2> HIDE DEF h
  <2> QED
    BY <1>5, <1>7
<1>9. e.history \in Seq(ToSet(e.history)) /\ Last(e.history) = head
  <2>1. Len(e.history) # 0
    BY <1>8
  <2> DEFINE g == e.history
  <2>2. g \in Seq(ToSet(h) \cup {head}) /\ g[Len(g)] = head
    BY <1>8
  <2> HIDE DEF g, h
  <2>3. g \in Seq(ToSet(g))
    <3>1. Len(g) \in Nat /\ DOMAIN g = 1..Len(g)
      BY <2>2
    <3>2. \A i \in 1..Len(g) : g[i] \in ToSet(g)
      BY <3>1 DEF ToSet
    <3> QED
      BY <2>2, <3>1, <3>2
  <2> QED
    BY <2>2, <2>3 DEF g, Last
<1>10. CASE h = <<>>
  <2>1. Len(h) = 0
    BY <1>10
  <2>2. e.history[1] = head /\ Len(e.history) = 1
    BY <1>8, <2>1
  <2>3. composed.comps = op.comps
    BY <1>10 DEF composed, Composed, Op
  <2>4. e.composed.comps = e.history[1].comps /\ e.composed.comps \in OperationsOver(Letters)
    BY <1>2, <1>6, <2>2, <2>3
  <2> QED
    BY <1>6, <1>9, <2>2, <2>4 DEF PassInv, e
<1>11. CASE h # <<>>
  <2> DEFINE p == d.composed.comps
             s == ComposeComps(p, op.comps)
  <2>1. p \in OperationsOver(Letters) /\ op.comps \in OperationsOver(Letters)
    BY <1>11, StartIsEnough
  <2>2. composed = Composition(d.composed, s)
    BY <1>11 DEF composed, Composed, ot_compose
  <2>3. ~ComposeRunning(s)
    BY <1>1, <1>11
  <2> HIDE DEF p, s, composed
  <2>4. ~s.failed /\ composed.comps = s.composed
    <3>1. ~s.failed
      BY <1>1, <2>2 DEF Composition
    <3> QED
      BY <2>2, <3>1 DEF Composition, Op
  <2>5. BothPass(p, op.comps)
    BY <2>1, <2>3, <2>4, ComposeEnds DEF s
  <2>6. InSequence(Letters, p, op.comps, s.composed) /\ WellMade(s.composed)
    BY <2>1, <2>4, <2>5, ComposeResult DEF s
  <2>7. Clean(head)
    BY <1>2, <2>1, <2>5 DEF Clean, BothPass
  <2>8. Clean(e.composed)
    BY <1>6, <2>4, <2>6 DEF Clean, InSequence, WellMade
  <2>9. \A i \in 1..Len(h) : Clean(h[i])
    <3>1. Passable(d.composed.comps)
      BY <2>5 DEF BothPass, p
    <3>2. AllClean(d)
      BY <1>11, <3>1, StartIsEnough
    <3> QED
      BY <3>2 DEF AllClean
  <2>10. \A i \in 1..Len(e.history) : i \in 1..Len(h) \/ i = Len(h) + 1
    BY <1>8
  <2>11. Len(h) # 0
    <3>1. h \in Seq(ToSet(h) \cup {head})
      BY <1>7
    <3> HIDE DEF h
    <3> QED
      BY <1>11, <3>1
  <2> HIDE DEF h
  <2>12. AllClean(e)
    BY <1>8, <2>7, <2>8, <2>9, <2>10 DEF AllClean
  <2>13. Len(e.history) # 1
    BY <1>8, <2>11
  <2> QED
    BY <1>6, <1>9, <2>12, <2>13 DEF PassInv, e
<1> QED
  BY <1>10, <1>11

(***************************************************************************)
(* What is given to append_op.  With a history the server does not get     *)
(* stuck on what it can pass, and passes it on only if it could.           *)
(***************************************************************************)
LEMMA Since ==
  ASSUME PassInv(Document), StartsClean(Document), server_doc # NULL, NEW op,
         ~can_append(server_doc, op), NEW since,
         since = ot_doc_compose_after(server_doc, op.parent), since # NULL
  PROVE  Clean(since)
<1>1. server_doc = Document
  BY DEF Document
<1>2. Document.history # <<>>
  BY DEF StartsClean
<1>3. op.parent # Document.composed.hash
  BY <1>1, <1>2 DEF can_append
<1>4. CleanDoc(Letters, Document)
  <2>1. AllClean(Document)
    BY <1>2, StartIsEnough
  <2> QED
    BY <1>2, <2>1 DEF AllClean, PassInv, CleanDoc, Clean, CleanOver
<1>5. CleanOver(Letters, since)
  BY <1>1, <1>3, <1>4, SinceIsClean
<1> QED
  BY <1>5 DEF Clean, CleanOver

\* The operation ot_xform makes of the message.
LEMMA XformedOperation ==
  ASSUME NEW since, since # NULL, NEW op, XformAfter(since, op) # NULL
  PROVE  /\ ~XformComps(since.comps, op.comps).failed
         /\ XformAfter(since, op).comps = XformComps(since.comps, op.comps).prime2
<1> DEFINE s == XformComps(since.comps, op.comps)
<1>1. XformAfter(since, op) = Primes(since, op, s)[2]
  BY DEF XformAfter, ot_xform
<1> HIDE DEF s
<1>2. ~s.failed
  BY <1>1 DEF Primes
<1>3. XformAfter(since, op) = Op(op.client_id, since.hash, ZeroHash, s.prime2)
  BY <1>1, <1>2 DEF Primes
<1>4. XformAfter(since, op).comps = s.prime2
  BY <1>3 DEF Op
<1> QED
  BY <1>2, <1>4 DEF s

\* What the message is transformed against: of one operation, whatever it is,
\* the copy.
LEMMA SinceIsTyped ==
  ASSUME PassInv(Document), server_doc # NULL, NEW op, ~can_append(server_doc, op),
         NEW since, since = ot_doc_compose_after(server_doc, op.parent), since # NULL
  PROVE  since.comps \in OperationsOver(Letters)
<1> DEFINE h == Document.history
           after == op.parent
           P == Positions(Document, after)
<1>1. server_doc = Document
  BY DEF Document
<1>2. h # <<>> /\ (after = ZeroHash \/ P # {})
      /\ since = ComposeFrom(h, Start(Document, after))
  BY <1>1 DEF ot_doc_compose_after
<1>3. after # Document.composed.hash
  BY <1>1, <1>2 DEF can_append
<1>4. CASE Len(h) = 1
  <2>1. h[1].comps \in OperationsOver(Letters) /\ Document.composed.hash = h[1].hash
    BY <1>2, <1>4 DEF PassInv, Last
  <2>2. P = {}
    <3>1. \A i \in 1..Len(h) : h[i].hash # after
      BY <1>3, <1>4, <2>1
    <3> QED
      BY <3>1 DEF Positions
  <2>3. Start(Document, after) = 1
    BY <1>2, <2>2 DEF Start
  <2>4. since = ot_dup_op(h[1])
    BY <1>2, <1>4, <2>3, SinceLast
  <2>5. ot_dup_op(h[1]).comps = FoldLeft(Rebuilt, <<>>, h[1].comps)
    BY DEF ot_dup_op, Op
  <2> DEFINE list == h[1].comps
  <2>6. list \in OperationsOver(Letters)
    BY <2>1
  <2> HIDE DEF list
  <2>7. FoldLeft(Rebuilt, <<>>, list) \in OperationsOver(Letters)
    BY <2>6, CopyAlike DEF Alike
  <2> QED
    BY <2>4, <2>5, <2>7 DEF list
<1>5. CASE Len(h) # 1
  <2>1. Len(h) > 1
    <3>1. h \in Seq(ToSet(h)) /\ h # <<>>
      BY <1>2 DEF PassInv
    <3> HIDE DEF h
    <3>2. Len(h) \in Nat /\ Len(h) # 0
      BY <3>1
    <3> QED
      BY <1>5, <3>2, OneOrMore
  <2>2. StartsClean(Document)
    BY <1>2, <2>1, StartIsEnough
  <2>3. Clean(since)
    BY <2>2, Since
  <2> QED
    BY <2>3 DEF Clean
<1> QED
  BY <1>4, <1>5

LEMMA CandidateIsTyped ==
  ASSUME PassInv(Document), NEW op, op.comps \in OperationsOver(Letters),
         ~XformSticks(op), Candidate(op) # NULL
  PROVE  Candidate(op).comps \in OperationsOver(Letters)
<1>1. CASE server_doc = NULL \/ can_append(server_doc, op)
  BY <1>1 DEF Candidate
<1>2. CASE server_doc # NULL /\ ~can_append(server_doc, op)
  <2> DEFINE since == ot_doc_compose_after(server_doc, op.parent)
             s == XformComps(since.comps, op.comps)
  <2>1. Candidate(op) = XformAfter(since, op)
    BY <1>2 DEF Candidate, xform
  <2>2. since # NULL
    BY <2>1 DEF XformAfter
  <2>3. ~XformRunning(s)
    BY <1>2, <2>2 DEF XformSticks
  <2> HIDE DEF since
  <2>6. ~s.failed /\ Candidate(op).comps = s.prime2
    BY <2>1, <2>2, XformedOperation
  <2>7. since.comps \in OperationsOver(Letters)
    BY <1>2, <2>2, SinceIsTyped DEF since
  <2> HIDE DEF s
  <2>8. BothPass(since.comps, op.comps)
    BY <2>3, <2>6, <2>7, XformEnds DEF s
  <2>9. Merged(Letters, since.comps, op.comps, s.prime1, s.prime2)
    BY <2>6, <2>7, <2>8, XformResult DEF s
  <2> QED
    BY <2>6, <2>9 DEF Merged
<1> QED
  BY <1>1, <1>2

LEMMA CleanDoesNotStick ==
  ASSUME PassInv(Document), NEW op, Clean(op), StartsClean(Document)
  PROVE  ~Sticks(op)
<1> DEFINE since == ot_doc_compose_after(server_doc, op.parent)
<1>1. ASSUME server_doc # NULL, ~can_append(server_doc, op), since # NULL
      PROVE  /\ Clean(since)
             /\ BothPass(since.comps, op.comps)
             /\ since.comps \in OperationsOver(Letters) /\ op.comps \in OperationsOver(Letters)
  <2>1. Clean(since)
    <3> HIDE DEF since
    <3> QED
      BY <1>1, Since DEF since
  <2> QED
    BY <2>1 DEF Clean, BothPass
<1>2. ~XformSticks(op)
  <2> SUFFICES ASSUME XformSticks(op) PROVE FALSE
    OBVIOUS
  <2>1. /\ server_doc # NULL /\ ~can_append(server_doc, op) /\ since # NULL
        /\ XformRunning(XformComps(since.comps, op.comps))
    BY DEF XformSticks
  <2> HIDE DEF since
  <2> QED
    BY <1>1, <2>1, XformCall
<1>3. ASSUME Candidate(op) # NULL PROVE Clean(Candidate(op))
  <2>1. CASE server_doc = NULL \/ can_append(server_doc, op)
    BY <2>1 DEF Candidate
  <2>2. CASE server_doc # NULL /\ ~can_append(server_doc, op)
    <3> DEFINE s == XformComps(since.comps, op.comps)
    <3>1. Candidate(op) = XformAfter(since, op)
      BY <2>2 DEF Candidate, xform
    <3>2. since # NULL
      BY <1>3, <3>1 DEF XformAfter
    <3> HIDE DEF since
    <3>3. ~s.failed /\ Candidate(op).comps = s.prime2
      BY <1>3, <3>1, <3>2, XformedOperation
    <3> HIDE DEF s
    <3>4. Merged(Letters, since.comps, op.comps, s.prime1, s.prime2)
          /\ BothPass(s.prime1, s.prime2)
      BY <1>1, <2>2, <3>2, <3>3, XformResult DEF s
    <3> QED
      BY <3>3, <3>4 DEF Merged, Clean, BothPass
  <2> QED
    BY <2>1, <2>2
<1>4. ASSUME Candidate(op) # NULL PROVE ~AppendSticks(Candidate(op))
  <2> DEFINE x == Candidate(op)
             p == Document.composed.comps
  <2>1. Clean(Document.composed) /\ Clean(x)
    <3>1. AllClean(Document)
      BY StartIsEnough DEF StartsClean
    <3> QED
      BY <1>3, <1>4, <3>1 DEF AllClean
  <2>2. p \in OperationsOver(Letters) /\ x.comps \in OperationsOver(Letters)
        /\ BothPass(p, x.comps)
    BY <2>1 DEF Clean, BothPass
  <2> HIDE DEF x, p
  <2>3. ~ComposeRunning(ComposeComps(p, x.comps))
    BY <2>2, ComposeCall
  <2> QED
    BY <2>3 DEF AppendSticks, x, p
<1> QED
  BY <1>2, <1>4 DEF Sticks

LEMMA InitStuck == Init => StuckInv
<1> SUFFICES ASSUME Init PROVE StuckInv
  OBVIOUS
<1>1. PassInv(Document)
  BY NewIsClean, OpeningIsClean DEF Init, Document
<1>2. status # "stuck"
  BY DEF Init
<1> QED
  BY <1>1, <1>2 DEF StuckInv, SticksOnlyOnEmpty

LEMMA StopKeepsStuck ==
  ASSUME StuckInv, NEW why, NEW op, Stops(why, op),
         why = "stuck" =>
           \/ ~Passable(op.comps)
           \/ Len(Document.history) = 1 /\ ~Passable(Document.history[1].comps)
  PROVE  StuckInv'
<1>1. status' = why /\ message' = op /\ UNCHANGED server_doc
  BY DEF Stops
<1>2. Document' = Document
  BY <1>1 DEF Document
<1> QED
  BY <1>1, <1>2 DEF StuckInv, SticksOnlyOnEmpty

LEMMA ReceiveKeepsStuck ==
  ASSUME AloneInv, StuckInv, NEW op, op # NULL, op.comps \in OperationsOver(Letters),
         ReceiveOp(op)
  PROVE  StuckInv'
<1> DEFINE r == ReceivedOn(server_doc, op)
<1>1. IsDocument(Document) /\ PassInv(Document)
  BY NewDocument DEF AloneInv, Shaped, Document, StuckInv
<1>2. CASE Sticks(op) /\ Stops("stuck", op)
  <2>1. Document.history # <<>>
    <3> SUFFICES ASSUME Document.history = <<>> PROVE FALSE
      OBVIOUS
    <3>1. ~AppendSticks(Candidate(op))
      BY DEF AppendSticks
    <3>2. ~XformSticks(op)
      BY DEF XformSticks, ot_doc_compose_after, Document
    <3> QED
      BY <1>2, <3>1, <3>2 DEF Sticks
  <2>2. ASSUME Passable(op.comps)
        PROVE  Len(Document.history) = 1 /\ ~Passable(Document.history[1].comps)
    <3>1. ~StartsClean(Document)
      BY <1>1, <1>2, <2>2, CleanDoesNotStick DEF Clean
    <3>2. ~(Len(Document.history) > 1)
      BY <1>1, <2>1, <3>1, StartIsEnough
    <3>3. Len(Document.history) \in Nat /\ Len(Document.history) # 0
      <4> DEFINE h == Document.history
      <4>1. h \in Seq(ToSet(h)) /\ h # <<>>
        BY <1>1, <2>1 DEF PassInv
      <4> HIDE DEF h
      <4>2. Len(h) \in Nat /\ Len(h) # 0
        BY <4>1
      <4> QED
        BY <4>2 DEF h
    <3>4. Len(Document.history) = 1
      BY <3>2, <3>3, OneOrMore
    <3> QED
      BY <2>1, <3>1, <3>4 DEF StartsClean
  <2> QED
    BY <1>2, <2>2, StopKeepsStuck
<1>3. CASE Crashes(op, r) /\ Stops("crashed", op)
  BY <1>3, StopKeepsStuck
<1>4. CASE /\ ~Sticks(op)
           /\ ~Crashes(op, r)
           /\ server_doc' = r.doc
           /\ UNCHANGED <<status, message>>
           /\ status = "ready"
  <2>1. status' # "stuck"
    BY <1>4
  <2>2. CASE r.err = "none"
    <3>1. Candidate(op) # NULL /\ r = ot_doc_append(Document, Candidate(op))
      BY <2>2, ReceivedIsAppended, ResultFields
    <3>2. ~XformSticks(op) /\ ~AppendSticks(Candidate(op))
      BY <1>4, <3>1 DEF Sticks
    <3> DEFINE x == Candidate(op)
               d == Document
    <3>3. x.comps \in OperationsOver(Letters)
      BY <1>1, <3>1, <3>2, CandidateIsTyped
    <3>4. d.history # <<>> /\ ~Exceeds(d, x) => ~ComposeRunning(ComposeComps(d.composed.comps, x.comps))
      BY <3>2 DEF AppendSticks
    <3>5. IsDocument(d) /\ PassInv(d) /\ ot_doc_append(d, x).err = "none"
      BY <1>1, <2>2, <3>1
    <3>6. r.doc = ot_doc_append(d, x).doc
      BY <3>1
    <3> HIDE DEF r, x, d
    <3>7. PassInv(r.doc)
      BY <3>3, <3>4, <3>5, <3>6, AppendIsClean
    <3>8. Document' = r.doc
      <4>1. IsDocument(r.doc)
        <5>1. AloneInv'
          BY ReceiveKeepsAlone
        <5> QED
          BY <1>4, <2>2, <5>1, <3>5, <3>6, FollowerAppends DEF AloneInv, Shaped, FollowerHasTheDocument, d
      <4>2. server_doc' # NULL
        <5>1. DOMAIN NULL = {"null"} /\ DOMAIN server_doc' = {"history", "composed", "size", "max_size"}
          BY <1>4, <4>1 DEF NULL, IsDocument
        <5> QED
          BY <5>1
      <4> QED
        BY <1>4, <4>2 DEF Document
    <3> QED
      BY <2>1, <3>7, <3>8 DEF StuckInv, SticksOnlyOnEmpty
  <2>3. CASE r.err # "none"
    <3>1. r.doc = Document
      BY <1>1, <2>3, ReceivedIsAppended, Refusal, ResultFields
    <3>2. Document' = Document
      BY <1>1, <1>4, <3>1 DEF Document
    <3> QED
      BY <1>1, <2>1, <3>2 DEF StuckInv, SticksOnlyOnEmpty
  <2> QED
    BY <2>2, <2>3
<1> QED
  BY <1>2, <1>3, <1>4 DEF ReceiveOp

LEMMA NextKeepsStuck == AloneInv /\ StuckInv /\ [Next]_vars => StuckInv'
<1> SUFFICES ASSUME AloneInv, StuckInv, [Next]_vars PROVE StuckInv'
  OBVIOUS
<1>1. CASE Next
  <2>1. PICK comps \in Comps, parent \in Parents : ReceiveOp(Op(1, parent, ZeroHash, comps))
    BY <1>1 DEF Next
  <2> DEFINE op == Op(1, parent, ZeroHash, comps)
  <2>2. op # NULL /\ op.comps = comps
    BY HashIsThere DEF Op
  <2>3. op.comps \in OperationsOver(Letters)
    BY <2>2, MessageOverLetters
  <2> HIDE DEF op
  <2> QED
    BY <2>1, <2>2, <2>3, ReceiveKeepsStuck DEF op
<1>2. CASE UNCHANGED vars
  <2>1. UNCHANGED <<server_doc, status, message>>
    BY <1>2 DEF vars
  <2>2. Document' = Document
    BY <2>1 DEF Document
  <2> QED
    BY <2>1, <2>2 DEF StuckInv, SticksOnlyOnEmpty
<1> QED
  BY <1>1, <1>2

\* A loop of ot_xform or ot_compose that does not end in ot_server_receive is
\* the fault of the message, or of the one operation the document consists of;
\* a document that has taken a second one never stops the server.
THEOREM SticksOnlyOnEmptyHolds == Spec => []SticksOnlyOnEmpty
<1>1. StuckInv => SticksOnlyOnEmpty
  BY DEF StuckInv
<1> QED
  BY <1>1, InitStuck, NextKeepsStuck, AloneInvariant, PTL DEF Spec
=============================================================================
