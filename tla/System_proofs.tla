--------------------------- MODULE System_proofs ---------------------------
(***************************************************************************)
(* Five invariants of System, for any number of clients and operations.    *)
(* The control state is right for any editors and whatever ot_xform and    *)
(* ot_compose make of the components; that every operation reaches         *)
(* everybody in one order follows from it.  What client and editor have    *)
(* for a text takes operations that ot_xform and ot_compose can pass, and  *)
(* what Ops_proofs says the calls make of them.  What clients and server *)
(* have in common takes, besides, that the server makes of an operation    *)
(* what its author anticipated; the fifth says that it does, when editors  *)
(* only insert.                                                            *)
(***************************************************************************)
EXTENDS Editor, Ops_proofs, SequenceTheorems

-----------------------------------------------------------------------------
(***************************************************************************)
(* Operations, errors and NULL are told apart.                             *)
(***************************************************************************)
LEMMA Messages ==
  ASSUME NEW a, NEW b, NEW h, NEW d, NEW e
  PROVE  /\ Op(a, b, h, d) # NULL
         /\ IsOp(Op(a, b, h, d))
         /\ ~IsError(Op(a, b, h, d))
         /\ Op(a, b, h, d).client_id = a
         /\ IsError(ErrorMsg(e))
  BY DEF Op, NULL, IsOp, IsError, ErrorMsg

LEMMA OpsAreNoErrors ==
  ASSUME NEW msg, IsOp(msg)
  PROVE  ~IsError(msg)
  BY DEF IsOp, IsError

(***************************************************************************)
(* Queues stay sequences.                                                  *)
(***************************************************************************)
LEMMA SequenceOfItsElements ==
  ASSUME NEW T, NEW s \in Seq(T)
  PROVE  IsSequence(s)
<1> DEFINE S == {s[i] : i \in DOMAIN s}
<1>1. /\ Len(s) \in Nat
      /\ s \in [1..Len(s) -> T]
      /\ DOMAIN s = 1..Len(s)
  OBVIOUS
<1>2. \A i \in 1..Len(s) : s[i] \in S
  BY <1>1
<1>3. s = [i \in 1..Len(s) |-> s[i]]
  BY <1>1
<1>4. [i \in 1..Len(s) |-> s[i]] \in [1..Len(s) -> S]
  BY <1>2
<1>5. s \in Seq(S)
  BY <1>1, <1>3, <1>4, SeqDef
<1> QED
  BY <1>5 DEF IsSequence

LEMMA AppendedSequence ==
  ASSUME NEW s, IsSequence(s), NEW x
  PROVE  /\ IsSequence(Append(s, x))
         /\ Len(Append(s, x)) = Len(s) + 1
         /\ Len(s) \in Nat
         /\ DOMAIN s = 1..Len(s)
         /\ DOMAIN Append(s, x) = 1..(Len(s) + 1)
         /\ \A i \in 1..Len(s) : Append(s, x)[i] = s[i]
         /\ Append(s, x)[Len(s) + 1] = x
<1> DEFINE S == {s[i] : i \in DOMAIN s}
           T == S \cup {x}
           t == Append(s, x)
<1>1. s \in Seq(S)
  BY DEF IsSequence
<1>2. s \in Seq(T)
  BY <1>1
<1>3. /\ Len(t) = Len(s) + 1 /\ Len(s) \in Nat
      /\ DOMAIN s = 1..Len(s) /\ DOMAIN t = 1..(Len(s) + 1)
      /\ \A i \in 1..Len(s) : t[i] = s[i]
      /\ t[Len(s) + 1] = x
  BY <1>2
<1>4. IsSequence(t)
  <2>1. t \in Seq(T)
    BY <1>2
  <2> QED
    BY <2>1, SequenceOfItsElements
<1> QED
  BY <1>3, <1>4

LEMMA TailOfSequence ==
  ASSUME NEW s, IsSequence(s), s # <<>>
  PROVE  /\ IsSequence(Tail(s))
         /\ Len(s) \in Nat \ {0}
         /\ Len(Tail(s)) = Len(s) - 1
         /\ DOMAIN s = 1..Len(s)
         /\ DOMAIN Tail(s) = 1..(Len(s) - 1)
         /\ \A i \in 1..(Len(s) - 1) : Tail(s)[i] = s[i + 1]
         /\ Head(s) = s[1]
<1> DEFINE S == {s[i] : i \in DOMAIN s}
           t == Tail(s)
<1>1. s \in Seq(S)
  BY DEF IsSequence
<1>2. /\ Len(s) \in Nat \ {0} /\ Len(t) = Len(s) - 1
      /\ DOMAIN s = 1..Len(s) /\ DOMAIN t = 1..(Len(s) - 1)
      /\ \A i \in 1..(Len(s) - 1) : t[i] = s[i + 1]
      /\ Head(s) = s[1]
  BY <1>1
<1>3. IsSequence(t)
  <2>1. t \in Seq(S)
    BY <1>1
  <2> QED
    BY <2>1, SequenceOfItsElements
<1> QED
  BY <1>2, <1>3

LEMMA EmptySequence == IsSequence(<<>>) /\ Len(<<>>) = 0
  BY DEF IsSequence

-----------------------------------------------------------------------------
(***************************************************************************)
(* Whose operation comes out of a transformation, a composition, an append *)
(* and the server.                                                         *)
(***************************************************************************)
LEMMA XformKeepsAuthors ==
  ASSUME NEW op1, NEW op2
  PROVE  \/ ot_xform(op1, op2) = <<NULL, NULL>>
         \/ \E p1, p2 :
              /\ ot_xform(op1, op2) = <<p1, p2>>
              /\ IsOp(p1) /\ p1 # NULL /\ p1.client_id = op1.client_id
              /\ IsOp(p2) /\ p2 # NULL /\ p2.client_id = op2.client_id
<1> DEFINE s == XformComps(op1.comps, op2.comps)
           p1 == Op(op1.client_id, op2.hash, ZeroHash, s.prime1)
           p2 == Op(op2.client_id, op1.hash, ZeroHash, s.prime2)
<1>1. ot_xform(op1, op2) = IF s.failed THEN <<NULL, NULL>> ELSE <<p1, p2>>
  BY DEF ot_xform, Primes
<1>2. /\ IsOp(p1) /\ p1 # NULL /\ p1.client_id = op1.client_id
      /\ IsOp(p2) /\ p2 # NULL /\ p2.client_id = op2.client_id
  BY Messages
<1> HIDE DEF s, p1, p2
<1> QED
  BY <1>1, <1>2

LEMMA ComposeKeepsAuthor ==
  ASSUME NEW op1, NEW op2
  PROVE  \/ ot_compose(op1, op2) = NULL
         \/ ot_compose(op1, op2).client_id = op1.client_id
<1> DEFINE s == ComposeComps(op1.comps, op2.comps)
           p == Op(op1.client_id, op1.parent, ZeroHash, s.composed)
<1>1. ot_compose(op1, op2) = IF s.failed THEN NULL ELSE p
  BY DEF ot_compose, Composition
<1>2. p.client_id = op1.client_id
  BY Messages
<1> HIDE DEF s, p
<1> QED
  BY <1>1, <1>2

LEMMA AppendResult ==
  ASSUME NEW d, NEW op, ot_doc_append(d, op).err = "none"
  PROVE  /\ IsOp(ot_doc_append(d, op).op)
         /\ ot_doc_append(d, op).op # NULL
         /\ ot_doc_append(d, op).op.client_id = op.client_id
<1> DEFINE composed == Composed(d, op)
           head == NewHead(d, op, composed)
<1>1. \A err, dd : Refused(dd, err).err = err
  BY DEF Refused
<1>2. \/ ot_doc_append(d, op) = Refused(d, "max_size")
      \/ ot_doc_append(d, op) = Refused(d, "append_failed")
      \/ ot_doc_append(d, op) = Moved(d, head, composed)
  BY DEF ot_doc_append, AppendComposed
<1>3. ot_doc_append(d, op) = Moved(d, head, composed)
  BY <1>1, <1>2
<1>4. Moved(d, head, composed).op = head
  BY DEF Moved
<1>5. /\ IsOp(head) /\ head # NULL /\ head.client_id = op.client_id
  BY Messages DEF NewHead
<1> HIDE DEF head, composed
<1> QED
  BY <1>3, <1>4, <1>5

LEMMA ServerResult ==
  ASSUME NEW op, Received(op).err = "none"
  PROVE  /\ IsOp(Received(op).op)
         /\ Received(op).op.client_id = op.client_id
<1>1. ASSUME NEW d, append_op(d, op).err = "none"
      PROVE  /\ IsOp(append_op(d, op).op)
             /\ append_op(d, op).op.client_id = op.client_id
  BY <1>1, AppendResult DEF append_op, Refused
<1>2. ASSUME NEW d, append_op(d, xform(d, op)).err = "none"
      PROVE  /\ IsOp(append_op(d, xform(d, op)).op)
             /\ append_op(d, xform(d, op)).op.client_id = op.client_id
  <2>1. \/ xform(d, op) = NULL
        \/ xform(d, op) # NULL /\ xform(d, op).client_id = op.client_id
    <3> DEFINE composed == ot_doc_compose_after(d, op.parent)
    <3>1. xform(d, op) = IF composed = NULL THEN NULL ELSE ot_xform(composed, op)[2]
      BY DEF xform, XformAfter
    <3> HIDE DEF composed
    <3> QED
      BY <3>1, XformKeepsAuthors
  <2>2. xform(d, op) # NULL
    BY <1>2, <2>1 DEF append_op, Refused
  <2>3. append_op(d, xform(d, op)) = ot_doc_append(d, xform(d, op))
    BY <2>2 DEF append_op
  <2> QED
    BY <1>2, <2>1, <2>2, <2>3, AppendResult
<1>3. CASE server_doc = NULL
  BY <1>1, <1>3 DEF Received, ReceivedOn
<1>4. CASE server_doc # NULL /\ can_append(server_doc, op)
  BY <1>1, <1>4 DEF Received, ReceivedOn
<1>5. CASE server_doc # NULL /\ ~can_append(server_doc, op)
  BY <1>2, <1>5 DEF Received, ReceivedOn
<1> QED
  BY <1>3, <1>4, <1>5

\* A copy is stamped as the operation it is made of.
LEMMA CopyIsStamped ==
  ASSUME NEW op
  PROVE  /\ ot_dup_op(op) # NULL
         /\ ot_dup_op(op).client_id = op.client_id
         /\ ot_dup_op(op).parent = op.parent
         /\ ot_dup_op(op).hash = op.hash
<1> DEFINE built == FoldLeft(Rebuilt, <<>>, op.comps)
<1>1. ot_dup_op(op) = Op(op.client_id, op.parent, op.hash, built)
  BY DEF ot_dup_op
<1> HIDE DEF built
<1>2. Op(op.client_id, op.parent, op.hash, built) # NULL
  BY OpIsNotNull
<1> QED
  BY <1>1, <1>2 DEF Op

LEMMA BufferedResult ==
  ASSUME NEW c \in Clients, NEW d, NEW op,
         op.client_id = c,
         buffer[c] # NULL => buffer[c].client_id = c,
         Buffered(c, ot_doc_append(d, op)) # NULL
  PROVE  Buffered(c, ot_doc_append(d, op)).client_id = c
BY AppendResult, ComposeKeepsAuthor, CopyIsStamped DEF Buffered

-----------------------------------------------------------------------------
(***************************************************************************)
(* The operations of client k in a queue.                                  *)
(***************************************************************************)
OwnIn(k, q) == {i \in 1..Len(q) : IsOwn(k, q[i])}

LEMMA OwnAfterAppend ==
  ASSUME NEW k, NEW q, IsSequence(q), NEW msg
  PROVE  OwnIn(k, Append(q, msg)) =
           OwnIn(k, q) \cup (IF IsOwn(k, msg) THEN {Len(q) + 1} ELSE {})
<1>1. /\ Len(q) \in Nat
      /\ Len(Append(q, msg)) = Len(q) + 1
      /\ \A i \in 1..Len(q) : Append(q, msg)[i] = q[i]
      /\ Append(q, msg)[Len(q) + 1] = msg
  BY AppendedSequence
<1>2. 1..(Len(q) + 1) = (1..Len(q)) \cup {Len(q) + 1}
  BY <1>1
<1> QED
  BY <1>1, <1>2 DEF OwnIn

LEMMA OwnAfterTail ==
  ASSUME NEW k, NEW q, IsSequence(q), q # <<>>
  PROVE  OwnIn(k, Tail(q)) = {i \in 1..(Len(q) - 1) : i + 1 \in OwnIn(k, q)}
<1>1. /\ Len(q) \in Nat \ {0}
      /\ Len(Tail(q)) = Len(q) - 1
      /\ \A i \in 1..(Len(q) - 1) : Tail(q)[i] = q[i + 1]
  BY TailOfSequence
<1>2. \A i \in 1..(Len(q) - 1) : i + 1 \in 1..Len(q)
  BY <1>1
<1> QED
  BY <1>1, <1>2 DEF OwnIn

-----------------------------------------------------------------------------
(***************************************************************************)
(* The inductive invariant is the conjunction of the type, AckDiscipline   *)
(* and OneInFlight.  None of the last two is inductive alone: that an      *)
(* acknowledgment clears the anticipated operation for good needs that no  *)
(* second one is under way, that the operation sent next finds the queue   *)
(* empty needs that a client which waits for nothing has nothing under     *)
(* way, and both need to know that messages carry their author.  Here it   *)
(* is once more, one client at a time.                                     *)
(***************************************************************************)
Control == TypeOK /\ AckDiscipline /\ OneInFlight

Shape ==
  /\ ack_required \in [Clients -> BOOLEAN]
  /\ edits \in [Clients -> 0..MaxEdits]
  /\ seen \in [Clients -> Nat]
  /\ sentAt \in [Clients -> Nat]
  /\ Clients = DOMAIN doc /\ Clients = DOMAIN anticipated /\ Clients = DOMAIN buffer
  /\ Clients = DOMAIN up /\ Clients = DOMAIN down

UpTyped(k) ==
  /\ IsSequence(up[k])
  /\ \A i \in DOMAIN up[k] : IsOp(up[k][i]) /\ up[k][i].client_id = k

DownTyped(k) ==
  /\ IsSequence(down[k])
  /\ \A i \in DOMAIN down[k] : IsError(down[k][i]) \/ IsOp(down[k][i])

HeldTyped(k) ==
  /\ anticipated[k] # NULL => anticipated[k].client_id = k
  /\ buffer[k] # NULL => buffer[k].client_id = k

Discipline(k) ==
  /\ ack_required[k] <=> anticipated[k] # NULL
  /\ buffer[k] # NULL => ack_required[k]

Flight(k) ==
  /\ Len(up[k]) <= 1
  /\ up[k] # <<>> => ack_required[k] /\ OwnIn(k, down[k]) = {}
  /\ OwnIn(k, down[k]) # {} => ack_required[k]
  /\ \A i, j \in OwnIn(k, down[k]) : i = j

Each(k) == UpTyped(k) /\ DownTyped(k) /\ HeldTyped(k) /\ Discipline(k) /\ Flight(k)

EachClient == \A k \in Clients : Each(k)

LEMMA ControlByClient == Control <=> Shape /\ EachClient
<1>1. \A k : OwnAt(k) = OwnIn(k, down[k])
  BY DEF OwnAt, OwnIn
<1>2. TypeOK <=> /\ Shape
                 /\ \A k \in Clients : UpTyped(k) /\ DownTyped(k) /\ HeldTyped(k)
  BY DEF TypeOK, Shape, UpTyped, DownTyped, HeldTyped
<1>3. AckDiscipline <=> \A k \in Clients : Discipline(k)
  BY DEF AckDiscipline, Discipline
<1>4. OneInFlight <=> \A k \in Clients : Flight(k)
  BY <1>1 DEF OneInFlight, Flight
<1> QED
  BY <1>2, <1>3, <1>4 DEF Control, EachClient, Each

LEMMA ControlByClientNext == Control' <=> Shape' /\ \A k \in Clients : Each(k)'
<1>1. Control' <=> Shape' /\ EachClient'
  BY ControlByClient, PTL
<1> QED
  BY <1>1 DEF EachClient

\* The part of the state that Each(k) speaks of.
StateOf(k) == <<up[k], down[k], ack_required[k], anticipated[k], buffer[k]>>

LEMMA EachUnchanged ==
  ASSUME NEW k, Each(k), UNCHANGED StateOf(k)
  PROVE  Each(k)'
BY DEF Each, StateOf, UpTyped, DownTyped, HeldTyped, Discipline, Flight

LEMMA InitControl == Init => Control
<1> SUFFICES ASSUME Init PROVE Shape /\ \A k \in Clients : Each(k)
  BY ControlByClient DEF EachClient
<1>1. Shape
  BY MaxEditsAssumption DEF Init, Shape, Version0
<1>2. ASSUME NEW k \in Clients PROVE Each(k)
  <2>1. /\ up[k] = <<>> /\ down[k] = <<>> /\ ack_required[k] = FALSE
        /\ anticipated[k] = NULL /\ buffer[k] = NULL
    BY DEF Init
  <2>2. OwnIn(k, down[k]) = {}
    BY <2>1 DEF OwnIn
  <2> QED
    BY <2>1, <2>2, EmptySequence
       DEF Each, UpTyped, DownTyped, HeldTyped, Discipline, Flight
<1> QED
  BY <1>1, <1>2

-----------------------------------------------------------------------------
(***************************************************************************)
(* What a client sends is the only thing it has under way.                 *)
(***************************************************************************)
LEMMA SendKeepsControl ==
  ASSUME Shape, NEW c \in Clients, NEW op, NEW parent, NEW version \in Nat,
         send_buffer(c, op, parent, version),
         op.client_id = c, up[c] = <<>>,
         DownTyped(c)', OwnIn(c, down'[c]) = {}
  PROVE  /\ Each(c)'
         /\ up' = [up EXCEPT ![c] = up'[c]]
         /\ anticipated' = [anticipated EXCEPT ![c] = anticipated'[c]]
         /\ buffer' = [buffer EXCEPT ![c] = buffer'[c]]
         /\ ack_required' = [ack_required EXCEPT ![c] = TRUE]
         /\ sentAt' = [sentAt EXCEPT ![c] = version]
<1> DEFINE msg == Op(op.client_id, parent, op.hash, op.comps)
<1>1. IsOp(msg) /\ msg # NULL /\ msg.client_id = c
  BY Messages
<1>2. /\ up' = [up EXCEPT ![c] = Append(up[c], msg)]
      /\ anticipated' = [anticipated EXCEPT ![c] = ot_dup_op(msg)]
      /\ buffer' = [buffer EXCEPT ![c] = NULL]
      /\ ack_required' = [ack_required EXCEPT ![c] = TRUE]
      /\ sentAt' = [sentAt EXCEPT ![c] = version]
  BY DEF send_buffer
<1> HIDE DEF msg
<1>3. /\ up'[c] = Append(<<>>, msg)
      /\ anticipated'[c] # NULL /\ anticipated'[c].client_id = c
      /\ buffer'[c] = NULL /\ ack_required'[c] = TRUE
  BY <1>1, <1>2, CopyIsStamped DEF Shape
<1>4. /\ IsSequence(up'[c]) /\ Len(up'[c]) = 1
      /\ DOMAIN up'[c] = 1..1 /\ up'[c][1] = msg
  <2>1. IsSequence(<<>>) /\ Len(<<>>) = 0
    BY EmptySequence
  <2>2. /\ IsSequence(Append(<<>>, msg)) /\ Len(Append(<<>>, msg)) = 0 + 1
        /\ DOMAIN Append(<<>>, msg) = 1..(0 + 1)
        /\ Append(<<>>, msg)[0 + 1] = msg
    BY <2>1, AppendedSequence
  <2> QED
    BY <1>3, <2>2
<1>5. UpTyped(c)'
  BY <1>1, <1>4 DEF UpTyped
<1>6. HeldTyped(c)' /\ Discipline(c)'
  BY <1>1, <1>3 DEF HeldTyped, Discipline
<1>7. Flight(c)'
  BY <1>3, <1>4 DEF Flight
<1>8. Each(c)'
  BY <1>5, <1>6, <1>7 DEF Each
<1> QED
  BY <1>2, <1>3, <1>8

(***************************************************************************)
(* The editor applies an operation.                                        *)
(***************************************************************************)
LEMMA ApplyKeepsControl ==
  ASSUME Control, NEW c \in Clients, NEW comps, ot_client_apply(c, comps),
         edits[c] < MaxEdits, edits' = [edits EXCEPT ![c] = @ + 1]
  PROVE  Control'
<1>1. Shape /\ \A k \in Clients : Each(k)
  BY ControlByClient DEF EachClient
<1>3. PICK r, buffered :
        /\ r = ot_doc_append(Opened(doc[c]), Op(c, ZeroHash, ZeroHash, comps))
        /\ buffered = Buffered(c, r)
        /\ doc' = [doc EXCEPT ![c] = r.doc]
        /\ UNCHANGED <<down, seen>>
        /\ \/ /\ buffered = NULL
              /\ UNCHANGED <<up, ack_required, anticipated, buffer, sentAt>>
           \/ /\ buffered # NULL
              /\ ack_required[c]
              /\ buffer' = [buffer EXCEPT ![c] = buffered]
              /\ UNCHANGED <<up, ack_required, anticipated, sentAt>>
           \/ /\ buffered # NULL
              /\ ~ack_required[c]
              /\ send_buffer(c, buffered, buffered.parent, seen[c])
  BY DEF ot_client_apply
<1>4. edits' \in [Clients -> 0..MaxEdits]
  BY <1>1, MaxEditsAssumption DEF Shape
<1>5. buffered # NULL => buffered.client_id = c
  <2>1. Op(c, ZeroHash, ZeroHash, comps).client_id = c
    BY Messages
  <2> QED
    BY <1>1, <1>3, <2>1, BufferedResult DEF Each, HeldTyped
<1>6. /\ seen' = seen /\ down' = down
      /\ DOMAIN doc' = Clients
  BY <1>1, <1>3 DEF Shape
<1>7. CASE UNCHANGED <<up, ack_required, anticipated, buffer, sentAt>>
  <2>1. Shape'
    BY <1>1, <1>4, <1>6, <1>7 DEF Shape
  <2>2. \A k \in Clients : Each(k)'
    BY <1>1, <1>6, <1>7, EachUnchanged DEF StateOf
  <2> QED
    BY <2>1, <2>2, ControlByClientNext
<1>8. CASE /\ buffered # NULL
           /\ ack_required[c]
           /\ buffer' = [buffer EXCEPT ![c] = buffered]
           /\ UNCHANGED <<up, ack_required, anticipated, sentAt>>
  <2>1. Shape'
    BY <1>1, <1>4, <1>6, <1>8 DEF Shape
  <2>2. Each(c)'
    BY <1>1, <1>5, <1>6, <1>8
       DEF Each, Shape, UpTyped, DownTyped, HeldTyped, Discipline, Flight
  <2>3. ASSUME NEW k \in Clients, k # c PROVE Each(k)'
    BY <1>1, <1>6, <1>8, <2>3, EachUnchanged DEF StateOf, Shape
  <2> QED
    BY <2>1, <2>2, <2>3, ControlByClientNext
<1>9. CASE /\ buffered # NULL
           /\ ~ack_required[c]
           /\ send_buffer(c, buffered, buffered.parent, seen[c])
  <2>1. seen[c] \in Nat
    BY <1>1 DEF Shape
  <2>2. up[c] = <<>> /\ OwnIn(c, down'[c]) = {} /\ DownTyped(c)'
    BY <1>1, <1>6, <1>9 DEF Each, Flight, DownTyped
  <2>3. /\ Each(c)'
        /\ up' = [up EXCEPT ![c] = up'[c]]
        /\ anticipated' = [anticipated EXCEPT ![c] = anticipated'[c]]
        /\ buffer' = [buffer EXCEPT ![c] = buffer'[c]]
        /\ ack_required' = [ack_required EXCEPT ![c] = TRUE]
        /\ sentAt' = [sentAt EXCEPT ![c] = seen[c]]
    BY <1>1, <1>5, <1>9, <2>1, <2>2, SendKeepsControl
  <2>4. Shape'
    BY <1>1, <1>4, <1>6, <2>1, <2>3 DEF Shape
  <2>5. ASSUME NEW k \in Clients, k # c PROVE Each(k)'
    BY <1>1, <1>6, <2>3, <2>5, EachUnchanged DEF StateOf, Shape
  <2> QED
    BY <2>3, <2>4, <2>5, ControlByClientNext
<1> QED
  BY <1>3, <1>7, <1>8, <1>9

LEMMA EditKeepsControl ==
  ASSUME Control, NEW c \in Clients, Edit(c)
  PROVE  Control'
BY ApplyKeepsControl DEF Edit

(***************************************************************************)
(* The server takes an operation and sends what it made of it, or an       *)
(* error, to everybody.                                                    *)
(***************************************************************************)
LEMMA ServerStepKeepsControl ==
  ASSUME Control, NEW c \in Clients, ServerStep(c)
  PROVE  Control'
<1>1. Shape /\ \A k \in Clients : Each(k)
  BY ControlByClient DEF EachClient
<1>2. /\ up[c] # <<>> /\ up' = [up EXCEPT ![c] = Tail(up[c])]
      /\ UNCHANGED <<clientVars, edits>>
  BY DEF ServerStep, ot_server_receive, TakeUp
<1>3. PICK msg : /\ down' = [k \in Clients |-> Append(down[k], msg)]
                 /\ \/ IsError(msg)
                    \/ IsOp(msg) /\ msg.client_id = c
  <2> DEFINE op == Head(up[c])
  <2>1. op.client_id = c
    BY <1>1, <1>2, TailOfSequence DEF Each, UpTyped
  <2>2. PICK r : /\ r = Received(op)
                 /\ \/ r.err = "none" /\ Broadcast(r.op)
                    \/ r.err # "none" /\ Broadcast(ErrorMsg(r.err))
    BY DEF ServerStep, ot_server_receive
  <2>3. CASE r.err = "none" /\ Broadcast(r.op)
    BY <2>1, <2>2, <2>3, ServerResult DEF Broadcast
  <2>4. CASE r.err # "none" /\ Broadcast(ErrorMsg(r.err))
    BY <2>4, Messages DEF Broadcast
  <2> QED
    BY <2>2, <2>3, <2>4
<1>4. /\ UNCHANGED <<doc, ack_required, anticipated, buffer, seen, sentAt, edits>>
  BY <1>2 DEF clientVars
<1>5. Shape'
  BY <1>1, <1>2, <1>3, <1>4 DEF Shape
<1>6. ASSUME NEW k \in Clients
      PROVE  /\ DownTyped(k)'
             /\ OwnIn(k, down'[k]) = OwnIn(k, down[k]) \cup
                  (IF IsOwn(k, msg) THEN {Len(down[k]) + 1} ELSE {})
             /\ IsOwn(k, msg) => k = c
  <2>1. IsSequence(down[k]) /\ down'[k] = Append(down[k], msg)
    BY <1>1, <1>3 DEF Each, DownTyped
  <2>2. DownTyped(k)'
    <3>1. /\ IsSequence(down'[k])
          /\ DOMAIN down[k] = 1..Len(down[k]) /\ Len(down[k]) \in Nat
          /\ DOMAIN down'[k] = 1..(Len(down[k]) + 1)
          /\ \A i \in 1..Len(down[k]) : down'[k][i] = down[k][i]
          /\ down'[k][Len(down[k]) + 1] = msg
      BY <2>1, AppendedSequence
    <3>2. ASSUME NEW i \in DOMAIN down'[k]
          PROVE  IsError(down'[k][i]) \/ IsOp(down'[k][i])
      <4>1. CASE i = Len(down[k]) + 1
        BY <1>3, <3>1, <4>1
      <4>2. CASE i \in 1..Len(down[k])
        BY <1>1, <3>1, <4>2 DEF Each, DownTyped
      <4> QED
        BY <3>1, <4>1, <4>2
    <3> QED
      BY <3>1, <3>2 DEF DownTyped
  <2>3. OwnIn(k, down'[k]) = OwnIn(k, down[k]) \cup
          (IF IsOwn(k, msg) THEN {Len(down[k]) + 1} ELSE {})
    BY <2>1, OwnAfterAppend
  <2>4. IsOwn(k, msg) => k = c
    BY <1>3 DEF IsOwn
  <2> QED
    BY <2>2, <2>3, <2>4
<1>7. Each(c)'
  <2>1. /\ IsSequence(up'[c]) /\ Len(up'[c]) = 0 /\ up'[c] = <<>>
        /\ DOMAIN up'[c] = {}
    <3>1. IsSequence(up[c]) /\ Len(up[c]) <= 1
      BY <1>1 DEF Each, UpTyped, Flight
    <3>2. up'[c] = Tail(up[c])
      BY <1>1, <1>2 DEF Shape
    <3>3. /\ IsSequence(Tail(up[c])) /\ Len(Tail(up[c])) = Len(up[c]) - 1
          /\ Len(up[c]) \in Nat \ {0} /\ DOMAIN Tail(up[c]) = 1..(Len(up[c]) - 1)
      BY <1>2, <3>1, TailOfSequence
    <3>4. Len(up[c]) = 1
      <4>1. \A n \in Nat \ {0} : n <= 1 => n = 1
        OBVIOUS
      <4> QED
        BY <3>1, <3>3, <4>1
    <3>6. Len(up'[c]) = 0 /\ DOMAIN up'[c] = 1..0
      BY <3>2, <3>3, <3>4
    <3>7. up'[c] = <<>>
      BY <3>2, <3>3, <3>6, EmptySeq DEF IsSequence
    <3> QED
      BY <3>2, <3>3, <3>6, <3>7
  <2>2. ack_required[c] /\ OwnIn(c, down[c]) = {}
    BY <1>1, <1>2 DEF Each, Flight
  <2>3. Flight(c)'
    BY <1>4, <1>6, <2>1, <2>2 DEF Flight
  <2>4. UpTyped(c)' /\ DownTyped(c)'
    BY <1>6, <2>1 DEF UpTyped
  <2>5. HeldTyped(c)' /\ Discipline(c)'
    BY <1>1, <1>4 DEF Each, HeldTyped, Discipline
  <2> QED
    BY <2>3, <2>4, <2>5 DEF Each
<1>8. ASSUME NEW k \in Clients, k # c PROVE Each(k)'
  <2>1. up'[k] = up[k]
    BY <1>1, <1>2, <1>8 DEF Shape
  <2>2. OwnIn(k, down'[k]) = OwnIn(k, down[k]) /\ DownTyped(k)'
    BY <1>6, <1>8
  <2>3. UpTyped(k)' /\ HeldTyped(k)' /\ Discipline(k)'
    BY <1>1, <1>4, <2>1 DEF Each, UpTyped, HeldTyped, Discipline
  <2>4. Flight(k)'
    <3>1. Flight(k) /\ ack_required' = ack_required
      BY <1>1, <1>4 DEF Each
    <3> QED
      BY <2>1, <2>2, <3>1 DEF Flight
  <2> QED
    BY <2>2, <2>3, <2>4 DEF Each
<1> QED
  BY <1>5, <1>7, <1>8, ControlByClientNext

-----------------------------------------------------------------------------
(***************************************************************************)
(* A client takes a message: every operation of its own that is still to   *)
(* come moves up by one, and the one it took, if it was its own, was the   *)
(* only one.                                                               *)
(***************************************************************************)
LEMMA TakeDownKeepsQueue ==
  ASSUME Shape, NEW c \in Clients, DownTyped(c), Flight(c), TakeDown(c)
  PROVE  /\ DownTyped(c)'
         /\ down' = [down EXCEPT ![c] = down'[c]]
         /\ IsError(Head(down[c])) \/ IsOp(Head(down[c]))
         /\ OwnIn(c, down[c]) = {} => OwnIn(c, down'[c]) = {}
         /\ \A i, j \in OwnIn(c, down'[c]) : i = j
         /\ IsOwn(c, Head(down[c])) =>
              OwnIn(c, down[c]) # {} /\ OwnIn(c, down'[c]) = {}
<1> DEFINE q == down[c]
<1>1. /\ q # <<>> /\ IsSequence(q)
      /\ down' = [down EXCEPT ![c] = Tail(q)]
  BY DEF TakeDown, DownTyped
<1>2. down'[c] = Tail(q)
  BY <1>1 DEF Shape
<1>3. /\ IsSequence(Tail(q))
      /\ Len(q) \in Nat \ {0}
      /\ DOMAIN q = 1..Len(q)
      /\ DOMAIN Tail(q) = 1..(Len(q) - 1)
      /\ \A i \in 1..(Len(q) - 1) : Tail(q)[i] = q[i + 1]
      /\ Head(q) = q[1]
  BY <1>1, TailOfSequence
<1>4. OwnIn(c, Tail(q)) = {i \in 1..(Len(q) - 1) : i + 1 \in OwnIn(c, q)}
  BY <1>1, OwnAfterTail
<1>5. \A i, j \in OwnIn(c, q) : i = j
  BY DEF Flight
<1>6. \A i \in DOMAIN q : IsError(q[i]) \/ IsOp(q[i])
  BY DEF DownTyped
<1> HIDE DEF q
<1>7. ASSUME NEW i \in DOMAIN Tail(q)
      PROVE  IsError(Tail(q)[i]) \/ IsOp(Tail(q)[i])
  <2>1. i \in 1..(Len(q) - 1) /\ i + 1 \in 1..Len(q)
    BY <1>3, <1>7
  <2> QED
    BY <1>3, <1>6, <2>1
<1>8. DownTyped(c)'
  BY <1>2, <1>3, <1>7 DEF DownTyped
<1>9. IsError(Head(q)) \/ IsOp(Head(q))
  <2>1. 1 \in DOMAIN q
    BY <1>3
  <2> QED
    BY <1>3, <1>6, <2>1
<1>10. \A i, j \in OwnIn(c, Tail(q)) : i = j
  <2> SUFFICES ASSUME NEW i \in OwnIn(c, Tail(q)), NEW j \in OwnIn(c, Tail(q))
               PROVE  i = j
    OBVIOUS
  <2>1. i \in 1..(Len(q) - 1) /\ j \in 1..(Len(q) - 1) /\ i + 1 = j + 1
    BY <1>4, <1>5
  <2> QED
    BY <1>3, <2>1
<1>11. IsOwn(c, Head(q)) => OwnIn(c, q) # {} /\ OwnIn(c, Tail(q)) = {}
  <2> SUFFICES ASSUME IsOwn(c, Head(q))
               PROVE  OwnIn(c, q) # {} /\ OwnIn(c, Tail(q)) = {}
    OBVIOUS
  <2>1. 1 \in OwnIn(c, q)
    BY <1>3 DEF OwnIn
  <2>2. ASSUME NEW i \in OwnIn(c, Tail(q)) PROVE FALSE
    <3>1. i \in 1..(Len(q) - 1) /\ i + 1 = 1
      BY <1>4, <1>5, <2>1, <2>2
    <3> QED
      BY <1>3, <3>1
  <2> QED
    BY <2>1, <2>2
<1>12. OwnIn(c, q) = {} => OwnIn(c, Tail(q)) = {}
  BY <1>4
<1> QED
  BY <1>1, <1>2, <1>8, <1>9, <1>10, <1>11, <1>12 DEF q

LEMMA ReceiveErrorKeepsControl ==
  ASSUME Control, NEW c \in Clients, ReceiveError(c), UNCHANGED edits
  PROVE  Control'
<1>1. Shape /\ \A k \in Clients : Each(k)
  BY ControlByClient DEF EachClient
<1>2. /\ TakeDown(c)
      /\ UNCHANGED <<up, doc, ack_required, anticipated, buffer, seen, sentAt, edits>>
  BY DEF ReceiveError
<1>3. /\ DownTyped(c)' /\ down' = [down EXCEPT ![c] = down'[c]]
      /\ OwnIn(c, down[c]) = {} => OwnIn(c, down'[c]) = {}
      /\ \A i, j \in OwnIn(c, down'[c]) : i = j
  BY <1>1, <1>2, TakeDownKeepsQueue DEF Each
<1>4. Shape'
  BY <1>1, <1>2, <1>3 DEF Shape
<1>5. Each(c)'
  <2>1. UpTyped(c)' /\ HeldTyped(c)' /\ Discipline(c)'
    BY <1>1, <1>2 DEF Each, UpTyped, HeldTyped, Discipline
  <2>2. Flight(c)'
    BY <1>1, <1>2, <1>3 DEF Each, Flight
  <2> QED
    BY <1>3, <2>1, <2>2 DEF Each
<1>6. ASSUME NEW k \in Clients, k # c PROVE Each(k)'
  BY <1>1, <1>2, <1>3, <1>6, EachUnchanged DEF StateOf, Shape
<1> QED
  BY <1>4, <1>5, <1>6, ControlByClientNext

(***************************************************************************)
(* The acknowledgment: what was acknowledged was the only operation under  *)
(* way, so the buffer may follow.                                          *)
(***************************************************************************)
LEMMA ReceiveAckKeepsControl ==
  ASSUME Control, NEW c \in Clients, ReceiveAck(c), UNCHANGED edits
  PROVE  Control'
<1> DEFINE msg == Head(down[c])
<1>1. Shape /\ \A k \in Clients : Each(k)
  BY ControlByClient DEF EachClient
<1>2. /\ TakeDown(c) /\ IsOwn(c, msg)
      /\ seen' = [seen EXCEPT ![c] = @ + 1]
      /\ UNCHANGED <<doc, edits>>
  BY DEF ReceiveAck, IsOwn
<1>3. /\ DownTyped(c)' /\ down' = [down EXCEPT ![c] = down'[c]]
      /\ OwnIn(c, down[c]) # {} /\ OwnIn(c, down'[c]) = {}
  BY <1>1, <1>2, TakeDownKeepsQueue DEF Each
<1>4. up[c] = <<>>
  BY <1>1, <1>3 DEF Each, Flight
<1>5. seen[c] + 1 \in Nat /\ seen' \in [Clients -> Nat]
  BY <1>1, <1>2 DEF Shape
<1>6. CASE /\ buffer[c] = NULL
           /\ ack_required' = [ack_required EXCEPT ![c] = FALSE]
           /\ anticipated' = [anticipated EXCEPT ![c] = NULL]
           /\ UNCHANGED <<up, buffer, sentAt>>
  <2>1. Shape'
    BY <1>1, <1>2, <1>3, <1>5, <1>6 DEF Shape
  <2>2. /\ ack_required'[c] = FALSE /\ anticipated'[c] = NULL
        /\ buffer'[c] = NULL /\ up'[c] = <<>>
    BY <1>1, <1>4, <1>6 DEF Shape
  <2>3. UpTyped(c)'
    BY <1>1, <1>6 DEF Each, UpTyped
  <2>4. HeldTyped(c)' /\ Discipline(c)' /\ Flight(c)'
    BY <1>3, <2>2, EmptySequence DEF HeldTyped, Discipline, Flight
  <2>5. Each(c)'
    BY <1>3, <2>3, <2>4 DEF Each
  <2>6. ASSUME NEW k \in Clients, k # c PROVE Each(k)'
    BY <1>1, <1>3, <1>6, <2>6, EachUnchanged DEF StateOf, Shape
  <2> QED
    BY <2>1, <2>5, <2>6, ControlByClientNext
<1>7. CASE /\ buffer[c] # NULL
           /\ send_buffer(c, buffer[c], msg.hash, seen[c] + 1)
  <2>1. buffer[c].client_id = c
    BY <1>1, <1>7 DEF Each, HeldTyped
  <2>2. /\ Each(c)'
        /\ up' = [up EXCEPT ![c] = up'[c]]
        /\ anticipated' = [anticipated EXCEPT ![c] = anticipated'[c]]
        /\ buffer' = [buffer EXCEPT ![c] = buffer'[c]]
        /\ ack_required' = [ack_required EXCEPT ![c] = TRUE]
        /\ sentAt' = [sentAt EXCEPT ![c] = seen[c] + 1]
    BY <1>1, <1>3, <1>4, <1>5, <1>7, <2>1, SendKeepsControl
  <2>3. Shape'
    BY <1>1, <1>2, <1>3, <1>5, <2>2 DEF Shape
  <2>4. ASSUME NEW k \in Clients, k # c PROVE Each(k)'
    BY <1>1, <1>3, <2>2, <2>4, EachUnchanged DEF StateOf, Shape
  <2> QED
    BY <2>2, <2>3, <2>4, ControlByClientNext
<1> QED
  BY <1>6, <1>7 DEF ReceiveAck

(***************************************************************************)
(* Somebody else's operation: the anticipated operation and the buffer     *)
(* become others of the same author, and neither comes or goes.            *)
(***************************************************************************)
LEMMA TransformedHeld ==
  ASSUME NEW c, NEW received,
         NEW first, first = xform_anticipated(c, received),
         NEW second, second = xform_buffer(c, first[1])
  PROVE  /\ first[2] # NULL <=> anticipated[c] # NULL
         /\ second[1] # NULL <=> buffer[c] # NULL
         /\ anticipated[c] # NULL => first[2].client_id = anticipated[c].client_id
         /\ buffer[c] # NULL => second[1].client_id = buffer[c].client_id
<1>1. ASSUME NEW op1, NEW op2, NEW failed
      PROVE  \/ OrElse(ot_xform(op1, op2), failed) = failed
             \/ \E p1, p2 :
                  /\ OrElse(ot_xform(op1, op2), failed) = <<p1, p2>>
                  /\ p1 # NULL /\ p1.client_id = op1.client_id
                  /\ p2 # NULL /\ p2.client_id = op2.client_id
  BY XformKeepsAuthors DEF OrElse
<1>2. /\ first[2] # NULL <=> anticipated[c] # NULL
      /\ anticipated[c] # NULL => first[2].client_id = anticipated[c].client_id
  BY <1>1 DEF xform_anticipated
<1>3. /\ second[1] # NULL <=> buffer[c] # NULL
      /\ buffer[c] # NULL => second[1].client_id = buffer[c].client_id
  BY <1>1 DEF xform_buffer
<1> QED
  BY <1>2, <1>3

LEMMA ReceiveOpKeepsControl ==
  ASSUME Control, NEW c \in Clients, ReceiveOp(c), UNCHANGED edits
  PROVE  Control'
<1>1. Shape /\ \A k \in Clients : Each(k)
  BY ControlByClient DEF EachClient
<1>2. /\ TakeDown(c) /\ ~IsError(Head(down[c]))
      /\ seen' = [seen EXCEPT ![c] = @ + 1]
      /\ UNCHANGED <<up, ack_required, sentAt, edits>>
  BY DEF ReceiveOp
<1>3. PICK first, second :
        /\ first = xform_anticipated(c, Head(down[c]))
        /\ second = xform_buffer(c, first[1])
        /\ anticipated' = [anticipated EXCEPT ![c] = first[2]]
        /\ buffer' = [buffer EXCEPT ![c] = second[1]]
        /\ DOMAIN doc' = DOMAIN doc
  BY DEF ReceiveOp, Incoming
<1>4. /\ DownTyped(c)' /\ down' = [down EXCEPT ![c] = down'[c]]
      /\ OwnIn(c, down[c]) = {} => OwnIn(c, down'[c]) = {}
      /\ \A i, j \in OwnIn(c, down'[c]) : i = j
      /\ IsOp(Head(down[c]))
  BY <1>1, <1>2, TakeDownKeepsQueue DEF Each
<1>5. seen' \in [Clients -> Nat]
  BY <1>1, <1>2 DEF Shape
<1>6. Shape'
  BY <1>1, <1>2, <1>3, <1>4, <1>5 DEF Shape
<1>7. Each(c)'
  <2>1. anticipated'[c] = first[2] /\ buffer'[c] = second[1]
    BY <1>1, <1>3 DEF Shape
  <2>2. /\ first[2] # NULL <=> anticipated[c] # NULL
        /\ second[1] # NULL <=> buffer[c] # NULL
        /\ anticipated[c] # NULL => first[2].client_id = anticipated[c].client_id
        /\ buffer[c] # NULL => second[1].client_id = buffer[c].client_id
    BY <1>3, <1>4, TransformedHeld
  <2>3. HeldTyped(c) /\ Discipline(c) /\ UpTyped(c) /\ Flight(c)
    BY <1>1 DEF Each
  <2>4. HeldTyped(c)'
    BY <2>1, <2>2, <2>3 DEF HeldTyped
  <2>5. Discipline(c)'
    BY <1>2, <2>1, <2>2, <2>3 DEF Discipline
  <2>6. UpTyped(c)'
    BY <1>2, <2>3 DEF UpTyped
  <2>7. Flight(c)'
    BY <1>2, <1>4, <2>3 DEF Flight
  <2> QED
    BY <1>4, <2>4, <2>5, <2>6, <2>7 DEF Each
<1>8. ASSUME NEW k \in Clients, k # c PROVE Each(k)'
  BY <1>1, <1>2, <1>3, <1>4, <1>8, EachUnchanged DEF StateOf, Shape
<1> QED
  BY <1>6, <1>7, <1>8, ControlByClientNext

-----------------------------------------------------------------------------
LEMMA NextKeepsControl == Control /\ [Next]_vars => Control'
<1> SUFFICES ASSUME Control, [Next]_vars PROVE Control'
  OBVIOUS
<1>1. ASSUME NEW c \in Clients, Edit(c) PROVE Control'
  BY <1>1, EditKeepsControl
<1>2. ASSUME NEW c \in Clients, ServerStep(c) PROVE Control'
  BY <1>2, ServerStepKeepsControl
<1>3. ASSUME NEW c \in Clients, ClientStep(c) PROVE Control'
  BY <1>3, ReceiveErrorKeepsControl, ReceiveAckKeepsControl, ReceiveOpKeepsControl
     DEF ClientStep, ot_client_receive
<1>4. CASE UNCHANGED vars
  <2>1. /\ Shape /\ \A k \in Clients : Each(k)
        /\ UNCHANGED <<up, down, doc, ack_required, anticipated, buffer, seen, sentAt, edits>>
    BY <1>4, ControlByClient DEF vars, clientVars, EachClient
  <2>2. Shape'
    BY <2>1 DEF Shape
  <2>3. ASSUME NEW k \in Clients PROVE Each(k)'
    BY <2>1, EachUnchanged DEF StateOf
  <2> QED
    BY <2>2, <2>3, ControlByClientNext
<1> QED
  BY <1>1, <1>2, <1>3, <1>4 DEF Next

THEOREM ControlInvariant == Spec => []Control
BY InitControl, NextKeepsControl, PTL DEF Spec

\* The type invariant: among the rest, whatever a client sends or holds back
\* carries its own client_id, also after ot_compose and ot_xform made another
\* operation of it (client.c and server.c tell operations apart by nothing
\* else).
THEOREM TypeCorrect == Spec => []TypeOK
BY ControlInvariant, PTL DEF Control

\* A client waits for an acknowledgment exactly while it has an anticipated
\* operation, and buffers only while it waits (send_buffer, client.c).
THEOREM AckDisciplineHolds == Spec => []AckDiscipline
BY ControlInvariant, PTL DEF Control

\* A client has at most one operation on its way there and back, so the test
\* of ot_client_receive for its own client_id finds the acknowledgment of the
\* anticipated operation and nothing else (client.c).
THEOREM OneInFlightHolds == Spec => []OneInFlight
BY ControlInvariant, PTL DEF Control

-----------------------------------------------------------------------------
(***************************************************************************)
(* The server's document.  can_append compares with the hash of the        *)
(* composition, ot_doc_compose_after searches the history: what the first  *)
(* turns away the second does not find at the end, because the two hashes  *)
(* are the same and there is one as soon as there is a document.           *)
(***************************************************************************)
IsDoc(d) ==
  /\ DOMAIN d = {"history", "composed", "size", "max_size"}
  /\ IsSequence(d.history)

HashInStep(d) ==
  /\ IsDoc(d)
  /\ d.history # <<>>
  /\ d.composed.hash = Last(d.history).hash

LEMMA NewDoc ==
  ASSUME NEW m
  PROVE  /\ IsDoc(ot_new_doc(m))
         /\ ot_new_doc(m).history = <<>>
         /\ ot_new_doc(m).max_size = m
BY EmptySequence DEF IsDoc, ot_new_doc

LEMMA ExtendedInStep ==
  ASSUME NEW d, IsDoc(d), NEW head, NEW composed, "hash" \in DOMAIN composed
  PROVE  HashInStep(Extended(d, head, composed))
<1> DEFINE e == Extended(d, head, composed)
<1>1. /\ IsSequence(Append(d.history, head))
      /\ Len(d.history) \in Nat
      /\ Len(Append(d.history, head)) = Len(d.history) + 1
      /\ Append(d.history, head)[Len(d.history) + 1] = head
  BY AppendedSequence DEF IsDoc
<1>2. /\ DOMAIN e = {"history", "composed", "size", "max_size"}
      /\ e.history = Append(d.history, head)
      /\ e.composed = [composed EXCEPT !.hash = head.hash]
  BY DEF Extended, IsDoc
<1> HIDE DEF e
<1>3. e.composed.hash = head.hash
  BY <1>2
<1>4. Last(e.history) = head
  BY <1>1, <1>2 DEF Last
<1>5. e.history # <<>>
  <2>1. Len(e.history) # 0
    BY <1>1, <1>2
  <2> QED
    BY <2>1, EmptySequence
<1>6. HashInStep(e)
  BY <1>1, <1>2, <1>3, <1>4, <1>5 DEF HashInStep, IsDoc
<1> QED
  BY <1>6 DEF e

\* A document of any kind is extended or stays as it was; a new one with no
\* maximum is always extended, the first operation being taken as it is.
LEMMA AppendInStep ==
  ASSUME NEW d, IsDoc(d), NEW op
  PROVE  /\ HashInStep(d) => HashInStep(ot_doc_append(d, op).doc)
         /\ d = ot_new_doc(0) => HashInStep(ot_doc_append(d, op).doc)
<1> DEFINE composed == Composed(d, op)
           head == NewHead(d, op, composed)
<1>1. composed # NULL => "hash" \in DOMAIN composed
  <2>1. \A p1, p2 : ot_compose(p1, p2) # NULL => "hash" \in DOMAIN ot_compose(p1, p2)
    BY DEF ot_compose, Composition, Op
  <2>2. \A a, b, h, x : "hash" \in DOMAIN Op(a, b, h, x)
    BY DEF Op
  <2> QED
    BY <2>1, <2>2 DEF Composed
<1>2. /\ \A err : Refused(d, err).doc = d
      /\ Moved(d, head, composed).doc = Extended(d, head, composed)
  BY DEF Refused, Moved
<1>3. ot_doc_append(d, op) = IF Exceeds(d, op) THEN Refused(d, "max_size")
                            ELSE IF composed = NULL THEN Refused(d, "append_failed")
                            ELSE Moved(d, head, composed)
  BY DEF ot_doc_append, AppendComposed
<1>4. composed # NULL => HashInStep(Extended(d, head, composed))
  BY <1>1, ExtendedInStep
<1>5. d = ot_new_doc(0) => ~Exceeds(d, op) /\ composed # NULL
  BY NewDoc, Messages DEF Exceeds, Composed
<1> HIDE DEF composed, head
<1> QED
  BY <1>2, <1>3, <1>4, <1>5

ServerInStep == server_doc # NULL => HashInStep(server_doc)

LEMMA InitServerInStep == Init => ServerInStep
BY NewDoc, AppendInStep DEF Init, OpenedDoc, ServerInStep

LEMMA NextServerInStep == Control /\ ServerInStep /\ [Next]_vars => ServerInStep'
<1> SUFFICES ASSUME Control, ServerInStep, [Next]_vars PROVE ServerInStep'
  OBVIOUS
<1>1. ASSUME NEW c \in Clients, ServerStep(c) PROVE ServerInStep'
  <2>1. server_doc' = Received(Head(up[c])).doc
    BY <1>1 DEF ServerStep, ot_server_receive
  <2>2. ASSUME NEW d, NEW op, HashInStep(d) PROVE HashInStep(append_op(d, op).doc)
    <3>1. append_op(d, op).doc = d \/ append_op(d, op) = ot_doc_append(d, op)
      BY DEF append_op, Refused
    <3> QED
      BY <2>2, <3>1, AppendInStep DEF HashInStep
  <2>3. CASE server_doc # NULL
    BY <2>1, <2>2, <2>3 DEF Received, ReceivedOn, ServerInStep
  <2>4. CASE server_doc = NULL
    <3> DEFINE op == Head(up[c])
    <3>1. op # NULL
      <4>1. IsSequence(up[c]) /\ up[c] # <<>>
        BY <1>1 DEF Control, TypeOK, ServerStep, ot_server_receive, TakeUp
      <4>2. 1 \in DOMAIN up[c] /\ op = up[c][1]
        BY <4>1, TailOfSequence
      <4>3. IsOp(op)
        BY <4>2 DEF Control, TypeOK
      <4> QED
        BY <4>3 DEF IsOp, NULL
    <3> HIDE DEF op
    <3>2. Received(op) = ot_doc_append(ot_new_doc(0), op)
      BY <2>4, <3>1 DEF Received, ReceivedOn, append_op
    <3> QED
      BY <2>1, <3>2, NewDoc, AppendInStep DEF ServerInStep, op
  <2> QED
    BY <2>3, <2>4
<1>2. ASSUME UNCHANGED server_doc PROVE ServerInStep'
  BY <1>2 DEF ServerInStep
<1>3. \A c \in Clients : Edit(c) \/ ClientStep(c) => UNCHANGED server_doc
  BY DEF Edit, ClientStep
<1> QED
  BY <1>1, <1>2, <1>3 DEF Next, vars

\* ot_doc_compose_after is never asked for what follows the last operation
\* (it would read past the end of the history, doc.c), because can_append
\* comes first and finds the same hash.
THEOREM CallersStayInRangeHolds == Spec => []CallersStayInRange
<1>1. ServerInStep => CallersStayInRange
  BY DEF ServerInStep, HashInStep, CallersStayInRange, can_append
<1> QED
  BY <1>1, InitServerInStep, NextServerInStep, ControlInvariant, PTL DEF Spec

-----------------------------------------------------------------------------
(***************************************************************************)
(* The second invariant.  What is on its way to client k is the rest of    *)
(* the server's history after what k has seen, in order, with errors in    *)
(* between: at[i] is the version seen after the i-th message of queue q.   *)
(***************************************************************************)
History == IF server_doc = NULL THEN <<>> ELSE server_doc.history

AuthorsIn(h) == [n \in 1..Len(h) |-> h[n].client_id]

Numbers(at, q, from, h) ==
  /\ at \in [0..Len(q) -> Nat]
  /\ at[0] = from
  /\ at[Len(q)] = Len(h)
  /\ \A i \in 1..Len(q) :
       \/ /\ IsError(q[i])
          /\ at[i] = at[i - 1]
       \/ /\ ~IsError(q[i])
          /\ at[i] = at[i - 1] + 1
          /\ at[i] \in 1..Len(h)
          /\ q[i] = h[at[i]]

RestUnderWay == \A k \in Clients : \E at : Numbers(at, down[k], seen[k], History)

OrderInv == Control /\ ServerInStep /\ RestUnderWay

-----------------------------------------------------------------------------
LEMMA HistoryIsASequence == ServerInStep => IsSequence(History)
BY EmptySequence DEF ServerInStep, HashInStep, IsDoc, History

LEMMA AuthorsOfSequence ==
  ASSUME NEW h, IsSequence(h)
  PROVE  /\ Len(h) \in Nat
         /\ Len(AuthorsIn(h)) = Len(h)
         /\ \A msg : AuthorsIn(Append(h, msg)) = Append(AuthorsIn(h), msg.client_id)
<1> DEFINE T == {h[n].client_id : n \in 1..Len(h)}
           authors == AuthorsIn(h)
<1>1. Len(h) \in Nat
  BY DEF IsSequence
<1>2. authors \in [1..Len(h) -> T] /\ authors \in Seq(T) /\ Len(authors) = Len(h)
  <2>1. authors \in [1..Len(h) -> T]
    BY DEF AuthorsIn
  <2> HIDE DEF T, authors
  <2> QED
    BY <1>1, <2>1, SeqDef
<1>3. ASSUME NEW msg
      PROVE  AuthorsIn(Append(h, msg)) = Append(authors, msg.client_id)
  <2> DEFINE x == msg.client_id
             g == Append(h, msg)
             left == AuthorsIn(g)
             right == Append(authors, x)
  <2>1. /\ Len(g) = Len(h) + 1 /\ g[Len(h) + 1] = msg
        /\ \A n \in 1..Len(h) : g[n] = h[n]
    BY AppendedSequence
  <2>2. /\ right[Len(h) + 1] = x
        /\ \A n \in 1..Len(h) : right[n] = authors[n]
        /\ right = [n \in 1..(Len(h) + 1) |-> right[n]]
    <3>1. IsSequence(authors)
      BY <1>2, SequenceOfItsElements
    <3> HIDE DEF T, authors, x
    <3>2. /\ IsSequence(right) /\ Len(right) = Len(h) + 1
          /\ right[Len(h) + 1] = x
          /\ \A n \in 1..Len(h) : right[n] = authors[n]
      BY <1>2, <3>1, AppendedSequence
    <3> DEFINE U == {right[n] : n \in DOMAIN right}
    <3>3. right \in Seq(U)
      BY <3>2 DEF IsSequence
    <3> HIDE DEF U, right
    <3>4. right = [n \in 1..(Len(h) + 1) |-> right[n]]
      BY <3>2, <3>3
    <3> QED
      BY <3>2, <3>4
  <2>3. left = [n \in 1..(Len(h) + 1) |-> g[n].client_id]
    BY <2>1 DEF AuthorsIn
  <2>4. ASSUME NEW n \in 1..(Len(h) + 1) PROVE g[n].client_id = right[n]
    <3>1. \A m \in 1..Len(h) : authors[m] = h[m].client_id
      BY DEF AuthorsIn
    <3> HIDE DEF right, authors, g
    <3>2. CASE n = Len(h) + 1
      BY <2>1, <2>2, <3>2
    <3>3. CASE n \in 1..Len(h)
      BY <2>1, <2>2, <3>1, <3>3
    <3> QED
      BY <1>1, <3>2, <3>3
  <2> HIDE DEF left, right, g
  <2> QED
    BY <2>2, <2>3, <2>4 DEF left, right, g
<1> QED
  BY <1>1, <1>2, <1>3

LEMMA AuthorsOfHistory == Version = Len(History) /\ Authors = AuthorsIn(History)
<1>1. Version = Len(History)
  BY EmptySequence DEF Version, History
<1>2. CASE server_doc = NULL
  BY <1>1, <1>2, EmptySequence DEF Authors, AuthorsIn, History
<1>3. CASE server_doc # NULL
  BY <1>1, <1>3 DEF Authors, AuthorsIn, History
<1> QED
  BY <1>1, <1>2, <1>3

LEMMA AuthorsOfHistoryNext ==
  /\ (Version = Len(History) /\ Authors = AuthorsIn(History))
  /\ (Version = Len(History) /\ Authors = AuthorsIn(History))'
BY AuthorsOfHistory, PTL

\* What ot_doc_append and the server do to a history.
LEMMA AppendedHistory ==
  ASSUME NEW d, IsDoc(d), NEW op
  PROVE  /\ DOMAIN ot_doc_append(d, op).doc = DOMAIN d
         /\ \/ /\ ot_doc_append(d, op).err # "none"
               /\ ot_doc_append(d, op).doc = d
            \/ /\ ot_doc_append(d, op).err = "none"
               /\ ot_doc_append(d, op).doc.history = Append(d.history, ot_doc_append(d, op).op)
<1> DEFINE composed == Composed(d, op)
           head == NewHead(d, op, composed)
<1>1. /\ \A err : Refused(d, err).doc = d /\ Refused(d, err).err = err
      /\ Moved(d, head, composed).doc = Extended(d, head, composed)
      /\ Moved(d, head, composed).err = "none"
      /\ Moved(d, head, composed).op = head
  BY DEF Refused, Moved
<1>2. ot_doc_append(d, op) = IF Exceeds(d, op) THEN Refused(d, "max_size")
                            ELSE IF composed = NULL THEN Refused(d, "append_failed")
                            ELSE Moved(d, head, composed)
  BY DEF ot_doc_append, AppendComposed
<1>3. /\ Extended(d, head, composed).history = Append(d.history, head)
      /\ DOMAIN Extended(d, head, composed) = DOMAIN d
  BY DEF Extended, IsDoc
<1> HIDE DEF composed, head
<1> QED
  BY <1>1, <1>2, <1>3

LEMMA ReceivedHistory ==
  ASSUME ServerInStep, NEW op
  PROVE  LET r == Received(op)
         IN  /\ r.doc # NULL
             /\ \/ r.err # "none" /\ r.doc.history = History
                \/ r.err = "none" /\ r.doc.history = Append(History, r.op)
<1>1. ASSUME NEW d, IsDoc(d), NEW p
      PROVE  /\ append_op(d, p).doc # NULL
             /\ \/ append_op(d, p).err # "none" /\ append_op(d, p).doc.history = d.history
                \/ /\ append_op(d, p).err = "none"
                   /\ append_op(d, p).doc.history = Append(d.history, append_op(d, p).op)
  <2>1. \A e : DOMAIN e = DOMAIN d => e # NULL
    BY <1>1 DEF IsDoc, NULL
  <2>2. CASE p = NULL
    BY <1>1, <2>1, <2>2 DEF append_op, Refused
  <2>3. CASE p # NULL
    BY <1>1, <2>1, <2>3, AppendedHistory DEF append_op
  <2> QED
    BY <2>2, <2>3
<1>2. CASE server_doc = NULL
  <2>1. Received(op) = append_op(ot_new_doc(0), op)
    BY <1>2 DEF Received, ReceivedOn
  <2>2. IsDoc(ot_new_doc(0)) /\ ot_new_doc(0).history = History
    BY <1>2, NewDoc DEF History
  <2> QED
    BY <1>1, <2>1, <2>2
<1>3. CASE server_doc # NULL
  <2>1. \E p : Received(op) = append_op(server_doc, p)
    BY <1>3 DEF Received, ReceivedOn
  <2>2. IsDoc(server_doc) /\ server_doc.history = History
    BY <1>3 DEF ServerInStep, HashInStep, History
  <2> QED
    BY <1>1, <2>1, <2>2
<1> QED
  BY <1>2, <1>3

-----------------------------------------------------------------------------
(***************************************************************************)
(* The numbering is kept when a message is added at the end and when one   *)
(* is taken from the front.                                                *)
(***************************************************************************)
LEMMA NumbersAfterTake ==
  ASSUME NEW q, IsSequence(q), q # <<>>, NEW from, NEW h,
         NEW at, Numbers(at, q, from, h)
  PROVE  Numbers([i \in 0..(Len(q) - 1) |-> at[i + 1]], Tail(q), at[1], h)
<1> DEFINE next == [i \in 0..(Len(q) - 1) |-> at[i + 1]]
<1>1. /\ Len(q) \in Nat \ {0} /\ Len(Tail(q)) = Len(q) - 1
      /\ \A i \in 1..(Len(q) - 1) : Tail(q)[i] = q[i + 1]
  BY TailOfSequence
<1>2. next \in [0..(Len(q) - 1) -> Nat]
  BY <1>1 DEF Numbers
<1>3. next[0] = at[1] /\ next[Len(q) - 1] = at[Len(q)]
  BY <1>1
<1>4. ASSUME NEW i \in 1..(Len(q) - 1)
      PROVE  /\ next[i] = at[i + 1] /\ next[i - 1] = at[i]
             /\ i + 1 \in 1..Len(q) /\ (i + 1) - 1 = i
  BY <1>1
<1> HIDE DEF next
<1>5. ASSUME NEW i \in 1..(Len(q) - 1)
      PROVE  \/ IsError(Tail(q)[i]) /\ next[i] = next[i - 1]
             \/ /\ ~IsError(Tail(q)[i])
                /\ next[i] = next[i - 1] + 1
                /\ next[i] \in 1..Len(h)
                /\ Tail(q)[i] = h[next[i]]
  <2> DEFINE j == i + 1
  <2>1. j \in 1..Len(q) /\ j - 1 = i
    BY <1>4
  <2>2. Tail(q)[i] = q[j] /\ next[i] = at[j] /\ next[i - 1] = at[j - 1]
    BY <1>1, <1>4, <2>1
  <2> HIDE DEF j
  <2>3. \/ IsError(q[j]) /\ at[j] = at[j - 1]
        \/ /\ ~IsError(q[j])
           /\ at[j] = at[j - 1] + 1
           /\ at[j] \in 1..Len(h)
           /\ q[j] = h[at[j]]
    BY <2>1 DEF Numbers
  <2> QED
    BY <2>2, <2>3
<1>6. at[Len(q)] = Len(h)
  BY DEF Numbers
<1>7. Numbers(next, Tail(q), at[1], h)
  BY <1>1, <1>2, <1>3, <1>5, <1>6 DEF Numbers
<1> QED
  BY <1>7 DEF next

LEMMA NumbersAfterAppend ==
  ASSUME NEW q, IsSequence(q), NEW from, NEW h, IsSequence(h),
         NEW at, Numbers(at, q, from, h),
         NEW msg, NEW g,
         \/ IsError(msg) /\ g = h
         \/ ~IsError(msg) /\ g = Append(h, msg)
  PROVE  \E next : Numbers(next, Append(q, msg), from, g)
<1> DEFINE next == [i \in 0..(Len(q) + 1) |-> IF i = Len(q) + 1 THEN Len(g) ELSE at[i]]
<1>1. /\ Len(q) \in Nat /\ Len(Append(q, msg)) = Len(q) + 1
      /\ \A i \in 1..Len(q) : Append(q, msg)[i] = q[i]
      /\ Append(q, msg)[Len(q) + 1] = msg
  BY AppendedSequence
<1>2. /\ Len(h) \in Nat /\ Len(Append(h, msg)) = Len(h) + 1
      /\ \A i \in 1..Len(h) : Append(h, msg)[i] = h[i]
      /\ Append(h, msg)[Len(h) + 1] = msg
  BY AppendedSequence
<1>3. /\ Len(g) \in Nat
      /\ \/ IsError(msg) /\ Len(g) = Len(h)
         \/ ~IsError(msg) /\ Len(g) = Len(h) + 1 /\ g[Len(g)] = msg
      /\ \A n \in 1..Len(h) : n \in 1..Len(g) /\ g[n] = h[n]
  BY <1>2
<1>4. at \in [0..Len(q) -> Nat] /\ at[0] = from /\ at[Len(q)] = Len(h)
  BY DEF Numbers
<1>5. next \in [0..(Len(q) + 1) -> Nat]
  BY <1>1, <1>3, <1>4
<1>6. next[0] = from /\ next[Len(q) + 1] = Len(g) /\ next[Len(q)] = Len(h)
  BY <1>1, <1>4
<1>7. \A i \in 1..Len(q) : next[i] = at[i] /\ next[i - 1] = at[i - 1]
  BY <1>1
<1> HIDE DEF next
<1>8. ASSUME NEW i \in 1..(Len(q) + 1)
      PROVE  \/ IsError(Append(q, msg)[i]) /\ next[i] = next[i - 1]
             \/ /\ ~IsError(Append(q, msg)[i])
                /\ next[i] = next[i - 1] + 1
                /\ next[i] \in 1..Len(g)
                /\ Append(q, msg)[i] = g[next[i]]
  <2>1. CASE i = Len(q) + 1
    <3>1. Append(q, msg)[i] = msg /\ next[i] = Len(g) /\ next[i - 1] = Len(h)
      BY <1>1, <1>6, <2>1
    <3> QED
      BY <1>2, <1>3, <3>1
  <2>2. CASE i \in 1..Len(q)
    <3>1. \/ IsError(q[i]) /\ at[i] = at[i - 1]
          \/ /\ ~IsError(q[i])
             /\ at[i] = at[i - 1] + 1
             /\ at[i] \in 1..Len(h)
             /\ q[i] = h[at[i]]
      BY <2>2 DEF Numbers
    <3> QED
      BY <1>1, <1>3, <1>7, <2>2, <3>1
  <2> QED
    BY <1>1, <2>1, <2>2
<1>9. Numbers(next, Append(q, msg), from, g)
  BY <1>1, <1>5, <1>6, <1>8 DEF Numbers
<1> QED
  BY <1>9

-----------------------------------------------------------------------------
(***************************************************************************)
(* The stages.                                                             *)
(***************************************************************************)
StageFrom(waits, sent, returns) ==
  CASE ~waits -> "idle"
    [] waits /\ sent -> "requested"
    [] waits /\ ~sent /\ returns -> "granted"
    [] OTHER -> "lost"

LEMMA StageOfEach ==
  Stage = [k \in Clients |->
             StageFrom(ack_required[k], up[k] # <<>>, OwnIn(k, down[k]) # {})]
BY DEF Stage, StageFrom, OwnAt, OwnIn

LEMMA StageOfEachNext ==
  /\ Stage = [k \in Clients |->
                StageFrom(ack_required[k], up[k] # <<>>, OwnIn(k, down[k]) # {})]
  /\ (Stage = [k \in Clients |->
                 StageFrom(ack_required[k], up[k] # <<>>, OwnIn(k, down[k]) # {})])'
BY StageOfEach, PTL

LEMMA StageKept ==
  ASSUME NEW k \in Clients,
         ack_required'[k] = ack_required[k],
         up'[k] # <<>> <=> up[k] # <<>>,
         OwnIn(k, down'[k]) # {} <=> OwnIn(k, down[k]) # {}
  PROVE  Stage'[k] = Stage[k]
BY StageOfEachNext DEF StageFrom

LEMMA StageMoves ==
  ASSUME NEW c \in Clients, \A k \in Clients : k # c => Stage'[k] = Stage[k]
  PROVE  Stage' = [Stage EXCEPT ![c] = Stage'[c]]
<1>1. /\ Stage = [k \in Clients |-> Stage[k]]
      /\ Stage' = [k \in Clients |-> Stage'[k]]
  BY StageOfEachNext
<1> QED
  BY <1>1

LEMMA StageOnce ==
  ASSUME \A k \in Clients : Stage'[k] = Stage[k]
  PROVE  Stage' = Stage
BY StageOfEachNext

LEMMA OwnAfterOther ==
  ASSUME NEW k, NEW q, IsSequence(q), q # <<>>, ~IsOwn(k, Head(q))
  PROVE  OwnIn(k, Tail(q)) # {} <=> OwnIn(k, q) # {}
<1>1. OwnIn(k, Tail(q)) = {i \in 1..(Len(q) - 1) : i + 1 \in OwnIn(k, q)}
  BY OwnAfterTail
<1>2. Len(q) \in Nat \ {0} /\ Head(q) = q[1]
  BY TailOfSequence
<1>3. ASSUME NEW j \in OwnIn(k, q) PROVE OwnIn(k, Tail(q)) # {}
  <2>1. j \in 1..Len(q) /\ j # 1
    BY <1>2, <1>3 DEF OwnIn
  <2>2. j - 1 \in 1..(Len(q) - 1) /\ (j - 1) + 1 = j
    BY <1>2, <2>1
  <2> QED
    BY <1>1, <1>3, <2>2
<1> QED
  BY <1>1, <1>3

LEMMA TailOfOne ==
  ASSUME NEW s, IsSequence(s), s # <<>>, Len(s) <= 1
  PROVE  Tail(s) = <<>>
<1>1. IsSequence(Tail(s)) /\ Len(s) \in Nat \ {0} /\ Len(Tail(s)) = Len(s) - 1
  BY TailOfSequence
<1>2. Len(Tail(s)) = 0
  <2>1. \A n \in Nat \ {0} : n <= 1 => n - 1 = 0
    OBVIOUS
  <2> QED
    BY <1>1, <2>1
<1> QED
  BY <1>1, <1>2, EmptySeq DEF IsSequence

LEMMA AppendIsNotEmpty ==
  ASSUME NEW s, IsSequence(s), NEW x
  PROVE  Append(s, x) # <<>>
<1>1. Len(Append(s, x)) = Len(s) + 1 /\ Len(s) \in Nat
  BY AppendedSequence
<1> QED
  BY <1>1, EmptySequence

-----------------------------------------------------------------------------
(***************************************************************************)
(* What an editor does is a request or nothing.                            *)
(***************************************************************************)
LEMMA EditOrdered ==
  ASSUME OrderInv, NEW c \in Clients, Edit(c)
  PROVE  RestUnderWay' /\ (Ordered!Request(c) \/ UNCHANGED <<Authors, seen, Stage>>)
<1>1. Shape /\ \A k \in Clients : Each(k)
  BY ControlByClient DEF OrderInv, EachClient
<1>2. UNCHANGED <<down, seen, server_doc>>
  BY DEF Edit, ot_client_apply
<1>3. History' = History /\ Authors' = Authors
  BY <1>2, AuthorsOfHistoryNext DEF History, AuthorsIn
<1>4. RestUnderWay'
  BY <1>2, <1>3 DEF OrderInv, RestUnderWay
<1>5. CASE UNCHANGED <<up, ack_required>>
  <2>1. \A k \in Clients : Stage'[k] = Stage[k]
    BY <1>2, <1>5, StageKept
  <2> QED
    BY <1>2, <1>3, <1>4, <2>1, StageOnce
<1>6. ASSUME NEW op, NEW parent, ~ack_required[c],
             send_buffer(c, op, parent, seen[c])
      PROVE  Ordered!Request(c)
  <2> DEFINE msg == Op(op.client_id, parent, op.hash, op.comps)
  <2>1. /\ up' = [up EXCEPT ![c] = Append(@, msg)]
        /\ ack_required' = [ack_required EXCEPT ![c] = TRUE]
    BY <1>6 DEF send_buffer
  <2> HIDE DEF msg
  <2>2. up'[c] = Append(up[c], msg) /\ IsSequence(up[c]) /\ ack_required'[c] = TRUE
    BY <1>1, <2>1 DEF Each, UpTyped, Shape
  <2>3. up'[c] # <<>>
    BY <2>2, AppendIsNotEmpty
  <2>4. Stage[c] = "idle" /\ Stage'[c] = "requested"
    BY <1>6, <2>2, <2>3, StageOfEachNext DEF StageFrom
  <2>5. ASSUME NEW k \in Clients, k # c PROVE Stage'[k] = Stage[k]
    <3>1. up'[k] = up[k] /\ ack_required'[k] = ack_required[k]
      BY <1>1, <2>1, <2>5 DEF Shape
    <3> QED
      BY <1>2, <3>1, StageKept
  <2>6. Stage' = [Stage EXCEPT ![c] = "requested"]
    BY <2>4, <2>5, StageMoves
  <2> QED
    BY <1>2, <1>3, <2>4, <2>6 DEF Ordered!Request
<1> QED
  BY <1>4, <1>5, <1>6 DEF Edit, ot_client_apply

(***************************************************************************)
(* The server grants the request of the client whose operation it takes,   *)
(* or loses it.                                                            *)
(***************************************************************************)
LEMMA ServerStepOrdered ==
  ASSUME OrderInv, ServerInStep', NEW c \in Clients, ServerStep(c)
  PROVE  RestUnderWay' /\ (Ordered!Grant(c) \/ Ordered!Lose(c))
<1>1. Shape /\ \A k \in Clients : Each(k)
  BY ControlByClient DEF OrderInv, EachClient
<1>2. /\ up[c] # <<>> /\ up' = [up EXCEPT ![c] = Tail(up[c])]
      /\ UNCHANGED <<ack_required, seen>>
  BY DEF ServerStep, ot_server_receive, TakeUp, clientVars
<1>3. IsSequence(up[c]) /\ Head(up[c]).client_id = c
  BY <1>1, <1>2, TailOfSequence DEF Each, UpTyped
<1>4. PICK msg : /\ down' = [k \in Clients |-> Append(down[k], msg)]
                 /\ \/ IsError(msg) /\ History' = History
                    \/ /\ ~IsError(msg) /\ msg.client_id = c
                       /\ History' = Append(History, msg)
  <2> DEFINE op == Head(up[c])
  <2>1. PICK r : /\ r = Received(op)
                 /\ server_doc' = r.doc
                 /\ \/ r.err = "none" /\ Broadcast(r.op)
                    \/ r.err # "none" /\ Broadcast(ErrorMsg(r.err))
    BY DEF ServerStep, ot_server_receive
  <2>2. /\ r.doc # NULL
        /\ \/ r.err # "none" /\ r.doc.history = History
           \/ r.err = "none" /\ r.doc.history = Append(History, r.op)
    BY <2>1, ReceivedHistory DEF OrderInv
  <2>3. History' = r.doc.history
    BY <2>1, <2>2 DEF History
  <2>4. CASE r.err = "none" /\ Broadcast(r.op)
    <3>1. IsOp(r.op) /\ r.op.client_id = c
      BY <1>3, <2>1, <2>4, ServerResult
    <3> QED
      BY <2>2, <2>3, <2>4, <3>1, OpsAreNoErrors DEF Broadcast
  <2>5. CASE r.err # "none" /\ Broadcast(ErrorMsg(r.err))
    <3>1. IsError(ErrorMsg(r.err))
      BY DEF IsError, ErrorMsg
    <3> QED
      BY <2>2, <2>3, <2>5, <3>1 DEF Broadcast
  <2> QED
    BY <2>1, <2>4, <2>5
<1>5. IsSequence(History)
  BY HistoryIsASequence DEF OrderInv
<1>6. ASSUME NEW k \in Clients
      PROVE  /\ \E at : Numbers(at, down'[k], seen'[k], History')
             /\ OwnIn(k, down'[k]) =
                  OwnIn(k, down[k]) \cup (IF IsOwn(k, msg) THEN {Len(down[k]) + 1} ELSE {})
  <2>1. IsSequence(down[k]) /\ down'[k] = Append(down[k], msg) /\ seen'[k] = seen[k]
    BY <1>1, <1>2, <1>4 DEF Each, DownTyped
  <2>2. PICK at : Numbers(at, down[k], seen[k], History)
    BY DEF OrderInv, RestUnderWay
  <2>3. \E next : Numbers(next, Append(down[k], msg), seen[k], History')
    BY <1>4, <1>5, <2>1, <2>2, NumbersAfterAppend
  <2>4. \E next : Numbers(next, down'[k], seen'[k], History')
    BY <2>1, <2>3
  <2>5. OwnIn(k, Append(down[k], msg)) =
          OwnIn(k, down[k]) \cup (IF IsOwn(k, msg) THEN {Len(down[k]) + 1} ELSE {})
    BY <2>1, OwnAfterAppend
  <2> QED
    BY <2>1, <2>4, <2>5
<1>7. RestUnderWay'
  BY <1>6 DEF RestUnderWay
<1>8. ack_required[c] /\ OwnIn(c, down[c]) = {} /\ Len(up[c]) <= 1
  BY <1>1, <1>2 DEF Each, Flight
<1>9. up'[c] = <<>>
  BY <1>1, <1>2, <1>3, <1>8, TailOfOne DEF Shape
<1>10. ASSUME NEW k \in Clients, k # c PROVE Stage'[k] = Stage[k]
  <2>1. up'[k] = up[k] /\ ack_required'[k] = ack_required[k]
    BY <1>1, <1>2, <1>10 DEF Shape
  <2>2. ~IsOwn(k, msg)
    BY <1>4, <1>10 DEF IsOwn
  <2>3. OwnIn(k, down'[k]) = OwnIn(k, down[k])
    BY <1>6, <2>2
  <2> QED
    BY <2>1, <2>3, StageKept
<1>11. Stage[c] = "requested"
  BY <1>2, <1>8, StageOfEachNext DEF StageFrom
<1>12. OwnIn(c, down'[c]) # {} <=> ~IsError(msg)
  BY <1>4, <1>6, <1>8 DEF IsOwn
<1>13. Stage'[c] = IF IsError(msg) THEN "lost" ELSE "granted"
  BY <1>2, <1>8, <1>9, <1>12, StageOfEachNext DEF StageFrom
<1>14. Authors' = IF IsError(msg) THEN Authors ELSE Append(Authors, c)
  BY <1>4, <1>5, AuthorsOfSequence, AuthorsOfHistoryNext
<1>15. Ordered!Grant(c) \/ Ordered!Lose(c)
  BY <1>2, <1>10, <1>11, <1>13, <1>14, StageMoves DEF Ordered!Grant, Ordered!Lose
<1> QED
  BY <1>7, <1>15

(***************************************************************************)
(* A client learns the next entry of the log, or hears of an error, which  *)
(* changes nothing.                                                        *)
(***************************************************************************)
LEMMA TakenMessage ==
  ASSUME OrderInv, NEW c \in Clients, TakeDown(c), UNCHANGED server_doc,
         seen' = [seen EXCEPT ![c] = IF IsError(Head(down[c])) THEN @ ELSE @ + 1]
  PROVE  /\ RestUnderWay' /\ History' = History /\ Authors' = Authors
         /\ \A k \in Clients : k # c => down'[k] = down[k]
         /\ ~IsOwn(c, Head(down[c])) =>
              (OwnIn(c, down'[c]) # {} <=> OwnIn(c, down[c]) # {})
         /\ ~IsError(Head(down[c])) =>
              /\ seen[c] < Len(Authors)
              /\ seen'[c] = seen[c] + 1
              /\ Authors[seen'[c]] = Head(down[c]).client_id
              /\ seen'[c] \in 1..Len(History) /\ Head(down[c]) = History[seen'[c]]
<1> DEFINE q == down[c]
<1>1. Shape /\ \A k \in Clients : Each(k)
  BY ControlByClient DEF OrderInv, EachClient
<1>2. q # <<>> /\ IsSequence(q) /\ down' = [down EXCEPT ![c] = Tail(q)]
  BY <1>1 DEF TakeDown, Each, DownTyped
<1>3. down'[c] = Tail(q) /\ \A k \in Clients : k # c => down'[k] = down[k]
  BY <1>1, <1>2 DEF Shape
<1>4. History' = History /\ Authors' = Authors
  BY AuthorsOfHistoryNext DEF History, AuthorsIn
<1>5. PICK at : Numbers(at, q, seen[c], History)
  BY DEF OrderInv, RestUnderWay
<1>6. /\ 1 \in 1..Len(q) /\ Head(q) = q[1] /\ 1 - 1 = 0
  BY <1>2, TailOfSequence
<1>7. /\ IsError(q[1]) => at[1] = seen[c]
      /\ ~IsError(q[1]) => /\ at[1] = seen[c] + 1
                           /\ at[1] \in 1..Len(History)
                           /\ q[1] = History[at[1]]
  BY <1>5, <1>6 DEF Numbers
<1>8. seen'[c] = at[1] /\ \A k \in Clients : k # c => seen'[k] = seen[k]
  BY <1>1, <1>6, <1>7 DEF Shape
<1>9. RestUnderWay'
  <2>1. \E next : Numbers(next, Tail(q), at[1], History)
    BY <1>2, <1>5, NumbersAfterTake
  <2>2. \E next : Numbers(next, down'[c], seen'[c], History')
    BY <1>3, <1>4, <1>8, <2>1
  <2>3. ASSUME NEW k \in Clients, k # c
        PROVE  \E next : Numbers(next, down'[k], seen'[k], History')
    <3>1. PICK next : Numbers(next, down[k], seen[k], History)
      BY DEF OrderInv, RestUnderWay
    <3> QED
      BY <1>3, <1>4, <1>8, <2>3, <3>1
  <2> QED
    BY <2>2, <2>3 DEF RestUnderWay
<1>10. ~IsOwn(c, Head(q)) => (OwnIn(c, down'[c]) # {} <=> OwnIn(c, q) # {})
  BY <1>2, <1>3, OwnAfterOther
<1>11. ASSUME ~IsError(Head(q))
       PROVE  /\ seen[c] < Len(Authors)
              /\ seen'[c] = seen[c] + 1
              /\ Authors[seen'[c]] = Head(q).client_id
              /\ seen'[c] \in 1..Len(History) /\ Head(q) = History[seen'[c]]
  <2>1. /\ at[1] = seen[c] + 1 /\ at[1] \in 1..Len(History) /\ seen[c] \in Nat
        /\ Head(q) = History[at[1]]
    BY <1>1, <1>6, <1>7, <1>11 DEF Shape
  <2>2. IsSequence(History)
    BY HistoryIsASequence DEF OrderInv
  <2>3. Len(Authors) = Len(History) /\ Len(History) \in Nat
    BY <2>2, AuthorsOfSequence, AuthorsOfHistory
  <2>4. Authors[at[1]] = History[at[1]].client_id
    BY <2>1, AuthorsOfHistory DEF AuthorsIn
  <2> QED
    BY <1>8, <2>1, <2>3, <2>4
<1> QED
  BY <1>3, <1>4, <1>9, <1>10, <1>11

LEMMA ReceiveErrorOrdered ==
  ASSUME OrderInv, NEW c \in Clients, ReceiveError(c), UNCHANGED server_doc
  PROVE  RestUnderWay' /\ UNCHANGED <<Authors, seen, Stage>>
<1>1. Shape
  BY ControlByClient DEF OrderInv
<1>2. /\ TakeDown(c) /\ IsError(Head(down[c])) /\ UNCHANGED <<up, ack_required, seen>>
  BY DEF ReceiveError
<1>3. seen' = [seen EXCEPT ![c] = IF IsError(Head(down[c])) THEN @ ELSE @ + 1]
  BY <1>1, <1>2 DEF Shape
<1>4. /\ RestUnderWay' /\ Authors' = Authors
      /\ \A k \in Clients : k # c => down'[k] = down[k]
      /\ OwnIn(c, down'[c]) # {} <=> OwnIn(c, down[c]) # {}
  BY <1>2, <1>3, TakenMessage DEF IsOwn
<1>5. ASSUME NEW k \in Clients PROVE Stage'[k] = Stage[k]
  <2>1. OwnIn(k, down'[k]) # {} <=> OwnIn(k, down[k]) # {}
    BY <1>4
  <2> QED
    BY <1>2, <2>1, StageKept
<1> QED
  BY <1>2, <1>4, <1>5, StageOnce

LEMMA ReceiveOpOrdered ==
  ASSUME OrderInv, NEW c \in Clients, ReceiveOp(c), UNCHANGED server_doc
  PROVE  RestUnderWay' /\ Ordered!Learn(c)
<1>1. Shape
  BY ControlByClient DEF OrderInv
<1>2. /\ TakeDown(c) /\ ~IsError(Head(down[c])) /\ Head(down[c]).client_id # c
      /\ seen' = [seen EXCEPT ![c] = @ + 1]
      /\ UNCHANGED <<up, ack_required>>
  BY DEF ReceiveOp
<1>3. seen' = [seen EXCEPT ![c] = IF IsError(Head(down[c])) THEN @ ELSE @ + 1]
  BY <1>2
<1>4. /\ RestUnderWay' /\ Authors' = Authors
      /\ \A k \in Clients : k # c => down'[k] = down[k]
      /\ OwnIn(c, down'[c]) # {} <=> OwnIn(c, down[c]) # {}
      /\ seen[c] < Len(Authors) /\ Authors[seen'[c]] # c
  BY <1>2, <1>3, TakenMessage DEF IsOwn
<1>5. ASSUME NEW k \in Clients PROVE Stage'[k] = Stage[k]
  <2>1. OwnIn(k, down'[k]) # {} <=> OwnIn(k, down[k]) # {}
    BY <1>4
  <2> QED
    BY <1>2, <2>1, StageKept
<1>6. Stage' = Stage
  BY <1>5, StageOnce
<1> QED
  BY <1>2, <1>4, <1>6 DEF Ordered!Learn

LEMMA ReceiveAckOrdered ==
  ASSUME OrderInv, NEW c \in Clients, ReceiveAck(c), UNCHANGED server_doc
  PROVE  RestUnderWay' /\ Ordered!Learn(c)
<1>1. Shape /\ \A k \in Clients : Each(k)
  BY ControlByClient DEF OrderInv, EachClient
<1>2. /\ TakeDown(c) /\ ~IsError(Head(down[c])) /\ Head(down[c]).client_id = c
      /\ seen' = [seen EXCEPT ![c] = @ + 1]
  BY DEF ReceiveAck
<1>3. seen' = [seen EXCEPT ![c] = IF IsError(Head(down[c])) THEN @ ELSE @ + 1]
  BY <1>2
<1>4. /\ RestUnderWay' /\ Authors' = Authors
      /\ \A k \in Clients : k # c => down'[k] = down[k]
      /\ seen[c] < Len(Authors) /\ Authors[seen'[c]] = c
  BY <1>2, <1>3, TakenMessage
<1>5. Stage[c] = "granted"
  <2>1. IsOwn(c, Head(down[c]))
    BY <1>2 DEF IsOwn
  <2>2. OwnIn(c, down[c]) # {}
    BY <1>1, <1>2, <2>1, TakeDownKeepsQueue DEF Each
  <2>3. ack_required[c] /\ up[c] = <<>>
    BY <1>1, <2>2 DEF Each, Flight
  <2> QED
    BY <2>2, <2>3, StageOfEachNext DEF StageFrom
<1>6. CASE /\ ack_required' = [ack_required EXCEPT ![c] = FALSE]
           /\ UNCHANGED up
  <2>1. Stage'[c] = "idle"
    <3>1. ack_required'[c] = FALSE
      BY <1>1, <1>6 DEF Shape
    <3> QED
      BY <3>1, StageOfEachNext DEF StageFrom
  <2>2. ASSUME NEW k \in Clients, k # c PROVE Stage'[k] = Stage[k]
    <3>1. ack_required'[k] = ack_required[k] /\ up'[k] = up[k] /\ down'[k] = down[k]
      BY <1>1, <1>4, <1>6, <2>2 DEF Shape
    <3> QED
      BY <3>1, StageKept
  <2>3. Stage' = [Stage EXCEPT ![c] = "idle"]
    BY <2>1, <2>2, StageMoves
  <2> QED
    BY <1>2, <1>4, <1>5, <2>3 DEF Ordered!Learn
<1>7. ASSUME NEW op, NEW parent, NEW version, send_buffer(c, op, parent, version)
      PROVE  Ordered!Learn(c)
  <2> DEFINE msg == Op(op.client_id, parent, op.hash, op.comps)
  <2>1. /\ up' = [up EXCEPT ![c] = Append(@, msg)]
        /\ ack_required' = [ack_required EXCEPT ![c] = TRUE]
    BY <1>7 DEF send_buffer
  <2> HIDE DEF msg
  <2>2. up'[c] = Append(up[c], msg) /\ IsSequence(up[c]) /\ ack_required'[c] = TRUE
    BY <1>1, <2>1 DEF Each, UpTyped, Shape
  <2>3. Stage'[c] = "requested"
    BY <2>2, AppendIsNotEmpty, StageOfEachNext DEF StageFrom
  <2>4. ASSUME NEW k \in Clients, k # c PROVE Stage'[k] = Stage[k]
    <3>1. ack_required'[k] = ack_required[k] /\ up'[k] = up[k] /\ down'[k] = down[k]
      BY <1>1, <1>4, <2>1, <2>4 DEF Shape
    <3> QED
      BY <3>1, StageKept
  <2>5. Stage' = [Stage EXCEPT ![c] = "requested"]
    BY <2>3, <2>4, StageMoves
  <2> QED
    BY <1>2, <1>4, <1>5, <2>5 DEF Ordered!Learn
<1> QED
  BY <1>4, <1>6, <1>7 DEF ReceiveAck

-----------------------------------------------------------------------------
LEMMA OpenedHistory ==
  ASSUME InitialText # <<>>
  PROVE  /\ OpenedDoc # NULL
         /\ \E op : OpenedDoc.history = Append(<<>>, op) /\ op.client_id = 0
<1> DEFINE d == ot_new_doc(0)
           op == Op(0, ZeroHash, ZeroHash, <<InsertComp(InitialText)>>)
           r == ot_doc_append(d, op)
<1>1. IsDoc(d) /\ d.history = <<>>
  BY NewDoc
<1>2. OpenedDoc = r.doc
  BY DEF OpenedDoc
<1>3. HashInStep(r.doc)
  BY <1>1, AppendInStep
<1>4. r.doc # d
  BY <1>1, <1>3 DEF HashInStep
<1>5. r.err = "none" /\ r.doc.history = Append(<<>>, r.op)
  BY <1>1, <1>4, AppendedHistory
<1>6. r.op.client_id = 0
  BY <1>5, AppendResult, Messages
<1>7. r.doc # NULL
  BY <1>3 DEF HashInStep, IsDoc, NULL
<1> HIDE DEF r
<1> QED
  BY <1>2, <1>5, <1>6, <1>7

LEMMA InitOrdered == Init => OrderInv /\ Ordered!Init
<1> SUFFICES ASSUME Init PROVE OrderInv /\ Ordered!Init
  OBVIOUS
<1>1. /\ server_doc = OpenedDoc
      /\ down = [k \in Clients |-> <<>>] /\ up = [k \in Clients |-> <<>>]
      /\ ack_required = [k \in Clients |-> FALSE]
      /\ seen = [k \in Clients |-> Version0]
  BY DEF Init
<1>2. /\ Len(History) = Version0
      /\ Authors = <<>> \/ Authors = <<0>>
      /\ Len(Authors) = Version0
  <2>1. CASE InitialText = <<>>
    <3>1. History = <<>> /\ Version0 = 0
      BY <1>1, <2>1 DEF History, OpenedDoc, Version0
    <3>2. Authors = <<>>
      BY <3>1, EmptySequence, AuthorsOfHistory DEF AuthorsIn
    <3> QED
      BY <3>1, <3>2, EmptySequence
  <2>2. CASE InitialText # <<>>
    <3>1. PICK op : History = Append(<<>>, op) /\ op.client_id = 0
      BY <1>1, <2>2, OpenedHistory DEF History
    <3>2. IsSequence(<<>>) /\ Len(<<>>) = 0 /\ AuthorsIn(<<>>) = <<>>
      BY EmptySequence DEF AuthorsIn
    <3>3. Authors = Append(<<>>, 0)
      BY <3>1, <3>2, AuthorsOfSequence, AuthorsOfHistory
    <3>4. Len(History) = 1
      BY <3>1, <3>2, AppendedSequence
    <3> QED
      BY <2>2, <3>3, <3>4 DEF Version0
  <2> QED
    BY <2>1, <2>2
<1>3. Version0 \in Nat
  BY DEF Version0
<1>4. ASSUME NEW k \in Clients
      PROVE  Numbers([i \in 0..0 |-> Version0], down[k], seen[k], History)
  BY <1>1, <1>2, <1>3, EmptySequence DEF Numbers
<1>5. RestUnderWay
  BY <1>4 DEF RestUnderWay
<1>6. Stage = [k \in Clients |-> "idle"]
  BY <1>1, StageOfEach DEF StageFrom
<1>7. Ordered!Init
  BY <1>1, <1>2, <1>6 DEF Ordered!Init
<1> QED
  BY <1>5, <1>7, InitControl, InitServerInStep DEF OrderInv

LEMMA NextOrdered ==
  OrderInv /\ [Next]_vars => OrderInv' /\ [Ordered!Next]_Ordered!vars
<1> SUFFICES ASSUME OrderInv, [Next]_vars
             PROVE  OrderInv' /\ [Ordered!Next]_Ordered!vars
  OBVIOUS
<1>1. Control' /\ ServerInStep'
  BY NextKeepsControl, NextServerInStep DEF OrderInv
<1>2. ASSUME UNCHANGED <<Authors, seen, Stage>> PROVE [Ordered!Next]_Ordered!vars
  BY <1>2 DEF Ordered!vars
<1>3. ASSUME NEW c \in Clients, Edit(c)
      PROVE  RestUnderWay' /\ [Ordered!Next]_Ordered!vars
  BY <1>2, <1>3, EditOrdered DEF Ordered!Next
<1>4. ASSUME NEW c \in Clients, ServerStep(c)
      PROVE  RestUnderWay' /\ [Ordered!Next]_Ordered!vars
  BY <1>1, <1>4, ServerStepOrdered DEF Ordered!Next
<1>5. ASSUME NEW c \in Clients, ClientStep(c)
      PROVE  RestUnderWay' /\ [Ordered!Next]_Ordered!vars
  BY <1>2, <1>5, ReceiveErrorOrdered, ReceiveAckOrdered, ReceiveOpOrdered
     DEF ClientStep, ot_client_receive, Ordered!Next
<1>6. ASSUME UNCHANGED vars
      PROVE  RestUnderWay' /\ [Ordered!Next]_Ordered!vars
  <2>1. UNCHANGED <<up, down, ack_required, seen, server_doc>>
    BY <1>6 DEF vars, clientVars
  <2>2. History' = History /\ Authors' = Authors /\ Stage' = Stage
    BY <2>1, AuthorsOfHistoryNext, StageOfEachNext DEF History, AuthorsIn
  <2> QED
    BY <1>2, <2>1, <2>2 DEF OrderInv, RestUnderWay
<1> QED
  BY <1>1, <1>3, <1>4, <1>5, <1>6 DEF Next, OrderInv

\* System implements TotalOrder: what the server broadcasts (server.c) reaches
\* every client once and in the order of the history, and an acknowledgment
\* (client.c) answers the one request its client has made.
THEOREM ServedInOrderHolds == Spec => ServedInOrder
BY InitOrdered, NextOrdered, PTL DEF Spec, ServedInOrder, Ordered!Spec
-----------------------------------------------------------------------------
(***************************************************************************)
(* The third invariant, about texts.  It takes editors that apply          *)
(* operations ot_xform and ot_compose can pass, and to a document nobody   *)
(* has yet one that spans nothing: they need not span the text the editor  *)
(* shows otherwise.  Letters are the characters they write.                *)
(***************************************************************************)
Fits(X) ==
  /\ InitialText \in Seq(X)
  /\ \A c \in Clients, n \in Nat, text \in Seq(X) : \A comps \in Edits(c, n, text) :
       /\ comps \in OperationsOver(X) /\ Passable(comps)
       /\ InitialText = <<>> /\ text = <<>> => BaseLen(comps) = 0

EditorsFit == \E X : Fits(X)
Letters == CHOOSE X : Fits(X)
Fine(op) == CleanOver(Letters, op)

LEMMA EditorsFitLetters == EditorsFit => Fits(Letters)
BY DEF EditorsFit, Letters

\* A document of client or server: made of such operations, from nothing.
MadeDoc(d) ==
  /\ IsDoc(d) /\ d.max_size = 0
  /\ d.composed # NULL
  /\ CleanDoc(Letters, d)
  /\ BaseLen(d.composed.comps) = 0

DocOrNone(d) == d = NULL \/ MadeDoc(d)

LEMMA MadeDocText ==
  ASSUME NEW d, MadeDoc(d)
  PROVE  /\ d # NULL
         /\ TextOf(d) = ApplyTo(d.composed.comps, <<>>)
         /\ TextOf(d) \in Seq(Letters)
         /\ Len(TextOf(d)) = OutLen(d.composed.comps)
<1> DEFINE p == d.composed.comps
           none == <<>>
<1>1. d # NULL /\ d.composed # NULL
  BY DEF MadeDoc, IsDoc, NULL
<1>2. p \in OperationsOver(Letters) /\ BaseLen(p) = 0
  BY DEF MadeDoc, CleanDoc, CleanOver
<1>3. TextOf(d) = ot_snapshot(p)
  BY <1>1 DEF TextOf, Text
<1>4. none \in Seq(Letters) /\ Len(none) = 0
  OBVIOUS
<1> HIDE DEF p
<1>5. TextOf(d) = ApplyTo(p, none)
  BY <1>2, <1>3, SnapshotIsMade
<1> HIDE DEF none
<1>6. ApplyTo(p, none) \in Seq(Letters)
  BY <1>2, <1>4, MadeIsText
<1>7. Len(ApplyTo(p, none)) = OutLen(p)
  <2>1. BaseLen(p) <= Len(none)
    BY <1>2, <1>4
  <2> QED
    BY <1>2, <1>4, <2>1, MadeLength
<1> QED
  BY <1>1, <1>5, <1>6, <1>7 DEF p, none

LEMMA TextOfAny ==
  ASSUME NEW d, DocOrNone(d)
  PROVE  TextOf(d) \in Seq(Letters) /\ Len(TextOf(d)) \in Nat
<1>1. CASE d = NULL
  <2>1. TextOf(d) = <<>>
    BY <1>1 DEF TextOf
  <2> QED
    BY <2>1
<1>2. CASE MadeDoc(d)
  <2>1. TextOf(d) \in Seq(Letters)
    BY <1>2, MadeDocText
  <2> HIDE DEF TextOf
  <2> QED
    BY <2>1
<1> QED
  BY <1>1, <1>2 DEF DocOrNone

(***************************************************************************)
(* What is appended makes a document of the same kind.                     *)
(***************************************************************************)
LEMMA ExtendedIsMade ==
  ASSUME NEW d, IsDoc(d), d.max_size = 0,
         d.history # <<>> => MadeDoc(d),
         NEW head, Fine(head),
         NEW composed, composed # NULL, Fine(composed), BaseLen(composed.comps) = 0,
         DOMAIN composed = {"client_id", "parent", "hash", "comps"}
  PROVE  /\ MadeDoc(Extended(d, head, composed))
         /\ Extended(d, head, composed).composed.comps = composed.comps
<1> DEFINE e == Extended(d, head, composed)
           latest == [composed EXCEPT !.hash = head.hash]
           h == d.history
           g == Append(h, head)
<1>1. HashInStep(e)
  <2>1. "hash" \in DOMAIN composed
    OBVIOUS
  <2> QED
    BY <2>1, ExtendedInStep
<1>2. latest.comps = composed.comps /\ latest # NULL
  BY DEF NULL
<1> HIDE DEF latest
<1>3. e.composed = latest /\ e.history = g /\ e.max_size = 0
  <2>1. e = [d EXCEPT !.history = g, !.composed = latest, !.size = ot_size(composed.comps)]
    BY DEF Extended, latest
  <2>2. DOMAIN d = {"history", "composed", "size", "max_size"}
    BY DEF IsDoc
  <2> HIDE DEF g, e
  <2> QED
    BY <2>1, <2>2
<1> HIDE DEF e
<1>4. /\ IsSequence(h) /\ IsSequence(g) /\ Len(h) \in Nat /\ Len(g) = Len(h) + 1
      /\ DOMAIN g = 1..(Len(h) + 1) /\ \A i \in 1..Len(h) : g[i] = h[i]
      /\ g[Len(h) + 1] = head
  <2>1. IsSequence(h)
    BY DEF IsDoc
  <2> QED
    BY <2>1, AppendedSequence
<1>5. ASSUME NEW i \in 1..Len(h) PROVE Fine(h[i])
  <2>1. h # <<>>
    <3>1. Len(h) # 0
      BY <1>4, <1>5
    <3> QED
      BY <3>1, EmptySequence
  <2> QED
    BY <2>1 DEF MadeDoc, CleanDoc, Fine
<1> HIDE DEF h, g
<1>6. \A i \in 1..Len(g) : Fine(g[i])
  <2>1. \A i \in 1..Len(g) : i \in 1..Len(h) \/ i = Len(h) + 1
    BY <1>4
  <2> QED
    BY <1>4, <1>5, <2>1
<1>7. g \in Seq(ToSet(g))
  BY <1>4 DEF IsSequence, ToSet
<1>8. CleanDoc(Letters, e)
  BY <1>1, <1>2, <1>3, <1>6, <1>7 DEF CleanDoc, HashInStep, Fine, CleanOver
<1>9. MadeDoc(e)
  BY <1>1, <1>2, <1>3, <1>8 DEF MadeDoc, HashInStep
<1> QED
  BY <1>2, <1>3, <1>9 DEF e

\* Whether the operation spans the text alone decides.
LEMMA AppendToMade ==
  ASSUME NEW d, MadeDoc(d), NEW op, Fine(op),
         NEW r, r = ot_doc_append(d, op)
  PROVE  IF BaseLen(op.comps) = Len(TextOf(d))
         THEN /\ r.err = "none" /\ MadeDoc(r.doc)
              /\ TextOf(r.doc) = ApplyTo(op.comps, TextOf(d))
              /\ Len(TextOf(r.doc)) = OutLen(op.comps)
              /\ r.op.comps = op.comps /\ r.op # NULL
         ELSE r.err # "none" /\ r.doc = d
<1> DEFINE composed == ot_compose(d.composed, op)
           head == NewHead(d, op, composed)
           p == d.composed.comps
           none == <<>>
<1>1. /\ ~Exceeds(d, op) /\ d.history # <<>> /\ IsDoc(d) /\ d.max_size = 0
      /\ Fine(d.composed) /\ BaseLen(p) = 0 /\ p \in OperationsOver(Letters)
  BY DEF MadeDoc, Exceeds, CleanDoc, Fine, CleanOver
<1>2. OutLen(p) = Len(TextOf(d)) /\ TextOf(d) = ApplyTo(p, none)
  BY MadeDocText
<1>3. r = IF composed = NULL THEN Refused(d, "append_failed") ELSE Moved(d, head, composed)
  BY <1>1 DEF ot_doc_append, AppendComposed, Composed
<1>4. /\ OutLen(p) # BaseLen(op.comps) => composed = NULL
      /\ OutLen(p) = BaseLen(op.comps) =>
           /\ composed # NULL /\ Fine(composed)
           /\ InSequence(Letters, p, op.comps, composed.comps)
  BY <1>1, ComposeOfClean DEF Fine
<1>5. composed # NULL => DOMAIN composed = {"client_id", "parent", "hash", "comps"}
  BY DEF ot_compose, Composition, Op
<1>6. head.comps = op.comps /\ head # NULL
  <2> HIDE DEF composed
  <2> QED
    BY OpIsNotNull DEF NewHead, Op
<1> HIDE DEF composed, head, p
<1>7. CASE BaseLen(op.comps) = Len(TextOf(d))
  <2>1. /\ composed # NULL /\ Fine(composed)
        /\ InSequence(Letters, p, op.comps, composed.comps)
    BY <1>2, <1>4, <1>7
  <2>2. BaseLen(composed.comps) = 0 /\ OutLen(composed.comps) = OutLen(op.comps)
    BY <1>1, <2>1 DEF InSequence
  <2>3. Fine(head)
    BY <1>6 DEF Fine, CleanOver
  <2>4. /\ r.err = "none" /\ r.doc = Extended(d, head, composed) /\ r.op = head
    BY <1>3, <2>1 DEF Moved
  <2>5. /\ MadeDoc(r.doc) /\ r.doc.composed.comps = composed.comps
    BY <1>1, <1>5, <2>1, <2>2, <2>3, <2>4, ExtendedIsMade
  <2>6. /\ TextOf(r.doc) = ApplyTo(composed.comps, none)
        /\ Len(TextOf(r.doc)) = OutLen(op.comps)
    BY <2>2, <2>5, MadeDocText
  <2>7. none \in Seq(Letters) /\ Len(none) = 0
    OBVIOUS
  <2> HIDE DEF none
  <2>8. ApplyTo(composed.comps, none) = ApplyTo(op.comps, ApplyTo(p, none))
    BY <1>1, <2>1, <2>7 DEF InSequence
  <2> QED
    BY <1>2, <1>6, <1>7, <2>4, <2>5, <2>6, <2>8
<1>8. CASE BaseLen(op.comps) # Len(TextOf(d))
  <2>1. r = Refused(d, "append_failed")
    BY <1>2, <1>3, <1>4, <1>8
  <2>2. r.err # "none" /\ r.doc = d
    BY <2>1 DEF Refused
  <2> QED
    BY <1>8, <2>2
<1> QED
  BY <1>7, <1>8

LEMMA AppendToNew ==
  ASSUME NEW op, Fine(op), BaseLen(op.comps) = 0,
         NEW r, r = ot_doc_append(ot_new_doc(0), op)
  PROVE  /\ r.err = "none" /\ MadeDoc(r.doc)
         /\ TextOf(r.doc) = ApplyTo(op.comps, <<>>)
         /\ Len(TextOf(r.doc)) = OutLen(op.comps)
         /\ r.op.comps = op.comps /\ r.op # NULL
<1> DEFINE d == ot_new_doc(0)
           composed == Op(op.client_id, ZeroHash, ZeroHash, op.comps)
           head == NewHead(d, op, composed)
<1>1. IsDoc(d) /\ d.history = <<>> /\ d.max_size = 0
  BY NewDoc
<1>2. r = Moved(d, head, composed)
  <2>1. composed # NULL
    BY OpIsNotNull
  <2> QED
    BY <1>1, <2>1 DEF ot_doc_append, AppendComposed, Exceeds, Composed
<1>3. /\ composed # NULL /\ composed.comps = op.comps
      /\ DOMAIN composed = {"client_id", "parent", "hash", "comps"}
  <2>1. composed # NULL
    BY OpIsNotNull
  <2> QED
    BY <2>1 DEF Op
<1>4. head.comps = op.comps /\ head # NULL
  <2> HIDE DEF composed
  <2> QED
    BY OpIsNotNull DEF NewHead, Op
<1>5. r.err = "none" /\ r.doc = Extended(d, head, composed) /\ r.op = head
  BY <1>2 DEF Moved
<1> HIDE DEF composed, head, d
<1>6. Fine(composed) /\ Fine(head) /\ BaseLen(composed.comps) = 0
  BY <1>3, <1>4 DEF Fine, CleanOver
<1>7. MadeDoc(r.doc) /\ r.doc.composed.comps = composed.comps
  BY <1>1, <1>3, <1>5, <1>6, ExtendedIsMade
<1> QED
  BY <1>3, <1>4, <1>5, <1>7, MadeDocText

\* The two cases in one: an operation on a document, or on none.
CanOpen(d, op) == d = NULL => BaseLen(op.comps) = 0

LEMMA AppendToAny ==
  ASSUME NEW d, DocOrNone(d), NEW op, Fine(op), CanOpen(d, op),
         NEW r, r = ot_doc_append(Opened(d), op)
  PROVE  IF BaseLen(op.comps) = Len(TextOf(d))
         THEN /\ r.err = "none" /\ MadeDoc(r.doc)
              /\ TextOf(r.doc) = ApplyTo(op.comps, TextOf(d))
              /\ Len(TextOf(r.doc)) = OutLen(op.comps)
              /\ r.op.comps = op.comps /\ r.op # NULL
         ELSE r.err # "none" /\ r.doc = d /\ MadeDoc(d)
<1>1. CASE d = NULL
  <2>1. TextOf(d) = <<>> /\ Len(<<>>) = 0 /\ Opened(d) = ot_new_doc(0)
    BY <1>1 DEF TextOf, Opened
  <2> QED
    BY <1>1, <2>1, AppendToNew DEF CanOpen
<1>2. CASE MadeDoc(d)
  <2>1. Opened(d) = d
    BY <1>2, MadeDocText DEF Opened
  <2> QED
    BY <1>2, <2>1, AppendToMade
<1> QED
  BY <1>1, <1>2 DEF DocOrNone

(***************************************************************************)
(* The invariant, one client at a time: its document, the queues, what it  *)
(* holds back, BufferFollows, and what is to become of a document that is  *)
(* missing.  A client without one waits for nothing, and what it receives  *)
(* first spans nothing; as long as the server has none it has sent nothing *)
(* and what it receives spans nothing.                                     *)
(***************************************************************************)
FineQueue(q) == \A i \in DOMAIN q : IsError(q[i]) \/ Fine(q[i])

FineHeld(k) ==
  /\ anticipated[k] # NULL => Fine(anticipated[k])
  /\ buffer[k] # NULL => Fine(buffer[k])

Follows(k) ==
  /\ buffer[k] # NULL =>
       /\ BaseLen(buffer[k].comps) = OutLen(anticipated[k].comps)
       /\ OutLen(buffer[k].comps) = Len(TextOf(doc[k]))
  /\ anticipated[k] # NULL /\ buffer[k] = NULL =>
       OutLen(anticipated[k].comps) = Len(TextOf(doc[k]))

OpensWith(q) == q # <<>> /\ ~IsError(Head(q)) /\ BaseLen(Head(q).comps) = 0

Unopened(k) ==
  doc[k] = NULL => /\ InitialText = <<>> /\ ~ack_required[k]
                   /\ server_doc # NULL => OpensWith(down[k])

Unserved(k) ==
  server_doc = NULL => /\ down[k] = <<>>
                       /\ \A i \in DOMAIN up[k] : BaseLen(up[k][i].comps) = 0
                       /\ ack_required[k] \/ doc[k] = NULL

EachText(k) ==
  /\ DocOrNone(doc[k])
  /\ FineQueue(up[k]) /\ FineQueue(down[k])
  /\ FineHeld(k) /\ Follows(k)
  /\ Unopened(k) /\ Unserved(k)

TextInv == DocOrNone(server_doc) /\ \A k \in Clients : EachText(k)

LEMMA TextInvFollows == TextInv => BufferFollows
BY DEF TextInv, EachText, Follows, BufferFollows

\* The part of the state that EachText(k) speaks of.
TextStateOf(k) == <<StateOf(k), doc[k], server_doc>>

LEMMA EachTextUnchanged ==
  ASSUME NEW k, EachText(k), UNCHANGED TextStateOf(k)
  PROVE  EachText(k)'
BY DEF EachText, TextStateOf, StateOf, FineHeld, Follows, Unopened, Unserved

LEMMA FineTail ==
  ASSUME NEW q, IsSequence(q), q # <<>>, FineQueue(q)
  PROVE  /\ FineQueue(Tail(q))
         /\ IsError(Head(q)) \/ Fine(Head(q))
<1>1. /\ Len(q) \in Nat \ {0} /\ DOMAIN q = 1..Len(q)
      /\ DOMAIN Tail(q) = 1..(Len(q) - 1)
      /\ \A i \in 1..(Len(q) - 1) : Tail(q)[i] = q[i + 1]
      /\ Head(q) = q[1]
  BY TailOfSequence
<1>2. 1 \in 1..Len(q) /\ \A i \in 1..(Len(q) - 1) : i + 1 \in 1..Len(q)
  BY <1>1
<1> QED
  BY <1>1, <1>2 DEF FineQueue

LEMMA FineAppend ==
  ASSUME NEW q, IsSequence(q), FineQueue(q), NEW msg, IsError(msg) \/ Fine(msg)
  PROVE  /\ FineQueue(Append(q, msg)) /\ Append(q, msg) # <<>>
         /\ q # <<>> => Head(Append(q, msg)) = Head(q)
         /\ q = <<>> => Head(Append(q, msg)) = msg
<1> DEFINE a == Append(q, msg)
<1>1. /\ IsSequence(a) /\ Len(a) = Len(q) + 1 /\ Len(q) \in Nat
      /\ DOMAIN q = 1..Len(q) /\ DOMAIN a = 1..(Len(q) + 1)
      /\ \A i \in 1..Len(q) : a[i] = q[i]
      /\ a[Len(q) + 1] = msg
  BY AppendedSequence
<1> HIDE DEF a
<1>2. \A i \in 1..(Len(q) + 1) : i \in 1..Len(q) \/ i = Len(q) + 1
  BY <1>1
<1>3. FineQueue(a)
  BY <1>1, <1>2 DEF FineQueue
<1>4. a # <<>>
  <2>1. Len(a) # 0
    BY <1>1
  <2> QED
    BY <2>1, EmptySequence
<1>5. Head(a) = a[1]
  BY <1>1, <1>4, TailOfSequence
<1>6. q # <<>> => Head(a) = Head(q)
  <2> SUFFICES ASSUME q # <<>> PROVE Head(a) = Head(q)
    OBVIOUS
  <2>1. Head(q) = q[1] /\ Len(q) \in Nat \ {0}
    BY TailOfSequence
  <2>2. 1 \in 1..Len(q)
    BY <2>1
  <2> QED
    BY <1>1, <1>5, <2>1, <2>2
<1>7. q = <<>> => Head(a) = msg
  BY <1>1, <1>5, EmptySequence
<1> QED
  BY <1>3, <1>4, <1>6, <1>7 DEF a

\* The document everybody opened at the start.
LEMMA OpenedDocText ==
  ASSUME EditorsFit
  PROVE  DocOrNone(OpenedDoc) /\ TextOf(OpenedDoc) = InitialText
<1>1. InitialText \in Seq(Letters)
  BY EditorsFitLetters DEF Fits
<1>2. CASE InitialText = <<>>
  BY <1>2 DEF OpenedDoc, DocOrNone, TextOf
<1>3. CASE InitialText # <<>>
  <2> DEFINE none == <<>>
             comps == <<InsertComp(InitialText)>>
             op == Op(0, ZeroHash, ZeroHash, comps)
             r == ot_doc_append(ot_new_doc(0), op)
             t == InitialText
  <2>1. comps = Append(none, InsertComp(t)) /\ Len(comps) = 1 /\ comps[1] = InsertComp(t)
    OBVIOUS
  <2>2. none \in OperationsOver(Letters) /\ none \in Seq(Letters)
    BY EmptyOperation
  <2>3. InsertComp(t) \in ComponentsOver(Letters)
    BY <1>1, MadeComponents
  <2>4. comps \in OperationsOver(Letters)
    BY <2>3 DEF OperationsOver
  <2>5. Passable(comps)
    <3>1. Len(t) # 0
      BY <1>1, <1>3
    <3>2. ~IsEmpty(comps[1]) /\ comps[1].type \notin Stubs
      BY <2>1, <3>1 DEF IsEmpty, ot_comp_size, InsertComp, Stubs
    <3> HIDE DEF comps
    <3>3. \A i \in 1..Len(comps) : i = 1
      BY <2>1
    <3> QED
      BY <3>2, <3>3 DEF Passable
  <2>6. op.comps = comps
    BY DEF Op
  <2>7. OpenedDoc = r.doc
    BY <1>3 DEF OpenedDoc
  <2> HIDE DEF comps, none, op, r, t
  <2>8. BaseLen(comps) = BaseLen(none)
    BY <1>1, <2>1, <2>2, LengthsWithComponent DEF t
  <2>9. BaseLen(none) = 0
    BY LengthsOfEmpty DEF none
  <2>10. Fine(op) /\ BaseLen(op.comps) = 0
    BY <2>4, <2>5, <2>6, <2>8, <2>9 DEF Fine, CleanOver
  <2>11. MadeDoc(r.doc) /\ TextOf(r.doc) = ApplyTo(comps, none)
    BY <2>6, <2>10, AppendToNew DEF r, none
  <2>12. ApplyTo(comps, none) = ApplyTo(none, none) \o t
    BY <1>1, <2>1, <2>2, MadeWithInsert DEF t
  <2>13. ApplyTo(none, none) = none
    BY <2>2, MadeOfEmpty DEF none
  <2>14. none \o t = t
    BY <1>1 DEF none, t
  <2> QED
    BY <2>7, <2>11, <2>12, <2>13, <2>14 DEF DocOrNone, t
<1> QED
  BY <1>2, <1>3

LEMMA InitText ==
  ASSUME EditorsFit, Init
  PROVE  TextInv
<1>1. DocOrNone(OpenedDoc)
  BY OpenedDocText
<1>2. OpenedDoc = NULL => InitialText = <<>>
  <2> SUFFICES ASSUME InitialText # <<>> PROVE OpenedDoc # NULL
    OBVIOUS
  <2>1. TextOf(OpenedDoc) # <<>>
    BY OpenedDocText
  <2> QED
    BY <2>1 DEF TextOf
<1>3. server_doc = OpenedDoc
  BY DEF Init
<1>4. ASSUME NEW k \in Clients PROVE EachText(k)
  <2>1. /\ up[k] = <<>> /\ down[k] = <<>> /\ doc[k] = OpenedDoc
        /\ ack_required[k] = FALSE /\ anticipated[k] = NULL /\ buffer[k] = NULL
    BY DEF Init
  <2>2. FineQueue(up[k]) /\ FineQueue(down[k])
    BY <2>1 DEF FineQueue
  <2>3. FineHeld(k) /\ Follows(k)
    BY <2>1 DEF FineHeld, Follows
  <2>4. Unopened(k)
    BY <1>2, <1>3, <2>1 DEF Unopened
  <2>5. Unserved(k)
    BY <1>3, <2>1 DEF Unserved
  <2> QED
    BY <1>1, <2>1, <2>2, <2>3, <2>4, <2>5 DEF EachText
<1> QED
  BY <1>1, <1>3, <1>4 DEF TextInv

(***************************************************************************)
(* The editor applies an operation: it is refused by the document or it    *)
(* follows on what the client holds back.                                  *)
(***************************************************************************)
\* What is sent is what was held back, with another parent.
\* A copy of an operation the loops can pass is one, and does the same.
SameWork(op, made) ==
  /\ BaseLen(made.comps) = BaseLen(op.comps) /\ OutLen(made.comps) = OutLen(op.comps)
  /\ \A text \in Seq(Letters) : ApplyTo(made.comps, text) = ApplyTo(op.comps, text)
  /\ Plain(op.comps) => made.comps = op.comps

LEMMA CopyIsFine ==
  ASSUME NEW op, Fine(op)
  PROVE  Fine(ot_dup_op(op)) /\ ot_dup_op(op) # NULL /\ SameWork(op, ot_dup_op(op))
<1> DEFINE copy == ot_dup_op(op)
<1>1. /\ CleanOver(Letters, copy) /\ copy # NULL
      /\ Alike(Letters, copy.comps, op.comps)
      /\ WellMade(op.comps) => copy.comps = op.comps
  BY CopyOfClean DEF Fine
<1> HIDE DEF copy
<1> QED
  BY <1>1 DEF Fine, SameWork, Alike, Plain, copy

LEMMA SentIsFine ==
  ASSUME Control, NEW c \in Clients, NEW op, Fine(op), NEW parent, NEW version,
         FineQueue(up[c]), send_buffer(c, op, parent, version)
  PROVE  /\ FineQueue(up'[c]) /\ Fine(anticipated'[c]) /\ anticipated'[c] # NULL
         /\ SameWork(op, anticipated'[c]) /\ buffer'[c] = NULL
         /\ ack_required'[c] = TRUE
         /\ \A k \in Clients \ {c} : /\ up'[k] = up[k] /\ anticipated'[k] = anticipated[k]
                                     /\ buffer'[k] = buffer[k]
                                     /\ ack_required'[k] = ack_required[k]
         /\ up[c] = <<>> => \A i \in DOMAIN up'[c] : up'[c][i].comps = op.comps
<1> DEFINE msg == Op(op.client_id, parent, op.hash, op.comps)
<1>1. Shape /\ IsSequence(up[c])
  BY ControlByClient DEF EachClient, Each, UpTyped
<1>2. msg # NULL /\ msg.comps = op.comps
  <2>1. msg # NULL
    BY OpIsNotNull
  <2> QED
    BY <2>1 DEF Op
<1>3. /\ up' = [up EXCEPT ![c] = Append(up[c], msg)]
      /\ anticipated' = [anticipated EXCEPT ![c] = ot_dup_op(msg)]
      /\ buffer' = [buffer EXCEPT ![c] = NULL]
      /\ ack_required' = [ack_required EXCEPT ![c] = TRUE]
  BY DEF send_buffer
<1> HIDE DEF msg
<1>4. /\ up'[c] = Append(up[c], msg) /\ anticipated'[c] = ot_dup_op(msg)
      /\ buffer'[c] = NULL /\ ack_required'[c] = TRUE
      /\ \A k \in Clients \ {c} : /\ up'[k] = up[k] /\ anticipated'[k] = anticipated[k]
                                  /\ buffer'[k] = buffer[k]
                                  /\ ack_required'[k] = ack_required[k]
  BY <1>1, <1>3 DEF Shape
<1>5. Fine(msg)
  BY <1>2 DEF Fine, CleanOver
<1>6. FineQueue(up'[c])
  BY <1>1, <1>4, <1>5, FineAppend
<1>7. up[c] = <<>> => \A i \in DOMAIN up'[c] : up'[c][i].comps = op.comps
  <2> SUFFICES ASSUME up[c] = <<>> PROVE \A i \in DOMAIN up'[c] : up'[c][i].comps = op.comps
    OBVIOUS
  <2>1. up'[c] = <<msg>>
    BY <1>4
  <2>2. DOMAIN <<msg>> = 1..1 /\ <<msg>>[1] = msg
    OBVIOUS
  <2>3. \A i \in 1..1 : i = 1
    OBVIOUS
  <2> QED
    BY <1>2, <2>1, <2>2, <2>3
<1>8. Fine(anticipated'[c]) /\ anticipated'[c] # NULL /\ SameWork(msg, anticipated'[c])
  BY <1>4, <1>5, CopyIsFine
<1>9. SameWork(op, anticipated'[c])
  BY <1>2, <1>8 DEF SameWork
<1> QED
  BY <1>4, <1>6, <1>7, <1>8, <1>9

LEMMA ApplyKeepsText ==
  ASSUME Control, TextInv, NEW c \in Clients, NEW comps,
         Fine(Op(c, ZeroHash, ZeroHash, comps)), CanOpen(doc[c], Op(c, ZeroHash, ZeroHash, comps)),
         ot_client_apply(c, comps), UNCHANGED server_doc
  PROVE  /\ TextInv'
         /\ \A k \in Clients \ {c} : doc'[k] = doc[k]
         /\ doc[c] # NULL => doc'[c] # NULL
         /\ IF BaseLen(comps) = Len(TextOf(doc[c]))
            THEN TextOf(doc'[c]) = ApplyTo(comps, TextOf(doc[c]))
            ELSE doc'[c] = doc[c]
<1> DEFINE op == Op(c, ZeroHash, ZeroHash, comps)
           d == doc[c]
<1>1. /\ Shape /\ EachText(c) /\ Each(c) /\ \A k \in Clients : EachText(k)
  BY ControlByClient DEF EachClient, TextInv
<1>2. PICK r, buffered :
        /\ r = ot_doc_append(Opened(doc[c]), Op(c, ZeroHash, ZeroHash, comps))
        /\ buffered = Buffered(c, r)
        /\ doc' = [doc EXCEPT ![c] = r.doc]
        /\ UNCHANGED <<down, seen>>
        /\ \/ /\ buffered = NULL
              /\ UNCHANGED <<up, ack_required, anticipated, buffer, sentAt>>
           \/ /\ buffered # NULL
              /\ ack_required[c]
              /\ buffer' = [buffer EXCEPT ![c] = buffered]
              /\ UNCHANGED <<up, ack_required, anticipated, sentAt>>
           \/ /\ buffered # NULL
              /\ ~ack_required[c]
              /\ send_buffer(c, buffered, buffered.parent, seen[c])
  BY DEF ot_client_apply
<1>3. op.comps = comps
  BY DEF Op
<1>4. Fine(op) /\ CanOpen(d, op) /\ r = ot_doc_append(Opened(d), op)
  BY <1>2
<1> HIDE DEF op
<1>5. /\ doc'[c] = r.doc /\ \A k \in Clients \ {c} : doc'[k] = doc[k]
      /\ down' = down
  BY <1>1, <1>2 DEF Shape
<1>6. DocOrNone(d)
  BY <1>1 DEF EachText
<1>7. ASSUME NEW k \in Clients \ {c}, UNCHANGED StateOf(k)
      PROVE  EachText(k)'
  BY <1>1, <1>5, <1>7, EachTextUnchanged DEF TextStateOf
<1>8. CASE BaseLen(comps) # Len(TextOf(d))
  <2>1. r.err # "none" /\ r.doc = d /\ MadeDoc(d)
    BY <1>3, <1>4, <1>6, <1>8, AppendToAny
  <2>2. buffered = NULL
    BY <1>2, <2>1 DEF Buffered
  <2>3. UNCHANGED <<up, ack_required, anticipated, buffer, sentAt>>
    BY <1>2, <2>2
  <2>4. doc'[c] = doc[c]
    BY <1>5, <2>1
  <2>5. \A k \in Clients : UNCHANGED TextStateOf(k)
    BY <1>5, <2>3, <2>4 DEF TextStateOf, StateOf
  <2>6. TextInv'
    BY <1>1, <2>5, EachTextUnchanged DEF TextInv
  <2> QED
    BY <1>5, <1>8, <2>4, <2>6
<1>9. CASE BaseLen(comps) = Len(TextOf(d))
  <2>1. /\ r.err = "none" /\ MadeDoc(r.doc)
        /\ TextOf(r.doc) = ApplyTo(comps, TextOf(d))
        /\ Len(TextOf(r.doc)) = OutLen(comps)
        /\ r.op.comps = comps /\ r.op # NULL
    BY <1>3, <1>4, <1>6, <1>9, AppendToAny
  <2>2. Fine(r.op)
    BY <1>3, <1>4, <2>1 DEF Fine, CleanOver
  <2> DEFINE copy == ot_dup_op(r.op)
  <2>8. /\ Fine(copy) /\ copy # NULL
        /\ BaseLen(copy.comps) = BaseLen(comps) /\ OutLen(copy.comps) = OutLen(comps)
    BY <2>1, <2>2, CopyIsFine DEF SameWork
  <2> HIDE DEF copy
  <2>3. doc'[c] # NULL /\ DocOrNone(doc'[c]) /\ TextOf(doc'[c]) = TextOf(r.doc)
    BY <1>5, <2>1, MadeDocText DEF DocOrNone
  <2>4. Unopened(c)'
    BY <2>3 DEF Unopened
  <2>5. FineQueue(down'[c])
    BY <1>1, <1>5 DEF EachText
  <2>6. CASE buffer[c] = NULL
    <3>1. buffered = copy
      BY <1>2, <2>1, <2>6 DEF Buffered, copy
    <3>2. CASE ack_required[c]
      <4>1. /\ buffer' = [buffer EXCEPT ![c] = copy]
            /\ UNCHANGED <<up, ack_required, anticipated, sentAt>>
        BY <1>2, <2>8, <3>1, <3>2
      <4>2. buffer'[c] = copy /\ \A k \in Clients \ {c} : buffer'[k] = buffer[k]
        BY <1>1, <4>1 DEF Shape
      <4>3. anticipated[c] # NULL
        BY <1>1, <3>2 DEF Each, Discipline
      <4>4. OutLen(anticipated[c].comps) = Len(TextOf(d))
        BY <1>1, <2>6, <4>3 DEF EachText, Follows
      <4>5. Follows(c)'
        BY <1>9, <2>1, <2>3, <2>8, <4>1, <4>2, <4>4 DEF Follows
      <4>6. FineHeld(c)' /\ FineQueue(up[c])' /\ Unserved(c)'
        BY <1>1, <1>5, <2>8, <3>2, <4>1, <4>2 DEF EachText, FineHeld, Unserved
      <4>7. EachText(c)'
        BY <2>3, <2>4, <2>5, <4>5, <4>6 DEF EachText
      <4>8. ASSUME NEW k \in Clients \ {c} PROVE EachText(k)'
        BY <1>5, <1>7, <4>1, <4>2 DEF StateOf
      <4> QED
        BY <1>5, <1>9, <2>1, <2>3, <4>7, <4>8 DEF TextInv
    <3>3. CASE ~ack_required[c]
      <4>1. send_buffer(c, copy, copy.parent, seen[c])
        BY <1>2, <2>8, <3>1, <3>3
      <4>2. up[c] = <<>>
        BY <1>1, <3>3 DEF Each, Flight
      <4>3. /\ FineQueue(up'[c]) /\ Fine(anticipated'[c]) /\ anticipated'[c] # NULL
            /\ OutLen(anticipated'[c].comps) = OutLen(comps) /\ buffer'[c] = NULL
            /\ ack_required'[c] = TRUE
            /\ \A k \in Clients \ {c} : /\ up'[k] = up[k] /\ anticipated'[k] = anticipated[k]
                                        /\ buffer'[k] = buffer[k]
                                        /\ ack_required'[k] = ack_required[k]
            /\ \A i \in DOMAIN up'[c] : up'[c][i].comps = copy.comps
        <5>1. FineQueue(up[c])
          BY <1>1 DEF EachText
        <5> QED
          BY <2>8, <4>1, <4>2, <5>1, SentIsFine DEF SameWork
      <4>4. Follows(c)' /\ FineHeld(c)'
        BY <2>1, <2>3, <4>3 DEF Follows, FineHeld
      <4>5. Unserved(c)'
        <5> SUFFICES ASSUME server_doc = NULL
                     PROVE  /\ down'[c] = <<>>
                            /\ \A i \in DOMAIN up'[c] : BaseLen(up'[c][i].comps) = 0
                            /\ ack_required'[c]
          BY DEF Unserved
        <5>1. down[c] = <<>> /\ doc[c] = NULL
          BY <1>1, <3>3 DEF EachText, Unserved
        <5>2. BaseLen(comps) = 0
          BY <1>3, <1>4, <5>1 DEF CanOpen
        <5> QED
          BY <1>5, <2>8, <4>3, <5>1, <5>2
      <4>6. EachText(c)'
        BY <2>3, <2>4, <2>5, <4>3, <4>4, <4>5 DEF EachText
      <4>7. ASSUME NEW k \in Clients \ {c} PROVE EachText(k)'
        BY <1>5, <1>7, <4>3 DEF StateOf
      <4> QED
        BY <1>5, <1>9, <2>1, <2>3, <4>6, <4>7 DEF TextInv
    <3> QED
      BY <3>2, <3>3
  <2>7. CASE buffer[c] # NULL
    <3>1. ack_required[c] /\ anticipated[c] # NULL
      BY <1>1, <2>7 DEF Each, Discipline
    <3>2. /\ BaseLen(buffer[c].comps) = OutLen(anticipated[c].comps)
          /\ OutLen(buffer[c].comps) = Len(TextOf(d)) /\ Fine(buffer[c])
      BY <1>1, <2>7 DEF EachText, Follows, FineHeld
    <3> DEFINE b == ot_compose(buffer[c], r.op)
    <3>3. buffered = b
      BY <1>2, <2>1, <2>7 DEF Buffered
    <3>4. /\ b # NULL /\ Fine(b)
          /\ InSequence(Letters, buffer[c].comps, r.op.comps, b.comps)
      <4>1. OutLen(buffer[c].comps) = BaseLen(r.op.comps)
        BY <1>9, <2>1, <3>2
      <4>2. CleanOver(Letters, buffer[c]) /\ CleanOver(Letters, r.op)
        BY <2>2, <3>2 DEF Fine
      <4> QED
        BY <4>1, <4>2, ComposeOfClean DEF Fine
    <3> HIDE DEF b
    <3>5. BaseLen(b.comps) = BaseLen(buffer[c].comps) /\ OutLen(b.comps) = OutLen(comps)
      BY <2>1, <3>4 DEF InSequence
    <3>6. /\ buffer' = [buffer EXCEPT ![c] = b]
          /\ UNCHANGED <<up, ack_required, anticipated, sentAt>>
      BY <1>2, <3>1, <3>3, <3>4
    <3>7. buffer'[c] = b /\ \A k \in Clients \ {c} : buffer'[k] = buffer[k]
      BY <1>1, <3>6 DEF Shape
    <3>8. Follows(c)'
      BY <2>1, <2>3, <3>2, <3>4, <3>5, <3>6, <3>7 DEF Follows
    <3>9. FineHeld(c)' /\ FineQueue(up[c])' /\ Unserved(c)'
      BY <1>1, <1>5, <3>1, <3>4, <3>6, <3>7 DEF EachText, FineHeld, Unserved
    <3>10. EachText(c)'
      BY <2>3, <2>4, <2>5, <3>8, <3>9 DEF EachText
    <3>11. ASSUME NEW k \in Clients \ {c} PROVE EachText(k)'
      BY <1>5, <1>7, <3>6, <3>7 DEF StateOf
    <3> QED
      BY <1>5, <1>9, <2>1, <2>3, <3>10, <3>11 DEF TextInv
  <2> QED
    BY <2>6, <2>7
<1> QED
  BY <1>8, <1>9

(***************************************************************************)
(* The server: it appends what can be passed or nothing, and what it       *)
(* appended is what everybody gets.                                        *)
(***************************************************************************)
LEMMA XformIsFine ==
  ASSUME NEW d, MadeDoc(d), NEW op, Fine(op), ~can_append(d, op), xform(d, op) # NULL
  PROVE  Fine(xform(d, op))
<1> DEFINE since == ot_doc_compose_after(d, op.parent)
<1>1. since # NULL /\ xform(d, op) = ot_xform(since, op)[2]
  BY DEF xform, XformAfter
<1>2. CleanDoc(Letters, d) /\ op.parent # d.composed.hash
  BY DEF MadeDoc, CleanDoc, can_append
<1>3. CleanOver(Letters, since)
  BY <1>1, <1>2, SinceIsClean
<1> HIDE DEF since
<1>4. CleanOver(Letters, op)
  BY DEF Fine
<1>5. BaseLen(since.comps) = BaseLen(op.comps)
  <2> SUFFICES ASSUME BaseLen(since.comps) # BaseLen(op.comps) PROVE FALSE
    OBVIOUS
  <2>1. ot_xform(since, op) = <<NULL, NULL>>
    BY <1>3, <1>4, XformOfClean
  <2> QED
    BY <1>1, <2>1
<1>6. PICK p1, p2 : ot_xform(since, op) = <<p1, p2>> /\ CleanOver(Letters, p2)
  BY <1>3, <1>4, <1>5, XformOfClean
<1> QED
  BY <1>1, <1>6 DEF Fine

LEMMA ReceivedIsMade ==
  ASSUME DocOrNone(server_doc), NEW op, op # NULL, Fine(op), CanOpen(server_doc, op),
         NEW r, r = Received(op)
  PROVE  /\ \/ r.err = "none" /\ MadeDoc(r.doc) /\ Fine(r.op)
            \/ r.err # "none" /\ MadeDoc(r.doc) /\ r.doc = server_doc
         /\ server_doc = NULL => r.err = "none" /\ BaseLen(r.op.comps) = 0
<1>1. CASE server_doc = NULL
  <2>1. r = ot_doc_append(ot_new_doc(0), op)
    BY <1>1 DEF Received, ReceivedOn, append_op
  <2>2. r.err = "none" /\ MadeDoc(r.doc) /\ r.op.comps = op.comps /\ BaseLen(op.comps) = 0
    BY <1>1, <2>1, AppendToNew DEF CanOpen
  <2> QED
    BY <1>1, <2>2 DEF Fine, CleanOver
<1>2. CASE MadeDoc(server_doc)
  <2> DEFINE d == server_doc
             x == IF can_append(d, op) THEN op ELSE xform(d, op)
  <2>1. d # NULL
    BY <1>2, MadeDocText
  <2>2. r = append_op(d, x)
    BY <2>1 DEF Received, ReceivedOn
  <2>3. x # NULL => Fine(x)
    BY <1>2, XformIsFine
  <2> HIDE DEF x
  <2>4. CASE x = NULL
    <3>1. r.err = "xform_failed" /\ r.doc = d
      BY <2>2, <2>4 DEF append_op, Refused
    <3> QED
      BY <1>2, <2>1, <3>1
  <2>5. CASE x # NULL
    <3>1. r = ot_doc_append(d, x)
      BY <2>2, <2>5 DEF append_op
    <3>2. CASE BaseLen(x.comps) = Len(TextOf(d))
      <4>1. r.err = "none" /\ MadeDoc(r.doc) /\ r.op.comps = x.comps
        BY <1>2, <2>3, <2>5, <3>1, <3>2, AppendToMade
      <4> QED
        BY <2>1, <2>3, <2>5, <4>1 DEF Fine, CleanOver
    <3>3. CASE BaseLen(x.comps) # Len(TextOf(d))
      <4>1. r.err # "none" /\ r.doc = d
        BY <1>2, <2>3, <2>5, <3>1, <3>3, AppendToMade
      <4> QED
        BY <1>2, <2>1, <4>1
    <3> QED
      BY <3>2, <3>3
  <2> QED
    BY <2>4, <2>5
<1> QED
  BY <1>1, <1>2 DEF DocOrNone

LEMMA ServerStepKeepsText ==
  ASSUME Control, TextInv, NEW c \in Clients, ServerStep(c)
  PROVE  TextInv'
<1> DEFINE op == Head(up[c])
<1>1. /\ Shape /\ EachText(c) /\ Each(c)
      /\ \A k \in Clients : EachText(k) /\ Each(k)
      /\ DocOrNone(server_doc)
  BY ControlByClient DEF EachClient, TextInv
<1>2. /\ up[c] # <<>> /\ up' = [up EXCEPT ![c] = Tail(up[c])]
      /\ UNCHANGED <<doc, ack_required, anticipated, buffer>>
  BY DEF ServerStep, ot_server_receive, TakeUp, clientVars
<1>3. /\ up'[c] = Tail(up[c]) /\ \A k \in Clients \ {c} : up'[k] = up[k]
  BY <1>1, <1>2 DEF Shape
<1>4. IsSequence(up[c]) /\ FineQueue(up[c])
  BY <1>1 DEF Each, UpTyped, EachText
<1>5. op = up[c][1] /\ 1 \in DOMAIN up[c]
  BY <1>2, <1>4, TailOfSequence
<1>6. op # NULL /\ Fine(op)
  <2>1. IsOp(op)
    BY <1>1, <1>5 DEF Each, UpTyped
  <2>2. ~IsError(op) /\ op # NULL
    BY <2>1 DEF IsOp, IsError, NULL
  <2> QED
    BY <1>2, <1>4, <2>2, FineTail
<1>7. CanOpen(server_doc, op)
  BY <1>1, <1>5 DEF CanOpen, EachText, Unserved
<1> HIDE DEF op
<1>8. PICK r : /\ r = Received(op)
               /\ server_doc' = r.doc
               /\ \/ r.err = "none" /\ Broadcast(r.op)
                  \/ r.err # "none" /\ Broadcast(ErrorMsg(r.err))
  BY DEF ServerStep, ot_server_receive, op
<1>9. /\ \/ r.err = "none" /\ MadeDoc(r.doc) /\ Fine(r.op)
         \/ r.err # "none" /\ MadeDoc(r.doc) /\ r.doc = server_doc
      /\ server_doc = NULL => r.err = "none" /\ BaseLen(r.op.comps) = 0
  BY <1>1, <1>6, <1>7, <1>8, ReceivedIsMade
<1>10. MadeDoc(server_doc') /\ server_doc' # NULL
  BY <1>8, <1>9, MadeDocText
<1>11. PICK msg : /\ down' = [k \in Clients |-> Append(down[k], msg)]
                  /\ IsError(msg) \/ (~IsError(msg) /\ Fine(msg))
                  /\ server_doc = NULL => ~IsError(msg) /\ BaseLen(msg.comps) = 0
  <2>1. CASE r.err = "none" /\ Broadcast(r.op)
    <3>1. ~IsError(r.op)
      BY <1>8, <2>1, ServerResult, OpsAreNoErrors
    <3> QED
      BY <1>9, <2>1, <3>1 DEF Broadcast
  <2>2. CASE r.err # "none" /\ Broadcast(ErrorMsg(r.err))
    BY <1>9, <2>2, Messages DEF Broadcast
  <2> QED
    BY <1>8, <2>1, <2>2
<1>12. ASSUME NEW k \in Clients PROVE EachText(k)'
  <2>1. /\ IsSequence(down[k]) /\ FineQueue(down[k]) /\ EachText(k)
        /\ down'[k] = Append(down[k], msg)
    BY <1>1, <1>11 DEF Each, DownTyped, EachText
  <2>2. /\ FineQueue(down'[k]) /\ down'[k] # <<>>
        /\ down[k] # <<>> => Head(down'[k]) = Head(down[k])
        /\ down[k] = <<>> => Head(down'[k]) = msg
    BY <1>11, <2>1, FineAppend
  <2>3. FineQueue(up'[k])
    <3>1. CASE k = c
      BY <1>2, <1>3, <1>4, <3>1, FineTail
    <3>2. CASE k # c
      BY <1>3, <2>1, <3>2 DEF EachText
    <3> QED
      BY <3>1, <3>2
  <2>4. DocOrNone(doc'[k]) /\ FineHeld(k)' /\ Follows(k)'
    BY <1>2, <2>1 DEF EachText, FineHeld, Follows
  <2>5. Unserved(k)'
    BY <1>10 DEF Unserved
  <2>6. Unopened(k)'
    <3>1. server_doc # NULL /\ doc[k] = NULL => OpensWith(down'[k])
      BY <2>1, <2>2 DEF EachText, Unopened, OpensWith
    <3>2. server_doc = NULL => OpensWith(down'[k])
      BY <1>11, <2>1, <2>2 DEF EachText, Unserved, OpensWith
    <3> QED
      BY <1>2, <2>1, <3>1, <3>2 DEF EachText, Unopened
  <2> QED
    BY <2>2, <2>3, <2>4, <2>5, <2>6 DEF EachText
<1> QED
  BY <1>10, <1>12 DEF TextInv, DocOrNone

(***************************************************************************)
(* A client receives.  Transforming against the anticipated operation can  *)
(* fail; after that, transforming against the buffer and appending cannot. *)
(***************************************************************************)
LEMMA IncomingIsFine ==
  ASSUME Control, TextInv, NEW c \in Clients, NEW received, received # NULL,
         Fine(received), CanOpen(doc[c], received),
         NEW first, first = xform_anticipated(c, received),
         NEW second, second = xform_buffer(c, first[1])
  PROVE  /\ first[2] # NULL => Fine(first[2])
         /\ second[1] # NULL => Fine(second[1])
         /\ second[2] # NULL => Fine(second[2]) /\ CanOpen(doc[c], second[2])
         /\ \/ second[2] = NULL /\ first[2] = anticipated[c] /\ second[1] = buffer[c]
            \/ second[2] # NULL /\ first[2] = NULL /\ second[1] = NULL
            \/ /\ second[2] # NULL /\ first[2] # NULL
               /\ BaseLen(second[2].comps) = Len(TextOf(doc[c]))
               /\ second[1] # NULL =>
                    /\ BaseLen(second[1].comps) = OutLen(first[2].comps)
                    /\ OutLen(second[1].comps) = OutLen(second[2].comps)
               /\ second[1] = NULL => OutLen(first[2].comps) = OutLen(second[2].comps)
<1> DEFINE a == anticipated[c]
           b == buffer[c]
           T == Len(TextOf(doc[c]))
<1>1. /\ Each(c) /\ EachText(c)
  BY ControlByClient DEF EachClient, TextInv
<1>2. CASE a = NULL
  <2>1. b = NULL
    BY <1>1, <1>2 DEF Each, Discipline
  <2>2. first = <<received, NULL>> /\ second = <<NULL, received>>
    BY <1>2, <2>1 DEF xform_anticipated, xform_buffer
  <2> QED
    BY <2>2
<1>3. CASE a # NULL
  <2>1. /\ Fine(a) /\ (b # NULL => Fine(b))
        /\ b # NULL => BaseLen(b.comps) = OutLen(a.comps) /\ OutLen(b.comps) = T
        /\ b = NULL => OutLen(a.comps) = T
        /\ doc[c] # NULL
    BY <1>1, <1>3 DEF EachText, FineHeld, Follows, Unopened, Each, Discipline
  <2> HIDE DEF T
  <2>2. first = OrElse(ot_xform(received, a), <<NULL, a>>)
    BY <1>3 DEF xform_anticipated
  <2>3. CASE BaseLen(received.comps) # BaseLen(a.comps)
    <3>1. ot_xform(received, a) = <<NULL, NULL>>
      BY <2>1, <2>3, XformOfClean DEF Fine
    <3>2. first = <<NULL, a>>
      BY <2>2, <3>1 DEF OrElse
    <3>3. second = <<b, NULL>>
      BY <3>2 DEF xform_buffer
    <3> QED
      BY <2>1, <3>2, <3>3
  <2>4. CASE BaseLen(received.comps) = BaseLen(a.comps)
    <3>1. CleanOver(Letters, received) /\ CleanOver(Letters, a)
      BY <2>1 DEF Fine
    <3>2. PICK p1, p2 : /\ ot_xform(received, a) = <<p1, p2>>
                        /\ p1 # NULL /\ p2 # NULL
                        /\ CleanOver(Letters, p1) /\ CleanOver(Letters, p2)
                        /\ Merged(Letters, received.comps, a.comps, p1.comps, p2.comps)
      BY <2>4, <3>1, XformOfClean
    <3>3. first = <<p1, p2>>
      BY <2>2, <3>2 DEF OrElse
    <3>4. BaseLen(p1.comps) = OutLen(a.comps) /\ OutLen(p1.comps) = OutLen(p2.comps)
      BY <3>2 DEF Merged
    <3>5. CASE b = NULL
      <4>1. second = <<NULL, p1>>
        BY <3>3, <3>5 DEF xform_buffer
      <4>2. BaseLen(p1.comps) = T
        BY <2>1, <3>4, <3>5
      <4>3. first[2] = p2 /\ second[1] = NULL /\ second[2] = p1
        BY <3>3, <4>1
      <4> QED
        BY <2>1, <3>2, <3>4, <4>2, <4>3 DEF Fine, CanOpen, T
    <3>6. CASE b # NULL
      <4>1. second = OrElse(ot_xform(b, p1), <<b, NULL>>)
        BY <3>2, <3>3, <3>6 DEF xform_buffer
      <4>2. CleanOver(Letters, b) /\ BaseLen(b.comps) = BaseLen(p1.comps)
        BY <2>1, <3>4, <3>6 DEF Fine
      <4>3. PICK q1, q2 : /\ ot_xform(b, p1) = <<q1, q2>>
                          /\ q1 # NULL /\ q2 # NULL
                          /\ CleanOver(Letters, q1) /\ CleanOver(Letters, q2)
                          /\ Merged(Letters, b.comps, p1.comps, q1.comps, q2.comps)
        BY <3>2, <4>2, XformOfClean
      <4>4. second = <<q1, q2>>
        BY <4>1, <4>3 DEF OrElse
      <4>5. /\ BaseLen(q1.comps) = OutLen(p1.comps) /\ BaseLen(q2.comps) = OutLen(b.comps)
            /\ OutLen(q1.comps) = OutLen(q2.comps)
        BY <4>3 DEF Merged
      <4>6. first[2] = p2 /\ second[1] = q1 /\ second[2] = q2
        BY <3>3, <4>4
      <4>7. /\ BaseLen(q1.comps) = OutLen(p2.comps) /\ BaseLen(q2.comps) = T
        BY <2>1, <3>4, <3>6, <4>5
      <4> QED
        BY <2>1, <3>2, <4>3, <4>5, <4>6, <4>7 DEF Fine, CanOpen, T
    <3> QED
      BY <3>5, <3>6
  <2> QED
    BY <2>3, <2>4
<1> QED
  BY <1>2, <1>3

\* The queue of client c is shorter, nothing else of what EachText says of the
\* others has changed.
LEMMA TakenText ==
  ASSUME Control, TextInv, NEW c \in Clients, TakeDown(c)
  PROVE  /\ FineQueue(down'[c])
         /\ IsError(Head(down[c])) \/ Fine(Head(down[c]))
         /\ \A k \in Clients \ {c} : down'[k] = down[k]
<1>1. Shape /\ IsSequence(down[c]) /\ FineQueue(down[c])
  BY ControlByClient DEF EachClient, Each, DownTyped, TextInv, EachText
<1>2. down[c] # <<>> /\ down' = [down EXCEPT ![c] = Tail(down[c])]
  BY DEF TakeDown
<1>3. down'[c] = Tail(down[c]) /\ \A k \in Clients \ {c} : down'[k] = down[k]
  BY <1>1, <1>2 DEF Shape
<1> QED
  BY <1>1, <1>2, <1>3, FineTail

LEMMA ReceiveErrorKeepsText ==
  ASSUME Control, TextInv, NEW c \in Clients, ReceiveError(c), UNCHANGED server_doc
  PROVE  TextInv' /\ UNCHANGED doc
<1>1. /\ TakeDown(c) /\ IsError(Head(down[c]))
      /\ UNCHANGED <<up, doc, ack_required, anticipated, buffer>>
      /\ \A k \in Clients : EachText(k)
  BY DEF ReceiveError, TextInv
<1>2. FineQueue(down'[c]) /\ \A k \in Clients \ {c} : down'[k] = down[k]
  BY <1>1, TakenText
<1>3. down[c] # <<>>
  BY <1>1 DEF TakeDown
<1>4. server_doc # NULL
  BY <1>1, <1>3 DEF EachText, Unserved
<1>5. doc[c] # NULL
  BY <1>1, <1>4 DEF EachText, Unopened, OpensWith
<1>6. EachText(c)'
  BY <1>1, <1>2, <1>4, <1>5 DEF EachText, FineHeld, Follows, Unopened, Unserved
<1>7. ASSUME NEW k \in Clients \ {c} PROVE EachText(k)'
  BY <1>1, <1>2, EachTextUnchanged DEF TextStateOf, StateOf
<1> QED
  BY <1>1, <1>6, <1>7 DEF TextInv

LEMMA ReceiveAckKeepsText ==
  ASSUME Control, TextInv, NEW c \in Clients, ReceiveAck(c), UNCHANGED server_doc
  PROVE  TextInv' /\ UNCHANGED doc
<1> DEFINE msg == Head(down[c])
<1>1. /\ TakeDown(c) /\ IsOwn(c, msg) /\ UNCHANGED doc
      /\ Shape /\ Each(c) /\ \A k \in Clients : EachText(k)
  BY ControlByClient DEF ReceiveAck, IsOwn, EachClient, TextInv
<1>2. FineQueue(down'[c]) /\ \A k \in Clients \ {c} : down'[k] = down[k]
  BY <1>1, TakenText
<1>3. ack_required[c] /\ up[c] = <<>>
  <2>1. OwnIn(c, down[c]) # {}
    BY <1>1, TakeDownKeepsQueue DEF Each
  <2> QED
    BY <1>1, <2>1 DEF Each, Flight
<1>4. doc[c] # NULL
  BY <1>1, <1>3 DEF EachText, Unopened
<1>5. server_doc # NULL
  BY <1>1 DEF EachText, Unserved, TakeDown
<1>6. Unopened(c)' /\ Unserved(c)' /\ DocOrNone(doc'[c])
  BY <1>1, <1>4, <1>5 DEF EachText, Unopened, Unserved
<1>7. CASE /\ buffer[c] = NULL
           /\ ack_required' = [ack_required EXCEPT ![c] = FALSE]
           /\ anticipated' = [anticipated EXCEPT ![c] = NULL]
           /\ UNCHANGED <<up, buffer, sentAt>>
  <2>1. /\ anticipated'[c] = NULL /\ buffer'[c] = NULL /\ up'[c] = up[c]
        /\ \A k \in Clients \ {c} : /\ anticipated'[k] = anticipated[k]
                                    /\ ack_required'[k] = ack_required[k]
    BY <1>1, <1>7 DEF Shape
  <2>2. Follows(c)' /\ FineHeld(c)' /\ FineQueue(up'[c])
    BY <1>1, <2>1 DEF Follows, FineHeld, EachText
  <2>3. EachText(c)'
    BY <1>2, <1>6, <2>2 DEF EachText
  <2>4. ASSUME NEW k \in Clients \ {c} PROVE EachText(k)'
    BY <1>1, <1>2, <1>7, <2>1, EachTextUnchanged DEF TextStateOf, StateOf
  <2> QED
    BY <1>1, <2>3, <2>4 DEF TextInv
<1>8. CASE /\ buffer[c] # NULL
           /\ send_buffer(c, buffer[c], msg.hash, seen[c] + 1)
  <2>1. Fine(buffer[c]) /\ FineQueue(up[c])
    BY <1>1, <1>8 DEF EachText, FineHeld
  <2>2. /\ FineQueue(up'[c]) /\ Fine(anticipated'[c]) /\ anticipated'[c] # NULL
        /\ OutLen(anticipated'[c].comps) = OutLen(buffer[c].comps) /\ buffer'[c] = NULL
        /\ \A k \in Clients \ {c} : /\ up'[k] = up[k] /\ anticipated'[k] = anticipated[k]
                                    /\ buffer'[k] = buffer[k]
                                    /\ ack_required'[k] = ack_required[k]
    BY <1>8, <2>1, SentIsFine DEF SameWork
  <2>3. OutLen(buffer[c].comps) = Len(TextOf(doc[c]))
    BY <1>1, <1>8 DEF EachText, Follows
  <2>4. Follows(c)' /\ FineHeld(c)'
    BY <1>1, <2>2, <2>3 DEF Follows, FineHeld
  <2>5. EachText(c)'
    BY <1>2, <1>6, <2>2, <2>4 DEF EachText
  <2>6. ASSUME NEW k \in Clients \ {c} PROVE EachText(k)'
    BY <1>1, <1>2, <2>2, EachTextUnchanged, SMTT(40) DEF TextStateOf, StateOf
  <2> QED
    BY <1>1, <2>5, <2>6 DEF TextInv
<1> QED
  BY <1>1, <1>7, <1>8 DEF ReceiveAck

\* What becomes of the document, and of the operation that comes with
\* OT_OP_APPLIED.
LEMMA ReceiveOpKeepsText ==
  ASSUME Control, TextInv, NEW c \in Clients, ReceiveOp(c), UNCHANGED server_doc,
         NEW op, op = xform_buffer(c, xform_anticipated(c, Head(down[c]))[1])[2]
  PROVE  /\ TextInv'
         /\ \A k \in Clients \ {c} : doc'[k] = doc[k]
         /\ doc[c] # NULL => doc'[c] # NULL
         /\ op = NULL => doc'[c] = doc[c]
         /\ op # NULL /\ ot_doc_append(Opened(doc[c]), op).err = "none" =>
              /\ TextOf(doc'[c]) = ApplyTo(op.comps, TextOf(doc[c]))
              /\ doc'[c] # NULL /\ Fine(op)
         /\ op # NULL /\ ot_doc_append(Opened(doc[c]), op).err # "none" => doc'[c] # NULL
<1> DEFINE msg == Head(down[c])
           d == doc[c]
<1>1. /\ TakeDown(c) /\ ~IsError(msg) /\ UNCHANGED <<up, ack_required>>
      /\ Shape /\ Each(c) /\ EachText(c) /\ \A k \in Clients : EachText(k)
  BY ControlByClient DEF ReceiveOp, EachClient, TextInv
<1>2. PICK first, second :
        /\ first = xform_anticipated(c, Head(down[c]))
        /\ second = xform_buffer(c, first[1])
        /\ anticipated' = [anticipated EXCEPT ![c] = first[2]]
        /\ buffer' = [buffer EXCEPT ![c] = second[1]]
        /\ \/ /\ second[2] = NULL
              /\ UNCHANGED doc
           \/ /\ second[2] # NULL
              /\ doc' = [doc EXCEPT ![c] = ot_doc_append(Opened(doc[c]), second[2]).doc]
  BY DEF ReceiveOp, Incoming
<1>3. /\ FineQueue(down'[c]) /\ Fine(msg) /\ \A k \in Clients \ {c} : down'[k] = down[k]
  BY <1>1, TakenText
<1>4. msg # NULL
  <2>1. IsOp(msg)
    BY <1>1, TakeDownKeepsQueue DEF Each
  <2> QED
    BY <2>1 DEF IsOp, NULL
<1>5. server_doc # NULL
  BY <1>1 DEF EachText, Unserved, TakeDown
<1>6. CanOpen(d, msg)
  BY <1>1, <1>5 DEF EachText, Unopened, OpensWith, CanOpen
<1>7. op = second[2]
  BY <1>2, SMTT(40)
<1>8. /\ first[2] # NULL => Fine(first[2])
      /\ second[1] # NULL => Fine(second[1])
      /\ op # NULL => Fine(op) /\ CanOpen(d, op)
      /\ \/ op = NULL /\ first[2] = anticipated[c] /\ second[1] = buffer[c]
         \/ op # NULL /\ first[2] = NULL /\ second[1] = NULL
         \/ /\ op # NULL /\ first[2] # NULL
            /\ BaseLen(op.comps) = Len(TextOf(d))
            /\ second[1] # NULL =>
                 /\ BaseLen(second[1].comps) = OutLen(first[2].comps)
                 /\ OutLen(second[1].comps) = OutLen(op.comps)
            /\ second[1] = NULL => OutLen(first[2].comps) = OutLen(op.comps)
  BY <1>2, <1>3, <1>4, <1>6, <1>7, IncomingIsFine
<1>9. /\ anticipated'[c] = first[2] /\ buffer'[c] = second[1]
      /\ \A k \in Clients \ {c} : /\ anticipated'[k] = anticipated[k] /\ buffer'[k] = buffer[k]
                                  /\ doc'[k] = doc[k]
  BY <1>1, <1>2 DEF Shape
<1>10. /\ FineHeld(c)' /\ FineQueue(up'[c]) /\ Unserved(c)'
  BY <1>1, <1>5, <1>8, <1>9 DEF FineHeld, EachText, Unserved
<1>11. DocOrNone(d)
  BY <1>1, SMTT(40) DEF EachText
<1> DEFINE r == ot_doc_append(Opened(d), op)
<1>12. ASSUME op # NULL
       PROVE  IF BaseLen(op.comps) = Len(TextOf(d))
              THEN /\ r.err = "none" /\ MadeDoc(r.doc)
                   /\ TextOf(r.doc) = ApplyTo(op.comps, TextOf(d))
                   /\ Len(TextOf(r.doc)) = OutLen(op.comps)
              ELSE r.err # "none" /\ r.doc = d /\ MadeDoc(d)
  BY <1>8, <1>11, <1>12, AppendToAny
<1>13. op # NULL => doc'[c] = r.doc
  BY <1>1, <1>2, <1>7 DEF Shape
<1>14. op = NULL => doc'[c] = d
  BY <1>2, <1>7
<1> HIDE DEF r
<1>15. op # NULL => MadeDoc(doc'[c]) /\ doc'[c] # NULL
  BY <1>12, <1>13, MadeDocText
<1>16. op = NULL => d # NULL
  <2> SUFFICES ASSUME op = NULL, d = NULL PROVE FALSE
    OBVIOUS
  <2>1. anticipated[c] = NULL /\ buffer[c] = NULL
    BY <1>1 DEF EachText, Unopened, Each, Discipline
  <2>2. first[1] = msg /\ second[2] = msg
    BY <1>2, <2>1 DEF xform_anticipated, xform_buffer
  <2> QED
    BY <1>4, <1>7, <2>2
<1>17. DocOrNone(doc'[c]) /\ Unopened(c)'
  BY <1>11, <1>14, <1>15, <1>16 DEF DocOrNone, Unopened
<1>18. Follows(c)'
  <2>1. CASE op = NULL
    BY <1>1, <1>8, <1>9, <1>14, <2>1 DEF EachText, Follows
  <2>2. CASE op # NULL /\ first[2] = NULL /\ second[1] = NULL
    BY <1>9, <2>2 DEF Follows
  <2>3. CASE op # NULL /\ first[2] # NULL
    <3>1. Len(TextOf(doc'[c])) = OutLen(op.comps)
      BY <1>8, <1>12, <1>13, <2>3
    <3> QED
      BY <1>8, <1>9, <2>3, <3>1 DEF Follows
  <2> QED
    BY <1>8, <2>1, <2>2, <2>3
<1>19. EachText(c)'
  BY <1>3, <1>10, <1>17, <1>18 DEF EachText
<1>20. ASSUME NEW k \in Clients \ {c} PROVE EachText(k)'
  BY <1>1, <1>3, <1>9, EachTextUnchanged DEF TextStateOf, StateOf
<1>21. TextInv'
  BY <1>19, <1>20 DEF TextInv
<1> QED
  BY <1>8, <1>9, <1>12, <1>13, <1>14, <1>15, <1>21 DEF r

LEMMA EditIsFine ==
  ASSUME EditorsFit, TextInv, NEW c \in Clients, NEW n \in Nat,
         NEW text \in Seq(Letters), NEW comps \in Edits(c, n, text),
         doc[c] = NULL => text = <<>>
  PROVE  /\ Fine(Op(c, ZeroHash, ZeroHash, comps))
         /\ CanOpen(doc[c], Op(c, ZeroHash, ZeroHash, comps))
<1>1. /\ comps \in OperationsOver(Letters) /\ Passable(comps)
      /\ InitialText = <<>> /\ text = <<>> => BaseLen(comps) = 0
  BY EditorsFitLetters DEF Fits
<1>2. Op(c, ZeroHash, ZeroHash, comps).comps = comps
  BY DEF Op
<1>3. doc[c] = NULL => InitialText = <<>>
  BY DEF TextInv, EachText, Unopened
<1> QED
  BY <1>1, <1>2, <1>3 DEF Fine, CleanOver, CanOpen

LEMMA EditKeepsText ==
  ASSUME EditorsFit, Control, TextInv, NEW c \in Clients, Edit(c)
  PROVE  TextInv'
<1>1. PICK comps : comps \in Edits(c, edits[c], TextOf(doc[c])) /\ ot_client_apply(c, comps)
  BY DEF Edit
<1>2. edits[c] \in Nat
  BY MaxEditsAssumption DEF Control, TypeOK
<1>3. TextOf(doc[c]) \in Seq(Letters)
  BY TextOfAny DEF TextInv, EachText
<1>4. doc[c] = NULL => TextOf(doc[c]) = <<>>
  BY DEF TextOf
<1>5. /\ Fine(Op(c, ZeroHash, ZeroHash, comps))
      /\ CanOpen(doc[c], Op(c, ZeroHash, ZeroHash, comps))
  <2> DEFINE text == TextOf(doc[c])
  <2>1. comps \in Edits(c, edits[c], text) /\ text \in Seq(Letters)
        /\ (doc[c] = NULL => text = <<>>)
    BY <1>1, <1>3, <1>4
  <2> HIDE DEF text
  <2> QED
    BY <1>2, <2>1, EditIsFine
<1>6. UNCHANGED server_doc
  BY DEF Edit
<1> QED
  BY <1>1, <1>5, <1>6, ApplyKeepsText

LEMMA NextKeepsText == EditorsFit /\ Control /\ TextInv /\ [Next]_vars => TextInv'
<1> SUFFICES ASSUME EditorsFit, Control, TextInv, [Next]_vars PROVE TextInv'
  OBVIOUS
<1>1. ASSUME NEW c \in Clients, Edit(c) PROVE TextInv'
  BY <1>1, EditKeepsText
<1>2. ASSUME NEW c \in Clients, ServerStep(c) PROVE TextInv'
  BY <1>2, ServerStepKeepsText
<1>3. ASSUME NEW c \in Clients, ClientStep(c) PROVE TextInv'
  BY <1>3, ReceiveErrorKeepsText, ReceiveAckKeepsText, ReceiveOpKeepsText
     DEF ClientStep, ot_client_receive
<1>4. CASE UNCHANGED vars
  <2>1. \A k \in Clients : EachText(k) /\ UNCHANGED TextStateOf(k)
    BY <1>4 DEF TextInv, vars, clientVars, TextStateOf, StateOf
  <2>2. \A k \in Clients : EachText(k)'
    BY <2>1, EachTextUnchanged
  <2> QED
    BY <1>4, <2>2 DEF TextInv, vars
<1> QED
  BY <1>1, <1>2, <1>3, <1>4 DEF Next

\* What the client holds back always follows on what it waits for and makes
\* its document, also after client and server have parted: so xform_buffer
\* never fails after xform_anticipated, and the append whose result
\* ot_client_receive does not look at never fails while the client waits
\* (client.c).
THEOREM BufferFollowsHolds ==
  ASSUME EditorsFit
  PROVE  Spec => []BufferFollows
<1>1. Init => TextInv
  BY InitText
<1>2. Control /\ TextInv /\ [Next]_vars => TextInv'
  BY NextKeepsText
<1> QED
  BY <1>1, <1>2, TextInvFollows, ControlInvariant, PTL DEF Spec

-----------------------------------------------------------------------------
(***************************************************************************)
(* The editors that keep up by the events alone.  What they apply and the  *)
(* document refuses changes nothing they show.                             *)
(***************************************************************************)
RefusedShowsNothing ==
  \A X : Fits(X) =>
    \A c \in Clients, n \in Nat, text \in Seq(X) : \A comps \in Edits(c, n, text) :
      BaseLen(comps) # Len(text) => ApplyTo(comps, text) = text

Shown(k) ==
  /\ shown[k] \in Seq(Letters)
  /\ dangling[k] => doc[k] # NULL
  /\ ~dangling[k] => shown[k] = TextOf(doc[k])

EditorInv ==
  /\ Control /\ TextInv
  /\ Clients = DOMAIN shown /\ Clients = DOMAIN dangling
  /\ \A k \in Clients : Shown(k)

LEMMA InitEditor ==
  ASSUME EditorsFit, EditorInit
  PROVE  EditorInv
<1>1. Control /\ TextInv
  BY InitControl, InitText DEF EditorInit
<1>2. TextOf(OpenedDoc) = InitialText /\ InitialText \in Seq(Letters)
  BY OpenedDocText, EditorsFitLetters DEF Fits
<1>3. \A k \in Clients : Shown(k)
  BY <1>2 DEF EditorInit, Init, Shown
<1> QED
  BY <1>1, <1>3 DEF EditorInv, EditorInit

LEMMA ShownUnchanged ==
  ASSUME NEW k, Shown(k), shown'[k] = shown[k], dangling'[k] = dangling[k], doc'[k] = doc[k]
  PROVE  Shown(k)'
BY DEF Shown

LEMMA TypeKeepsEditor ==
  ASSUME EditorsFit, RefusedShowsNothing, EditorInv, NEW c \in Clients, Type(c)
  PROVE  EditorInv'
<1>1. PICK text, comps :
        /\ text \in Shows(c) /\ comps \in Edits(c, edits[c], text)
        /\ ot_client_apply(c, comps)
        /\ shown' = [shown EXCEPT ![c] = ApplyTo(comps, text)]
  BY DEF Type
<1>2. /\ Control /\ TextInv /\ Shown(c) /\ DocOrNone(doc[c])
      /\ edits[c] < MaxEdits /\ edits' = [edits EXCEPT ![c] = @ + 1]
      /\ UNCHANGED server_doc /\ dangling' = dangling
  BY DEF EditorInv, Type, TextInv, EachText
<1>3. Control'
  BY <1>1, <1>2, ApplyKeepsControl
<1>4. edits[c] \in Nat
  BY <1>2, MaxEditsAssumption DEF Control, TypeOK
<1>5. TextOf(doc[c]) \in Seq(Letters)
  BY <1>2, TextOfAny
<1>6. text \in Seq(Letters) /\ (~dangling[c] => text = TextOf(doc[c]))
  BY <1>1, <1>2, <1>5 DEF Shows, Shown
<1>7. doc[c] = NULL => text = <<>>
  BY <1>2, <1>6 DEF Shown, TextOf
<1>8. /\ Fine(Op(c, ZeroHash, ZeroHash, comps))
      /\ CanOpen(doc[c], Op(c, ZeroHash, ZeroHash, comps))
  BY <1>1, <1>2, <1>4, <1>6, <1>7, EditIsFine
<1>9. /\ TextInv'
      /\ \A k \in Clients \ {c} : doc'[k] = doc[k]
      /\ doc[c] # NULL => doc'[c] # NULL
      /\ IF BaseLen(comps) = Len(TextOf(doc[c]))
         THEN TextOf(doc'[c]) = ApplyTo(comps, TextOf(doc[c]))
         ELSE doc'[c] = doc[c]
  BY <1>1, <1>2, <1>8, ApplyKeepsText
<1>10. /\ comps \in OperationsOver(Letters)
       /\ BaseLen(comps) # Len(text) => ApplyTo(comps, text) = text
  BY <1>1, <1>4, <1>6, EditorsFitLetters DEF Fits, RefusedShowsNothing
<1>11. ApplyTo(comps, text) \in Seq(Letters)
  BY <1>6, <1>10, MadeIsText
<1>12. /\ shown'[c] = ApplyTo(comps, text)
       /\ \A k \in Clients \ {c} : shown'[k] = shown[k]
  BY <1>1 DEF EditorInv
<1>13. ~dangling[c] => ApplyTo(comps, text) = TextOf(doc'[c])
  BY <1>6, <1>9, <1>10
<1>14. Shown(c)'
  BY <1>2, <1>9, <1>11, <1>12, <1>13 DEF Shown
<1>15. ASSUME NEW k \in Clients \ {c} PROVE Shown(k)'
  BY <1>2, <1>9, <1>12, ShownUnchanged DEF EditorInv
<1> QED
  BY <1>1, <1>2, <1>3, <1>9, <1>14, <1>15 DEF EditorInv

\* An operation that comes in: the editor is given the very operation that was
\* appended, or one that has been freed.
LEMMA EventsKeepShown ==
  ASSUME EditorInv, NEW c \in Clients, ReceiveOp(c), UNCHANGED server_doc,
         EventsOf(c, Head(down[c]))
  PROVE  /\ TextInv' /\ \A k \in Clients : Shown(k)'
         /\ Clients = DOMAIN shown' /\ Clients = DOMAIN dangling'
<1> DEFINE op == Applied(c, Head(down[c]))
           d == doc[c]
<1>1. /\ Control /\ TextInv /\ DocOrNone(d) /\ \A k \in Clients : Shown(k)
      /\ Clients = DOMAIN shown /\ Clients = DOMAIN dangling
  BY DEF EditorInv, TextInv, EachText
<1>2. op = xform_buffer(c, xform_anticipated(c, Head(down[c]))[1])[2]
  BY DEF Applied
<1>3. \/ op = NULL /\ UNCHANGED <<shown, dangling>>
      \/ /\ op # NULL /\ ot_doc_append(Opened(d), op).err = "none"
         /\ shown' = [shown EXCEPT ![c] = ApplyTo(op.comps, @)]
         /\ UNCHANGED dangling
      \/ /\ op # NULL /\ ot_doc_append(Opened(d), op).err # "none"
         /\ dangling' = [dangling EXCEPT ![c] = TRUE]
         /\ UNCHANGED shown
  BY DEF EventsOf, NoEvents
<1> HIDE DEF op
<1>4. /\ TextInv'
      /\ \A k \in Clients \ {c} : doc'[k] = doc[k]
      /\ doc[c] # NULL => doc'[c] # NULL
      /\ op = NULL => doc'[c] = doc[c]
      /\ op # NULL /\ ot_doc_append(Opened(d), op).err = "none" =>
           /\ TextOf(doc'[c]) = ApplyTo(op.comps, TextOf(doc[c]))
           /\ doc'[c] # NULL /\ Fine(op)
      /\ op # NULL /\ ot_doc_append(Opened(d), op).err # "none" => doc'[c] # NULL
  BY <1>1, <1>2, ReceiveOpKeepsText
<1>5. Clients = DOMAIN shown' /\ Clients = DOMAIN dangling'
  BY <1>1, <1>3
<1>6. ASSUME NEW k \in Clients \ {c} PROVE Shown(k)'
  <2>1. shown'[k] = shown[k] /\ dangling'[k] = dangling[k]
    BY <1>1, <1>3
  <2> QED
    BY <1>1, <1>4, <2>1, ShownUnchanged
<1>7. Shown(c)'
  <2>1. CASE op = NULL
    BY <1>1, <1>3, <1>4, <2>1, ShownUnchanged
  <2>2. CASE op # NULL /\ ot_doc_append(Opened(d), op).err = "none"
    <3>1. /\ shown'[c] = ApplyTo(op.comps, shown[c]) /\ dangling'[c] = dangling[c]
      BY <1>1, <1>3, <2>2
    <3>2. op.comps \in OperationsOver(Letters)
      BY <1>4, <2>2 DEF Fine, CleanOver
    <3>3. shown'[c] \in Seq(Letters)
      BY <1>1, <3>1, <3>2, MadeIsText DEF Shown
    <3> QED
      BY <1>1, <1>4, <2>2, <3>1, <3>3 DEF Shown
  <2>3. CASE op # NULL /\ ot_doc_append(Opened(d), op).err # "none"
    <3>1. shown'[c] = shown[c] /\ dangling'[c] = TRUE /\ doc'[c] # NULL
      BY <1>1, <1>3, <1>4, <2>3
    <3> QED
      BY <1>1, <3>1 DEF Shown
  <2> QED
    BY <2>1, <2>2, <2>3
<1> QED
  BY <1>4, <1>5, <1>6, <1>7

LEMMA NextKeepsEditor ==
  EditorsFit /\ RefusedShowsNothing /\ EditorInv /\ [EditorNext]_editorVars => EditorInv'
<1> SUFFICES ASSUME EditorsFit, RefusedShowsNothing, EditorInv, [EditorNext]_editorVars
             PROVE  EditorInv'
  OBVIOUS
<1>1. Control /\ TextInv
  BY DEF EditorInv
<1>2. ASSUME UNCHANGED <<shown, dangling, doc>>, Control', TextInv' PROVE EditorInv'
  BY <1>2, ShownUnchanged DEF EditorInv
<1>3. ASSUME NEW c \in Clients, Type(c) PROVE EditorInv'
  BY <1>3, TypeKeepsEditor
<1>4. ASSUME NEW c \in Clients, ServerStep(c), NoEvents PROVE EditorInv'
  <2>1. Control' /\ TextInv'
    BY <1>1, <1>4, ServerStepKeepsControl, ServerStepKeepsText
  <2> QED
    BY <1>2, <1>4, <2>1 DEF ServerStep, clientVars, NoEvents
<1>5. ASSUME NEW c \in Clients, EditorStep(c) PROVE EditorInv'
  <2>1. ClientStep(c) /\ UNCHANGED <<server_doc, edits>>
    BY <1>5 DEF EditorStep, ClientStep
  <2>2. Control'
    BY <1>1, <2>1, ReceiveErrorKeepsControl, ReceiveAckKeepsControl, ReceiveOpKeepsControl
       DEF ClientStep, ot_client_receive
  <2>3. CASE NoEvents /\ (ReceiveError(c) \/ ReceiveAck(c))
    <3>1. TextInv' /\ UNCHANGED doc
      BY <1>1, <2>1, <2>3, ReceiveErrorKeepsText, ReceiveAckKeepsText
    <3> QED
      BY <1>2, <2>2, <2>3, <3>1 DEF NoEvents
  <2>4. CASE ReceiveOp(c) /\ EventsOf(c, Head(down[c]))
    <3>1. /\ TextInv' /\ \A k \in Clients : Shown(k)'
          /\ Clients = DOMAIN shown' /\ Clients = DOMAIN dangling'
      BY <2>1, <2>4, EventsKeepShown
    <3> QED
      BY <2>2, <3>1 DEF EditorInv
  <2>5. \/ NoEvents /\ (ReceiveError(c) \/ ReceiveAck(c))
        \/ ReceiveOp(c) /\ EventsOf(c, Head(down[c]))
    BY <1>5, <2>1 DEF EditorStep, ClientStep, ot_client_receive, ReceiveError, ReceiveAck,
                      ReceiveOp, IsOwn
  <2> QED
    BY <2>3, <2>4, <2>5
<1>6. CASE UNCHANGED editorVars
  <2>1. UNCHANGED vars /\ UNCHANGED <<shown, dangling, doc>>
    BY <1>6 DEF editorVars, vars, clientVars
  <2>2. Control' /\ TextInv'
    BY <1>1, <2>1, NextKeepsControl, NextKeepsText
  <2> QED
    BY <1>2, <2>1, <2>2
<1> QED
  BY <1>3, <1>4, <1>5, <1>6 DEF EditorNext

\* "The editor and libot client must stay in sync at all times"
\* (doc/getting-started.md): whoever applies the operations that come with
\* OT_OP_APPLIED, and no other, shows the client's document, in every
\* interleaving of its own typing with what comes in.
THEOREM InSyncHolds ==
  ASSUME EditorsFit, RefusedShowsNothing
  PROVE  EditorSpec => []InSync
<1>1. EditorInit => EditorInv
  BY InitEditor
<1>2. EditorInv /\ [EditorNext]_editorVars => EditorInv'
  BY NextKeepsEditor
<1>3. EditorInv => InSync
  BY DEF EditorInv, Shown, InSync
<1> QED
  BY <1>1, <1>2, <1>3, PTL DEF EditorSpec
-----------------------------------------------------------------------------
(***************************************************************************)
(* The fourth invariant: what client and server make of the same history.  *)
(* The operation appended last has the hash of the text it leads to, in    *)
(* every document.                                                         *)
(***************************************************************************)
LEMMA AppendHashes ==
  ASSUME NEW d, IsDoc(d), NEW op, NEW r, r = ot_doc_append(d, op), r.err = "none"
  PROVE  /\ r.doc.history = Append(d.history, r.op)
         /\ Last(r.doc.history) = r.op
         /\ r.op.parent = Parent(d)
         /\ r.op.hash = HashOf(TextOf(r.doc))
         /\ r.doc.composed.hash = r.op.hash
<1> DEFINE composed == Composed(d, op)
           head == NewHead(d, op, composed)
           latest == [composed EXCEPT !.hash = head.hash]
           h == d.history
<1>1. composed # NULL => DOMAIN composed = {"client_id", "parent", "hash", "comps"}
  BY DEF Composed, ot_compose, Composition, Op
<1>2. head.parent = Parent(d) /\ head.hash = HashOf(ot_snapshot(composed.comps))
  BY DEF NewHead, Op
<1>3. /\ composed # NULL
      /\ r = Moved(d, head, composed)
  <2>1. \/ r = Refused(d, "max_size")
        \/ composed = NULL /\ r = Refused(d, "append_failed")
        \/ composed # NULL /\ r = Moved(d, head, composed)
    BY DEF ot_doc_append, AppendComposed
  <2>2. Refused(d, "max_size").err # "none" /\ Refused(d, "append_failed").err # "none"
    BY DEF Refused
  <2> QED
    BY <2>1, <2>2
<1> HIDE DEF composed
<1>4. latest.comps = composed.comps /\ latest # NULL /\ latest.hash = head.hash
  <2>1. DOMAIN latest = {"client_id", "parent", "hash", "comps"}
    BY <1>1, <1>3
  <2>2. latest # NULL
    BY <2>1 DEF NULL
  <2> QED
    BY <1>1, <1>3, <2>2
<1> HIDE DEF head
<1>5. r.op = head /\ r.doc = Extended(d, head, composed)
  BY <1>3 DEF Moved
<1>6. /\ r.doc.history = Append(h, head) /\ r.doc.composed = latest
      /\ DOMAIN r.doc = {"history", "composed", "size", "max_size"}
  BY <1>5 DEF Extended, IsDoc
<1> HIDE DEF latest
<1>7. r.doc # NULL
  BY <1>6 DEF NULL
<1>8. TextOf(r.doc) = ot_snapshot(composed.comps)
  BY <1>4, <1>6, <1>7 DEF TextOf, Text
<1>9. Last(Append(h, head)) = head
  <2>1. IsSequence(h)
    BY DEF IsDoc
  <2> HIDE DEF h
  <2> QED
    BY <2>1, AppendedSequence DEF Last
<1> QED
  BY <1>2, <1>4, <1>5, <1>6, <1>8, <1>9

\* What a document says of itself.
Dated(d) == d # NULL => Last(d.history).hash = HashOf(TextOf(d))

LEMMA AppendDates ==
  ASSUME NEW d, DocOrNone(d), NEW op, NEW r, r = ot_doc_append(Opened(d), op)
  PROVE  /\ r.err = "none" =>
              /\ Dated(r.doc)
              /\ r.doc.history = Append(Opened(d).history, r.op)
              /\ r.op.hash = HashOf(TextOf(r.doc))
              /\ r.op.parent = Parent(Opened(d))
         /\ Dated(d) => Parent(Opened(d)) = IF d = NULL THEN ZeroHash ELSE HashOf(TextOf(d))
<1> DEFINE e == Opened(d)
<1>1. IsDoc(e)
  <2>1. d # NULL => IsDoc(d)
    BY DEF DocOrNone, MadeDoc
  <2> QED
    BY <2>1, NewDoc DEF Opened
<1>2. ASSUME Dated(d)
      PROVE  Parent(Opened(d)) = IF d = NULL THEN ZeroHash ELSE HashOf(TextOf(d))
  <2>1. CASE d = NULL
    <3>1. Opened(d).history = <<>>
      BY <2>1, NewDoc DEF Opened
    <3> QED
      BY <2>1, <3>1 DEF Parent
  <2>2. CASE d # NULL
    <3>1. d.history # <<>> /\ Opened(d) = d
      BY <2>2 DEF DocOrNone, MadeDoc, CleanDoc, Opened
    <3> QED
      BY <1>2, <2>2, <3>1 DEF Parent, Dated
  <2> QED
    BY <2>1, <2>2
<1> HIDE DEF e
<1>3. ASSUME r.err = "none"
      PROVE  /\ Dated(r.doc) /\ r.doc.history = Append(e.history, r.op)
             /\ r.op.hash = HashOf(TextOf(r.doc)) /\ r.op.parent = Parent(e)
  <2>1. r = ot_doc_append(e, op)
    BY DEF e
  <2> QED
    BY <1>1, <1>3, <2>1, AppendHashes DEF Dated
<1> QED
  BY <1>2, <1>3 DEF e

\* A history that is longer by an operation that spans its last text.
LEMMA ReplaysOn ==
  ASSUME NEW X, NEW h, IsSequence(h), Replays(X, h),
         NEW msg, msg # NULL, CleanOver(X, msg),
         NEW text \in Seq(X), msg.hash = HashOf(text),
         BaseLen(msg.comps) = Len(TextIn(h, Len(h))), OutLen(msg.comps) = Len(text),
         ApplyTo(msg.comps, TextIn(h, Len(h))) = text
  PROVE  /\ Replays(X, Append(h, msg))
         /\ \A n \in 0..Len(h) : TextIn(Append(h, msg), n) = TextIn(h, n)
         /\ \A n \in 0..Len(h) : HashIn(Append(h, msg), n) = HashIn(h, n)
         /\ TextIn(Append(h, msg), Len(h) + 1) = text
<1> DEFINE g == Append(h, msg)
           N == Len(h)
<1>1. /\ N \in Nat /\ Len(g) = N + 1 /\ g[N + 1] = msg
      /\ \A n \in 1..N : g[n] = h[n]
  BY AppendedSequence
<1> HIDE DEF g
<1>2. msg.hash[1] = text
  BY DEF HashOf
<1> HIDE DEF N
<1>3. /\ \A n \in 0..N : TextIn(g, n) = TextIn(h, n) /\ HashIn(g, n) = HashIn(h, n)
      /\ TextIn(g, N + 1) = text
  BY <1>1, <1>2 DEF TextIn, HashIn
<1>4. ASSUME NEW n \in 1..(N + 1)
      PROVE  /\ g[n] # NULL /\ CleanOver(X, g[n])
             /\ TextIn(g, n) \in Seq(X)
             /\ g[n].hash = HashOf(TextIn(g, n))
             /\ BaseLen(g[n].comps) = Len(TextIn(g, n - 1))
             /\ OutLen(g[n].comps) = Len(TextIn(g, n))
             /\ ApplyTo(g[n].comps, TextIn(g, n - 1)) = TextIn(g, n)
  <2>1. CASE n = N + 1
    <3>1. g[n] = msg /\ TextIn(g, n) = text /\ TextIn(g, n - 1) = TextIn(h, N)
      <4>1. n - 1 = N /\ N \in 0..N
        BY <1>1, <2>1
      <4> QED
        BY <1>1, <1>3, <2>1, <4>1
    <3> QED
      BY <3>1 DEF N
  <2>2. CASE n \in 1..N
    <3>1. n - 1 \in 0..N /\ n \in 0..N
      BY <1>1, <2>2
    <3>2. g[n] = h[n] /\ TextIn(g, n) = TextIn(h, n) /\ TextIn(g, n - 1) = TextIn(h, n - 1)
      BY <1>1, <1>3, <2>2, <3>1
    <3> QED
      BY <2>2, <3>2 DEF Replays, N
  <2> QED
    BY <1>1, <2>1, <2>2
<1>5. Replays(X, g)
  BY <1>1, <1>4 DEF Replays
<1> QED
  BY <1>3, <1>5 DEF g, N

ServerTells ==
  /\ Replays(Letters, History)
  /\ TextIn(History, Version) = TextOf(server_doc)

\* What is based on version n, as the server can tell.
BasedOn(op, n) ==
  /\ n \in 0..Version
  /\ op.parent = HashIn(History, n)
  /\ BaseLen(op.comps) = Len(TextIn(History, n))

\* The server refuses nothing that is based on one of its versions.
LEMMA ServerTakes ==
  ASSUME DocOrNone(server_doc), ServerTells, NEW op, op # NULL, Fine(op),
         NEW n, BasedOn(op, n), NEW r, r = Received(op)
  PROVE  /\ r.err = "none" /\ MadeDoc(r.doc) /\ Dated(r.doc)
         /\ r.op # NULL /\ Fine(r.op)
         /\ r.op.hash = HashOf(TextOf(r.doc))
         /\ BaseLen(r.op.comps) = Len(TextOf(server_doc))
         /\ OutLen(r.op.comps) = Len(TextOf(r.doc))
         /\ TextOf(r.doc) = ApplyTo(r.op.comps, TextOf(server_doc))
         /\ r.doc.history = Append(History, r.op)
<1> DEFINE d == server_doc
           e == Opened(d)
<1>1. History = e.history
  BY NewDoc DEF History, Opened
<1>2. ASSUME NEW x, Fine(x), BaseLen(x.comps) = Len(TextOf(server_doc)), r = ot_doc_append(e, x)
      PROVE  /\ r.err = "none" /\ MadeDoc(r.doc) /\ Dated(r.doc)
             /\ r.op # NULL /\ Fine(r.op)
             /\ r.op.hash = HashOf(TextOf(r.doc))
             /\ BaseLen(r.op.comps) = Len(TextOf(server_doc))
             /\ OutLen(r.op.comps) = Len(TextOf(r.doc))
             /\ TextOf(r.doc) = ApplyTo(r.op.comps, TextOf(server_doc))
             /\ r.doc.history = Append(History, r.op)
  <2>1. CanOpen(d, x)
    BY <1>2, EmptySequence DEF CanOpen, TextOf
  <2>2. /\ r.err = "none" /\ MadeDoc(r.doc)
        /\ TextOf(r.doc) = ApplyTo(x.comps, TextOf(d))
        /\ Len(TextOf(r.doc)) = OutLen(x.comps)
        /\ r.op.comps = x.comps /\ r.op # NULL
    BY <1>2, <2>1, AppendToAny
  <2>3. /\ Dated(r.doc) /\ r.doc.history = Append(e.history, r.op)
        /\ r.op.hash = HashOf(TextOf(r.doc))
    BY <1>2, <2>2, AppendDates
  <2> HIDE DEF e
  <2> QED
    BY <1>1, <1>2, <2>2, <2>3 DEF Fine, CleanOver
<1>3. CASE d = NULL
  <2>1. r = ot_doc_append(e, op)
    BY <1>3 DEF Received, ReceivedOn, append_op, Opened
  <2>2. Version = 0
    BY <1>3 DEF Version
  <2>3. n = 0
    BY <2>2 DEF BasedOn
  <2>4. BaseLen(op.comps) = Len(TextOf(d))
    BY <1>3, <2>3 DEF BasedOn, TextIn, TextOf
  <2> HIDE DEF e
  <2> QED
    BY <1>2, <2>1, <2>4
<1>4. CASE MadeDoc(d)
  <2> DEFINE h == d.history
  <2>1. /\ d # NULL /\ e = d /\ CleanDoc(Letters, d) /\ h = History /\ Version = Len(h)
        /\ Len(h) \in Nat
    <3>1. d # NULL
      BY <1>4, MadeDocText
    <3>2. IsSequence(h)
      BY <1>4 DEF MadeDoc, IsDoc
    <3>3. Len(h) \in Nat
      <4> HIDE DEF h
      <4> QED
        BY <3>2, AppendedSequence
    <3> QED
      BY <1>4, <3>1, <3>3 DEF MadeDoc, Opened, History, Version
  <2>2. /\ Len(h) \in 1..Len(h)
        /\ d.composed.hash = HashOf(TextOf(d)) /\ TextIn(h, Len(h)) = TextOf(d)
        /\ n \in 0..Len(h) /\ op.parent = HashIn(h, n) /\ BaseLen(op.comps) = Len(TextIn(h, n))
        /\ \A i \in 1..Len(h) : h[i].hash = HashOf(TextIn(h, i))
        /\ Replays(Letters, h)
    <3>1. /\ n \in 0..Len(h) /\ op.parent = HashIn(h, n) /\ BaseLen(op.comps) = Len(TextIn(h, n))
          /\ TextIn(h, Len(h)) = TextOf(d) /\ Replays(Letters, h)
      BY <2>1 DEF BasedOn, ServerTells
    <3>2. \A i \in 1..Len(h) : h[i].hash = HashOf(TextIn(h, i))
      BY <3>1 DEF Replays
    <3>3. h # <<>> /\ d.composed.hash = h[Len(h)].hash
      BY <2>1 DEF CleanDoc, Last
    <3> HIDE DEF h
    <3>4. Len(h) \in 1..Len(h)
      <4>1. h \in Seq(ToSet(h))
        BY <2>1 DEF CleanDoc, h
      <4>2. Len(h) # 0
        BY <3>3, <4>1
      <4> QED
        BY <2>1, <4>2
    <3> QED
      BY <3>1, <3>2, <3>3, <3>4
  <2>3. CASE can_append(d, op)
    <3>1. r = ot_doc_append(e, op)
      BY <2>1, <2>3 DEF Received, ReceivedOn, append_op
    <3>2. op.parent = HashOf(TextOf(d))
      BY <2>1, <2>2, <2>3 DEF can_append, CleanDoc
    <3>3. n # 0
      <4> SUFFICES ASSUME n = 0 PROVE FALSE
        OBVIOUS
      <4>1. op.parent = ZeroHash
        BY <2>2 DEF HashIn
      <4> QED
        BY <3>2, <4>1, NoTextHashesToZero
    <3>4. n \in 1..Len(h)
      BY <2>1, <2>2, <3>3
    <3>5. HashOf(TextIn(h, n)) = HashOf(TextOf(d))
      BY <2>2, <3>2, <3>3, <3>4 DEF HashIn
    <3>6. TextIn(h, n) = TextOf(d)
      BY <3>5 DEF HashOf
    <3>7. BaseLen(op.comps) = Len(TextOf(d))
      BY <2>2, <3>6
    <3> HIDE DEF e
    <3> QED
      BY <1>2, <3>1, <3>7
  <2>4. CASE ~can_append(d, op)
    <3> DEFINE since == ot_doc_compose_after(d, op.parent)
               x == xform(d, op)
    <3>1. op.parent # d.composed.hash
      BY <2>1, <2>4 DEF can_append, CleanDoc
    <3>2. Spans(Letters, since, Len(TextIn(h, n)), Len(TextOf(d)))
      <4>1. n \in 0..Len(d.history) /\ HashIn(d.history, n) # d.composed.hash
            /\ Replays(Letters, d.history) /\ op.parent = HashIn(d.history, n)
            /\ TextIn(d.history, Len(d.history)) = TextOf(d)
        BY <2>2, <3>1
      <4> QED
        BY <2>1, <4>1, SinceSpans
    <3>3. x = IF since = NULL THEN NULL ELSE ot_xform(since, op)[2]
      BY DEF xform, XformAfter
    <3> HIDE DEF since
    <3>4. since # NULL /\ CleanOver(Letters, since) /\ CleanOver(Letters, op)
          /\ BaseLen(since.comps) = BaseLen(op.comps) /\ OutLen(since.comps) = Len(TextOf(d))
      BY <2>2, <3>2 DEF Spans, Fine
    <3>5. PICK p1, p2 : /\ ot_xform(since, op) = <<p1, p2>>
                        /\ p1 # NULL /\ p2 # NULL
                        /\ CleanOver(Letters, p1) /\ CleanOver(Letters, p2)
                        /\ Merged(Letters, since.comps, op.comps, p1.comps, p2.comps)
      BY <3>4, XformOfClean
    <3>6. x = p2
      BY <3>3, <3>4, <3>5
    <3>7. x # NULL /\ Fine(x) /\ BaseLen(x.comps) = Len(TextOf(d))
      BY <3>4, <3>5, <3>6 DEF Merged, Fine
    <3>8. r = append_op(d, x)
      BY <2>1, <2>4 DEF Received, ReceivedOn
    <3> HIDE DEF x
    <3>9. r = ot_doc_append(e, x)
      BY <2>1, <3>7, <3>8 DEF append_op
    <3> HIDE DEF e
    <3> QED
      BY <1>2, <3>7, <3>9
  <2> QED
    BY <2>3, <2>4
<1> QED
  BY <1>3, <1>4 DEF DocOrNone

(***************************************************************************)
(* The invariant, again one client at a time.  Bridged is Bridge, with the *)
(* texts taken from the history; an operation under way is based on the    *)
(* version its author had, and is never lost; who has a document and waits *)
(* for nothing has seen something of the server's.                         *)
(***************************************************************************)
Bridged(k) ==
  LET base == TextIn(History, seen[k])
      sent == After(anticipated[k], base)
  IN  /\ anticipated[k] # NULL => BaseLen(anticipated[k].comps) = Len(base)
      /\ buffer[k] # NULL => BaseLen(buffer[k].comps) = Len(sent)
      /\ TextOf(doc[k]) = After(buffer[k], sent)

Begun(k) ==
  /\ seen[k] \in 0..Version
  /\ doc[k] = NULL => seen[k] = 0
  /\ doc[k] # NULL /\ ~ack_required[k] => seen[k] # 0

NotLost(k) ==
  /\ up[k] # <<>> => BasedOn(Head(up[k]), sentAt[k])
  /\ ack_required[k] => up[k] # <<>> \/ OwnIn(k, down[k]) # {}

EachBridged(k) == Dated(doc[k]) /\ Bridged(k) /\ Begun(k) /\ NotLost(k)

BridgeInv == ServerTells /\ \A k \in Clients : EachBridged(k)

\* What the invariant takes: the acknowledged operation does what the client
\* anticipated.  AckedAsAnticipated says more.
AckedAlike ==
  \A c \in Clients :
    down[c] # <<>> /\ IsOwn(c, Head(down[c])) =>
      LET base == TextIn(History, seen[c])
      IN  ApplyTo(Head(down[c]).comps, base) = ApplyTo(anticipated[c].comps, base)

LEMMA AckedAsAnticipatedIsAlike == AckedAsAnticipated => AckedAlike
BY DEF AckedAsAnticipated, AckedAlike

LEMMA ServerTextIs ==
  ASSUME NEW n \in 0..Version
  PROVE  ServerText(n) = TextIn(History, n)
<1>1. n # 0 => server_doc # NULL
  BY DEF Version
<1> QED
  BY <1>1 DEF ServerText, TextIn, History

LEMMA BridgedIsBridge == BridgeInv => Bridge
<1> SUFFICES ASSUME BridgeInv, NEW c \in Clients
             PROVE  LET base == ServerText(seen[c])
                        sent == After(anticipated[c], base)
                    IN  /\ anticipated[c] # NULL => BaseLen(anticipated[c].comps) = Len(base)
                        /\ buffer[c] # NULL => BaseLen(buffer[c].comps) = Len(sent)
                        /\ TextOf(doc[c]) = After(buffer[c], sent)
  BY DEF Bridge
<1>1. seen[c] \in 0..Version /\ Bridged(c)
  BY DEF BridgeInv, EachBridged, Begun
<1>2. ServerText(seen[c]) = TextIn(History, seen[c])
  BY <1>1, ServerTextIs
<1> QED
  BY <1>1, <1>2 DEF Bridged

\* A client to which everything is delivered has seen the newest version and,
\* as nothing was lost, waits for nothing.
LEMMA BridgedSettles ==
  ASSUME OrderInv, BridgeInv, NEW c \in Clients, up[c] = <<>>, down[c] = <<>>
  PROVE  TextOf(doc[c]) = TextOf(server_doc) /\ ~ack_required[c]
<1>1. PICK at : Numbers(at, down[c], seen[c], History)
  BY DEF OrderInv, RestUnderWay
<1>2. seen[c] = Version
  BY <1>1, EmptySequence, AuthorsOfHistory DEF Numbers
<1>3. ~ack_required[c]
  <2>1. OwnIn(c, down[c]) = {}
    BY EmptySequence DEF OwnIn
  <2> QED
    BY <2>1 DEF BridgeInv, EachBridged, NotLost
<1>4. anticipated[c] = NULL /\ buffer[c] = NULL
  BY <1>3, ControlByClient DEF OrderInv, EachClient, Each, Discipline
<1>5. TextOf(doc[c]) = TextIn(History, Version)
  BY <1>2, <1>4 DEF BridgeInv, EachBridged, Bridged, After
<1> QED
  BY <1>3, <1>5 DEF BridgeInv, ServerTells

LEMMA BridgedConverges == OrderInv /\ BridgeInv => Converged
BY BridgedSettles DEF Converged, Quiet

\* The part of the state that EachBridged(k) speaks of.
BridgeStateOf(k) == <<StateOf(k), doc[k], seen[k], sentAt[k]>>

LEMMA EachBridgedUnchanged ==
  ASSUME NEW k, EachBridged(k), UNCHANGED <<BridgeStateOf(k), server_doc>>
  PROVE  EachBridged(k)'
<1>1. UNCHANGED <<History, Version>>
  BY DEF History, Version
<1> QED
  BY <1>1 DEF EachBridged, BridgeStateOf, StateOf, Bridged, Begun, NotLost, BasedOn, OwnIn

-----------------------------------------------------------------------------
LEMMA ServerStepKeepsBridge ==
  ASSUME OrderInv, TextInv, BridgeInv, NEW c \in Clients, ServerStep(c)
  PROVE  BridgeInv'
<1> DEFINE op == Head(up[c])
           h == History
<1>1. /\ Shape /\ (\A k \in Clients : Each(k)) /\ DocOrNone(server_doc) /\ ServerTells
      /\ \A k \in Clients : EachBridged(k)
      /\ FineQueue(up[c])
  BY ControlByClient DEF OrderInv, EachClient, TextInv, EachText, BridgeInv
<1>2. /\ up[c] # <<>> /\ up' = [up EXCEPT ![c] = Tail(up[c])]
      /\ UNCHANGED <<doc, ack_required, anticipated, buffer, seen, sentAt>>
  BY DEF ServerStep, ot_server_receive, TakeUp, clientVars
<1>3. IsSequence(up[c]) /\ op = up[c][1] /\ 1 \in DOMAIN up[c]
  BY <1>1, <1>2, TailOfSequence DEF Each, UpTyped
<1>4. IsOp(op) /\ op.client_id = c
  BY <1>1, <1>3 DEF Each, UpTyped
<1>5. op # NULL /\ Fine(op)
  <2>1. ~IsError(op) /\ op # NULL
    BY <1>4 DEF IsOp, IsError, NULL
  <2> QED
    BY <1>1, <1>2, <1>3, <2>1, FineTail
<1>6. BasedOn(op, sentAt[c])
  BY <1>1, <1>2 DEF EachBridged, NotLost
<1> HIDE DEF op
<1>7. PICK r : /\ r = Received(op)
               /\ server_doc' = r.doc
               /\ \/ r.err = "none" /\ Broadcast(r.op)
                  \/ r.err # "none" /\ Broadcast(ErrorMsg(r.err))
  BY DEF ServerStep, ot_server_receive, op
<1> DEFINE msg == r.op
           text == TextOf(r.doc)
<1>8. /\ r.err = "none" /\ MadeDoc(r.doc)
      /\ msg # NULL /\ Fine(msg)
      /\ msg.hash = HashOf(text)
      /\ BaseLen(msg.comps) = Len(TextOf(server_doc))
      /\ OutLen(msg.comps) = Len(text)
      /\ text = ApplyTo(msg.comps, TextOf(server_doc))
      /\ r.doc.history = Append(h, msg)
  BY <1>1, <1>5, <1>6, <1>7, ServerTakes
<1>9. text \in Seq(Letters) /\ r.doc # NULL
  BY <1>8, MadeDocText
<1>10. ~IsError(msg) /\ msg.client_id = c
  <2>1. IsOp(msg) /\ msg.client_id = op.client_id
    BY <1>7, <1>8, ServerResult
  <2> QED
    BY <1>4, <2>1, OpsAreNoErrors DEF op
<1>11. /\ down' = [k \in Clients |-> Append(down[k], msg)]
       /\ History' = Append(h, msg) /\ TextOf(server_doc)' = text
  BY <1>7, <1>8, <1>9 DEF Broadcast, History, TextOf
<1> HIDE DEF msg, text
<1>12. /\ IsSequence(h) /\ Version = Len(h) /\ Len(h) \in Nat
       /\ Version' = Len(h) + 1
  <2>1. IsSequence(h)
    BY HistoryIsASequence DEF OrderInv
  <2>2. Len(h) \in Nat /\ Len(Append(h, msg)) = Len(h) + 1
    BY <2>1, AppendedSequence
  <2>3. Version = Len(h) /\ Version' = Len(History')
    BY AuthorsOfHistoryNext
  <2> QED
    BY <1>11, <2>1, <2>2, <2>3
<1>13. /\ Replays(Letters, History')
       /\ \A n \in 0..Version : TextIn(History', n) = TextIn(h, n) /\ HashIn(History', n) = HashIn(h, n)
       /\ TextIn(History', Version') = text
  <2>1. Replays(Letters, h) /\ TextIn(h, Len(h)) = TextOf(server_doc)
    BY <1>1, <1>12 DEF ServerTells
  <2> HIDE DEF h
  <2>2. /\ Replays(Letters, Append(h, msg))
        /\ \A n \in 0..Len(h) : TextIn(Append(h, msg), n) = TextIn(h, n)
        /\ \A n \in 0..Len(h) : HashIn(Append(h, msg), n) = HashIn(h, n)
        /\ TextIn(Append(h, msg), Len(h) + 1) = text
    BY <1>8, <1>9, <1>12, <2>1, ReplaysOn DEF Fine
  <2> QED
    BY <1>11, <1>12, <2>2
<1>14. ServerTells'
  BY <1>11, <1>13 DEF ServerTells
<1>15. ASSUME NEW k \in Clients
       PROVE  EachBridged(k)'
  <2>1. /\ EachBridged(k) /\ IsSequence(down[k]) /\ down'[k] = Append(down[k], msg)
        /\ UNCHANGED <<doc, ack_required, anticipated, buffer, seen, sentAt>>
    BY <1>1, <1>2, <1>11 DEF Each, DownTyped
  <2>2. Dated(doc[k])' /\ Begun(k)'
    BY <1>12, <2>1 DEF EachBridged, Begun
  <2>3. TextIn(History', seen'[k]) = TextIn(h, seen[k])
    BY <1>13, <2>1 DEF EachBridged, Begun
  <2>4. Bridged(k)'
    BY <2>1, <2>3 DEF EachBridged, Bridged
  <2>5. up'[k] # <<>> => k # c /\ up'[k] = up[k]
    <3>1. CASE k = c
      <4>1. Len(up[c]) <= 1
        BY <1>1, <1>2 DEF Each, Flight
      <4> QED
        BY <1>1, <1>2, <1>3, <3>1, <4>1, TailOfOne DEF Shape
    <3>2. CASE k # c
      BY <1>1, <1>2, <3>2 DEF Shape
    <3> QED
      BY <3>1, <3>2
  <2>6. up'[k] # <<>> => BasedOn(Head(up[k]), sentAt[k])'
    <3> SUFFICES ASSUME up'[k] # <<>> PROVE BasedOn(Head(up[k]), sentAt[k])'
      OBVIOUS
    <3>1. up'[k] = up[k] /\ up[k] # <<>>
      BY <2>5
    <3>2. BasedOn(Head(up[k]), sentAt[k])
      BY <2>1, <3>1 DEF EachBridged, NotLost
    <3> QED
      BY <1>12, <1>13, <2>1, <3>1, <3>2 DEF BasedOn
  <2>7. ack_required'[k] => up'[k] # <<>> \/ OwnIn(k, down'[k]) # {}
    <3> SUFFICES ASSUME ack_required[k] PROVE up'[k] # <<>> \/ OwnIn(k, down'[k]) # {}
      BY <2>1
    <3>1. OwnIn(k, down'[k]) =
            OwnIn(k, down[k]) \cup (IF IsOwn(k, msg) THEN {Len(down[k]) + 1} ELSE {})
      BY <2>1, OwnAfterAppend, ZenonT(60)
    <3>2. k = c => IsOwn(k, msg)
      BY <1>10 DEF IsOwn, msg
    <3>3. k # c => up'[k] = up[k]
      BY <1>1, <1>2 DEF Shape
    <3>4. up[k] # <<>> \/ OwnIn(k, down[k]) # {}
      BY <2>1 DEF EachBridged, NotLost
    <3> QED
      BY <3>1, <3>2, <3>3, <3>4
  <2>8. NotLost(k)'
    BY <2>6, <2>7 DEF NotLost, OwnIn
  <2> QED
    BY <2>2, <2>4, <2>8 DEF EachBridged
<1> QED
  BY <1>14, <1>15 DEF BridgeInv
(***************************************************************************)
(* An editor's operation follows on what its client holds back, and on     *)
(* what the client has seen when it holds nothing back.                    *)
(***************************************************************************)
LEMMA TextSeen ==
  ASSUME BridgeInv, TextInv, Control, NEW c \in Clients
  PROVE  /\ TextIn(History, seen[c]) \in Seq(Letters)
         /\ After(anticipated[c], TextIn(History, seen[c])) \in Seq(Letters)
         /\ anticipated[c] # NULL =>
              OutLen(anticipated[c].comps) = Len(After(anticipated[c], TextIn(History, seen[c])))
         /\ seen[c] # 0 =>
              History[seen[c]].hash = HashOf(TextIn(History, seen[c]))
<1> DEFINE n == seen[c]
           base == TextIn(History, n)
           a == anticipated[c]
<1>1. /\ Replays(Letters, History) /\ n \in 0..Version /\ Version = Len(History)
      /\ a # NULL => Fine(a) /\ BaseLen(a.comps) = Len(base)
  <2>1. Bridged(c) /\ Begun(c) /\ FineHeld(c)
    BY DEF BridgeInv, EachBridged, TextInv, EachText
  <2>2. a # NULL => Fine(a) /\ BaseLen(a.comps) = Len(base)
    BY <2>1 DEF Bridged, FineHeld
  <2> QED
    BY <2>1, <2>2, AuthorsOfHistory DEF BridgeInv, ServerTells, Begun
<1>2. base \in Seq(Letters) /\ (n # 0 => History[n].hash = HashOf(base))
  <2>1. CASE n = 0
    BY <2>1 DEF TextIn
  <2>2. CASE n # 0
    <3>1. n \in 1..Len(History)
      BY <1>1, <2>2
    <3> QED
      BY <1>1, <2>2, <3>1 DEF Replays
  <2> QED
    BY <2>1, <2>2
<1> HIDE DEF base
<1>3. CASE a = NULL
  BY <1>2, <1>3 DEF After, base
<1>4. CASE a # NULL
  <2> DEFINE p == a.comps
  <2>1. p \in OperationsOver(Letters) /\ BaseLen(p) = Len(base)
    BY <1>1, <1>4 DEF Fine, CleanOver
  <2>2. After(a, base) = ApplyTo(p, base)
    BY <1>4 DEF After
  <2> HIDE DEF p
  <2>3. ApplyTo(p, base) \in Seq(Letters)
    BY <1>2, <2>1, MadeIsText
  <2>4. BaseLen(p) <= Len(base)
    BY <1>2, <2>1
  <2>5. Len(ApplyTo(p, base)) = OutLen(p)
    BY <1>2, <2>1, <2>4, MadeLength
  <2> QED
    BY <1>2, <2>2, <2>3, <2>5 DEF p, base
<1> QED
  BY <1>3, <1>4

LEMMA SentIsBased ==
  ASSUME Control, NEW c \in Clients, up[c] = <<>>, NEW op, NEW parent, NEW version,
         send_buffer(c, op, parent, version),
         NEW comps, op.comps = comps,
         UNCHANGED server_doc, version \in 0..Version, parent = HashIn(History, version),
         BaseLen(comps) = Len(TextIn(History, version))
  PROVE  NotLost(c)' /\ up'[c] # <<>>
<1> DEFINE msg == Op(op.client_id, parent, op.hash, op.comps)
<1>1. Shape /\ IsSequence(up[c]) /\ Control
  BY ControlByClient DEF EachClient, Each, UpTyped
<1>2. msg.parent = parent /\ msg.comps = comps
  BY DEF Op
<1>3. /\ up' = [up EXCEPT ![c] = Append(up[c], msg)]
      /\ sentAt' = [sentAt EXCEPT ![c] = version]
  BY DEF send_buffer
<1> HIDE DEF msg
<1>4. c \in DOMAIN sentAt
  BY DEF Control, TypeOK
<1>5. up'[c] = Append(<<>>, msg) /\ sentAt'[c] = version
  BY <1>1, <1>3, <1>4 DEF Shape
<1>6. up'[c] # <<>> /\ Head(up'[c]) = msg
  BY <1>5
<1>7. UNCHANGED <<History, Version>>
  BY DEF History, Version
<1>8. BasedOn(Head(up[c]), sentAt[c])'
  BY <1>2, <1>5, <1>6, <1>7 DEF BasedOn
<1> QED
  BY <1>6, <1>8 DEF NotLost

LEMMA ApplyKeepsBridge ==
  ASSUME OrderInv, TextInv, BridgeInv, NEW c \in Clients, NEW comps,
         Fine(Op(c, ZeroHash, ZeroHash, comps)), CanOpen(doc[c], Op(c, ZeroHash, ZeroHash, comps)),
         ot_client_apply(c, comps), UNCHANGED server_doc
  PROVE  BridgeInv'
<1> DEFINE op == Op(c, ZeroHash, ZeroHash, comps)
           d == doc[c]
           base == TextIn(History, seen[c])
           sent == After(anticipated[c], base)
<1>1. /\ Shape /\ EachText(c) /\ Each(c) /\ EachBridged(c) /\ Control /\ ServerTells
      /\ \A k \in Clients : EachBridged(k)
  BY ControlByClient DEF OrderInv, EachClient, TextInv, BridgeInv
<1>2. PICK r, buffered :
        /\ r = ot_doc_append(Opened(doc[c]), Op(c, ZeroHash, ZeroHash, comps))
        /\ buffered = Buffered(c, r)
        /\ doc' = [doc EXCEPT ![c] = r.doc]
        /\ UNCHANGED <<down, seen>>
        /\ \/ /\ buffered = NULL
              /\ UNCHANGED <<up, ack_required, anticipated, buffer, sentAt>>
           \/ /\ buffered # NULL
              /\ ack_required[c]
              /\ buffer' = [buffer EXCEPT ![c] = buffered]
              /\ UNCHANGED <<up, ack_required, anticipated, sentAt>>
           \/ /\ buffered # NULL
              /\ ~ack_required[c]
              /\ send_buffer(c, buffered, buffered.parent, seen[c])
  BY DEF ot_client_apply
<1>3. op.comps = comps /\ DocOrNone(d) /\ r = ot_doc_append(Opened(d), op)
  BY <1>1, <1>2 DEF Op, EachText
<1>4. /\ doc'[c] = r.doc /\ (\A k \in Clients \ {c} : doc'[k] = doc[k])
      /\ UNCHANGED <<History, Version>>
  BY <1>1, <1>2 DEF Shape, History, Version
<1>5. ServerTells'
  BY <1>1, <1>4 DEF ServerTells
<1>6. ASSUME NEW k \in Clients \ {c} PROVE EachBridged(k)'
  <2>1. c \in DOMAIN sentAt /\ \A x : [sentAt EXCEPT ![c] = x][k] = sentAt[k]
    BY <1>1, <1>6 DEF Control, TypeOK
  <2>2. UNCHANGED <<up[k], down[k], ack_required[k], anticipated[k], buffer[k],
                    doc[k], seen[k], sentAt[k]>>
    BY <1>1, <1>2, <1>4, <1>6, <2>1 DEF Shape, send_buffer
  <2> QED
    BY <1>1, <1>6, <2>2, EachBridgedUnchanged DEF BridgeStateOf, StateOf
<1> HIDE DEF op
<1>7. CASE BaseLen(comps) # Len(TextOf(d))
  <2>1. r.err # "none" /\ r.doc = d
    BY <1>3, <1>7, AppendToAny DEF op
  <2>2. buffered = NULL
    BY <1>2, <2>1 DEF Buffered
  <2>3. UNCHANGED BridgeStateOf(c)
    BY <1>2, <1>4, <2>1, <2>2 DEF BridgeStateOf, StateOf
  <2>4. EachBridged(c)'
    BY <1>1, <2>3, EachBridgedUnchanged
  <2> QED
    BY <1>5, <1>6, <2>4 DEF BridgeInv
<1>8. CASE BaseLen(comps) = Len(TextOf(d))
  <2>1. /\ r.err = "none" /\ MadeDoc(r.doc) /\ r.doc # NULL
        /\ TextOf(r.doc) = ApplyTo(comps, TextOf(d))
        /\ r.op.comps = comps /\ r.op # NULL
    <3>1. /\ r.err = "none" /\ MadeDoc(r.doc)
          /\ TextOf(r.doc) = ApplyTo(comps, TextOf(d))
          /\ r.op.comps = comps /\ r.op # NULL
      BY <1>3, <1>8, AppendToAny DEF op
    <3> QED
      BY <3>1, MadeDocText
  <2>2. /\ Dated(r.doc)
        /\ r.op.parent = IF d = NULL THEN ZeroHash ELSE HashOf(TextOf(d))
    BY <1>1, <1>3, <2>1, AppendDates DEF EachBridged
  <2>3. Fine(r.op)
    BY <1>3, <2>1 DEF Fine, CleanOver, op
  <2> DEFINE copy == ot_dup_op(r.op)
  <2>14. /\ Fine(copy) /\ copy # NULL /\ copy.parent = r.op.parent
         /\ BaseLen(copy.comps) = BaseLen(comps)
         /\ \A text \in Seq(Letters) : ApplyTo(copy.comps, text) = ApplyTo(comps, text)
    BY <2>1, <2>3, CopyIsFine, CopyIsStamped DEF SameWork
  <2> HIDE DEF copy
  <2>4. Begun(c) /\ Bridged(c) /\ NotLost(c)
    BY <1>1 DEF EachBridged
  <2>5. /\ base \in Seq(Letters) /\ sent \in Seq(Letters)
        /\ seen[c] # 0 => History[seen[c]].hash = HashOf(base)
    BY <1>1, TextSeen
  <2>6. /\ doc'[c] # NULL /\ Dated(doc'[c]) /\ TextOf(doc'[c]) = ApplyTo(comps, TextOf(d))
        /\ seen' = seen /\ TextIn(History', seen'[c]) = base
    BY <1>2, <1>4, <2>1, <2>2
  <2>7. /\ ack_required[c] <=> anticipated[c] # NULL
        /\ buffer[c] # NULL => ack_required[c] /\ Fine(buffer[c])
        /\ up[c] # <<>> => ack_required[c]
        /\ buffer[c] # NULL => OutLen(buffer[c].comps) = Len(TextOf(d))
        /\ DOMAIN ack_required = Clients /\ DOMAIN buffer = Clients /\ DOMAIN anticipated = Clients
    BY <1>1 DEF Each, Discipline, Flight, EachText, FineHeld, Follows, Shape
  <2>8. /\ anticipated[c] # NULL => BaseLen(anticipated[c].comps) = Len(base)
        /\ buffer[c] # NULL => BaseLen(buffer[c].comps) = Len(sent)
        /\ TextOf(d) = After(buffer[c], sent)
    BY <2>4 DEF Bridged
  <2> HIDE DEF d
  <2>9. ASSUME ack_required[c], buffered # NULL
        PROVE  ack_required'[c] = ack_required[c] /\ Bridged(c)' /\ NotLost(c)'
    <3>1. /\ buffer' = [buffer EXCEPT ![c] = buffered]
          /\ UNCHANGED <<up, ack_required, anticipated, sentAt>>
      BY <1>2, <2>9
    <3>2. buffer'[c] = buffered /\ ack_required'[c] = ack_required[c] /\ anticipated'[c] = anticipated[c]
      BY <2>7, <3>1
    <3>3. NotLost(c)'
      BY <1>2, <1>4, <2>4, <3>1 DEF NotLost, BasedOn, OwnIn
    <3>4. After(anticipated'[c], TextIn(History', seen'[c])) = sent
      BY <2>6, <3>2
    <3>5. CASE buffer[c] = NULL
      <4>1. buffered = copy
        BY <1>2, <2>1, <3>5 DEF Buffered, copy
      <4>2. TextOf(d) = sent
        BY <2>8, <3>5 DEF After
      <4>3. BaseLen(buffered.comps) = Len(sent) /\ TextOf(doc'[c]) = After(buffered, sent)
        BY <1>8, <2>5, <2>6, <2>9, <2>14, <4>1, <4>2 DEF After, d
      <4> HIDE DEF sent, base
      <4>4. Bridged(c)'
        BY <2>6, <2>8, <3>2, <3>4, <4>3 DEF Bridged
      <4> QED
        BY <2>9, <3>2, <3>3, <4>4
    <3>6. CASE buffer[c] # NULL
      <4>1. buffered = ot_compose(buffer[c], r.op)
        BY <1>2, <2>1, <3>6 DEF Buffered
      <4>2. OutLen(buffer[c].comps) = BaseLen(r.op.comps)
        BY <1>8, <2>1, <2>7, <3>6 DEF d
      <4>3. InSequence(Letters, buffer[c].comps, r.op.comps, buffered.comps)
        BY <2>3, <2>7, <3>6, <4>1, <4>2, ComposeOfClean DEF Fine
      <4> HIDE DEF sent, base
      <4>4. BaseLen(buffer[c].comps) = Len(sent) /\ TextOf(d) = ApplyTo(buffer[c].comps, sent)
        BY <2>8, <3>6 DEF After
      <4>5. ApplyTo(buffered.comps, sent) = ApplyTo(comps, TextOf(d))
        BY <2>1, <2>5, <4>3, <4>4 DEF InSequence
      <4>6. BaseLen(buffered.comps) = Len(sent) /\ TextOf(doc'[c]) = After(buffered, sent)
        BY <2>6, <2>9, <4>3, <4>4, <4>5 DEF After, InSequence
      <4>7. Bridged(c)'
        BY <2>6, <2>8, <3>2, <3>4, <4>6 DEF Bridged
      <4> QED
        BY <2>9, <3>2, <3>3, <4>7
    <3> QED
      BY <3>5, <3>6
  <2>10. ASSUME ~ack_required[c]
         PROVE  ack_required'[c] = TRUE /\ Bridged(c)' /\ NotLost(c)'
    <3>1. buffer[c] = NULL /\ anticipated[c] = NULL /\ up[c] = <<>> /\ TextOf(d) = base
      BY <2>7, <2>8, <2>10 DEF After, sent
    <3>2. buffered = copy
      BY <1>2, <2>1, <3>1 DEF Buffered, copy
    <3>3. send_buffer(c, buffered, buffered.parent, seen[c])
      BY <1>2, <2>14, <2>10, <3>2
    <3>4. /\ BaseLen(anticipated'[c].comps) = BaseLen(comps)
          /\ \A text \in Seq(Letters) : ApplyTo(anticipated'[c].comps, text) = ApplyTo(comps, text)
          /\ anticipated'[c] # NULL /\ buffer'[c] = NULL
          /\ ack_required'[c] = TRUE
      <4>1. FineQueue(up[c]) /\ Fine(buffered) /\ Control
        BY <1>1, <2>14, <3>2 DEF EachText
      <4>2. /\ SameWork(buffered, anticipated'[c]) /\ anticipated'[c] # NULL
            /\ buffer'[c] = NULL /\ ack_required'[c] = TRUE
        BY <3>3, <4>1, SentIsFine
      <4>3. /\ BaseLen(buffered.comps) = BaseLen(comps)
            /\ \A text \in Seq(Letters) : ApplyTo(buffered.comps, text) = ApplyTo(comps, text)
        BY <2>14, <3>2
      <4> QED
        BY <4>2, <4>3 DEF SameWork
    <3>5. BaseLen(comps) = Len(base)
      BY <1>8, <3>1 DEF d
    <3>6. seen[c] \in 0..Version /\ buffered.parent = HashIn(History, seen[c])
      <4>1. CASE seen[c] = 0
        <5>1. d = NULL
          BY <2>4, <2>10, <4>1 DEF Begun, d
        <5> QED
          BY <2>2, <2>4, <2>14, <3>2, <4>1, <5>1 DEF HashIn, Begun
      <4>2. CASE seen[c] # 0
        <5>1. d # NULL
          BY <2>4, <4>2 DEF Begun, d
        <5> QED
          BY <2>2, <2>4, <2>5, <2>14, <3>1, <3>2, <4>2, <5>1 DEF HashIn, Begun
      <4> QED
        BY <4>1, <4>2
    <3>7. NotLost(c)'
      <4>1. BaseLen(copy.comps) = Len(TextIn(History, seen[c])) /\ buffered.comps = copy.comps
        BY <2>14, <3>2, <3>5 DEF base
      <4> QED
        BY <1>1, <3>1, <3>3, <3>6, <4>1, SentIsBased
    <3> HIDE DEF base
    <3>8. TextOf(doc'[c]) = ApplyTo(comps, base)
      BY <2>6, <3>1
    <3>9. Bridged(c)'
      BY <2>5, <2>6, <3>4, <3>5, <3>8 DEF Bridged, After
    <3> QED
      BY <3>4, <3>7, <3>9
  <2>11. ack_required[c] => buffered # NULL
    <3>1. CASE buffer[c] = NULL
      BY <1>2, <2>1, <2>14, <3>1 DEF Buffered, copy
    <3>2. CASE buffer[c] # NULL
      <4>1. buffered = ot_compose(buffer[c], r.op)
        BY <1>2, <2>1, <3>2 DEF Buffered
      <4>2. OutLen(buffer[c].comps) = BaseLen(r.op.comps)
        BY <1>8, <2>1, <2>7, <3>2 DEF d
      <4> QED
        BY <2>3, <2>7, <3>2, <4>1, <4>2, ComposeOfClean DEF Fine
    <3> QED
      BY <3>1, <3>2
  <2>12. ack_required'[c] = TRUE /\ Bridged(c)' /\ NotLost(c)'
    <3>1. ack_required[c] \in BOOLEAN
      BY <1>1 DEF Control, TypeOK
    <3> QED
      BY <2>9, <2>10, <2>11, <3>1
  <2>13. EachBridged(c)'
    BY <1>4, <2>4, <2>6, <2>12 DEF EachBridged, Begun
  <2> QED
    BY <1>5, <1>6, <2>13 DEF BridgeInv
<1> QED
  BY <1>7, <1>8
(***************************************************************************)
(* A client receives.  The message is the operation of the history that    *)
(* follows what it has seen.                                               *)
(***************************************************************************)
LEMMA TakenBridge ==
  ASSUME OrderInv, TextInv, BridgeInv, NEW c \in Clients, TakeDown(c), ~IsError(Head(down[c])),
         UNCHANGED server_doc, seen' = [seen EXCEPT ![c] = @ + 1]
  PROVE  LET msg == Head(down[c])
             base == TextIn(History, seen[c])
             next == TextIn(History', seen'[c])
         IN  /\ seen'[c] = seen[c] + 1 /\ seen'[c] \in 1..Version /\ Version \in Nat
             /\ msg = History[seen'[c]]
             /\ msg # NULL /\ Fine(msg) /\ msg.hash = HashIn(History, seen'[c])
             /\ base \in Seq(Letters) /\ next \in Seq(Letters)
             /\ BaseLen(msg.comps) = Len(base) /\ OutLen(msg.comps) = Len(next)
             /\ ApplyTo(msg.comps, base) = next
             /\ ServerTells' /\ UNCHANGED <<History, Version>>
<1> DEFINE msg == Head(down[c])
           n == seen'[c]
<1>1. seen' = [seen EXCEPT ![c] = IF IsError(Head(down[c])) THEN @ ELSE @ + 1]
  OBVIOUS
<1>2. /\ n = seen[c] + 1 /\ n \in 1..Len(History) /\ msg = History[n]
  BY <1>1, TakenMessage
<1>3. UNCHANGED <<History, Version>> /\ Version = Len(History)
  BY AuthorsOfHistory DEF History, Version
<1>4. Replays(Letters, History) /\ ServerTells'
  BY <1>3 DEF BridgeInv, ServerTells
<1>5. seen[c] \in Nat
  BY DEF BridgeInv, EachBridged, Begun
<1>9. Version \in Nat
  BY <1>3, HistoryIsASequence, AppendedSequence DEF OrderInv
<1> HIDE DEF n
<1>6. n - 1 = seen[c] /\ n # 0
  BY <1>2, <1>5
<1>7. /\ msg # NULL /\ Fine(msg) /\ msg.hash = HashIn(History, n)
      /\ TextIn(History, n) \in Seq(Letters)
      /\ BaseLen(msg.comps) = Len(TextIn(History, seen[c]))
      /\ OutLen(msg.comps) = Len(TextIn(History, n))
      /\ ApplyTo(msg.comps, TextIn(History, seen[c])) = TextIn(History, n)
  <2> HIDE DEF msg
  <2> QED
    BY <1>2, <1>4, <1>6 DEF Replays, HashIn, Fine
<1>8. TextIn(History, seen[c]) \in Seq(Letters)
  BY TextSeen DEF OrderInv
<1> QED
  BY <1>2, <1>3, <1>4, <1>7, <1>8, <1>9 DEF n

LEMMA OthersStayBridged ==
  ASSUME OrderInv, BridgeInv, NEW c \in Clients,
         \A k \in Clients \ {c} : UNCHANGED BridgeStateOf(k),
         UNCHANGED server_doc, EachBridged(c)'
  PROVE  BridgeInv'
<1>1. ServerTells /\ \A k \in Clients : EachBridged(k)
  BY DEF BridgeInv
<1>2. \A k \in Clients \ {c} : EachBridged(k)'
  BY <1>1, EachBridgedUnchanged
<1>3. ServerTells'
  BY <1>1 DEF ServerTells, History, Version
<1> QED
  BY <1>2, <1>3 DEF BridgeInv

LEMMA ReceiveErrorKeepsBridge ==
  ASSUME OrderInv, TextInv, BridgeInv, NEW c \in Clients, ReceiveError(c), UNCHANGED server_doc
  PROVE  BridgeInv'
<1>1. /\ TakeDown(c) /\ IsError(Head(down[c]))
      /\ UNCHANGED <<up, doc, ack_required, anticipated, buffer, seen, sentAt>>
  BY DEF ReceiveError
<1>2. /\ Shape /\ Each(c) /\ EachBridged(c)
  BY ControlByClient DEF OrderInv, EachClient, BridgeInv
<1>3. /\ IsSequence(down[c]) /\ down[c] # <<>> /\ down' = [down EXCEPT ![c] = Tail(down[c])]
  BY <1>1, <1>2 DEF Each, DownTyped, TakeDown
<1>4. down'[c] = Tail(down[c]) /\ \A k \in Clients \ {c} : down'[k] = down[k]
  BY <1>2, <1>3 DEF Shape
<1>5. OwnIn(c, down'[c]) # {} <=> OwnIn(c, down[c]) # {}
  <2>1. ~IsOwn(c, Head(down[c]))
    BY <1>1 DEF IsOwn
  <2> QED
    BY <1>3, <1>4, <2>1, OwnAfterOther
<1>6. UNCHANGED <<History, Version>>
  BY DEF History, Version
<1>7. EachBridged(c)'
  BY <1>1, <1>2, <1>5, <1>6
     DEF EachBridged, Bridged, Begun, NotLost, BasedOn, OwnIn
<1>8. \A k \in Clients \ {c} : UNCHANGED BridgeStateOf(k)
  BY <1>1, <1>4 DEF BridgeStateOf, StateOf
<1> QED
  BY <1>7, <1>8, OthersStayBridged

\* The acknowledged operation leads the server's text to where the
\* anticipated one led the client's.
LEMMA ReceiveAckKeepsBridge ==
  ASSUME OrderInv, TextInv, BridgeInv, AckedAlike,
         NEW c \in Clients, ReceiveAck(c), UNCHANGED server_doc
  PROVE  BridgeInv'
<1> DEFINE msg == Head(down[c])
           base == TextIn(History, seen[c])
           next == TextIn(History', seen'[c])
           sent == After(anticipated[c], base)
<1>1. /\ TakeDown(c) /\ ~IsError(msg) /\ IsOwn(c, msg) /\ UNCHANGED doc
      /\ seen' = [seen EXCEPT ![c] = @ + 1]
      /\ Shape /\ Each(c) /\ EachBridged(c) /\ EachText(c) /\ Control
  BY ControlByClient DEF ReceiveAck, IsOwn, EachClient, OrderInv, BridgeInv, TextInv
<1>2. /\ seen'[c] = seen[c] + 1 /\ seen'[c] \in 1..Version /\ Version \in Nat
      /\ msg.hash = HashIn(History, seen'[c])
      /\ ApplyTo(msg.comps, base) = next
      /\ UNCHANGED <<History, Version>>
  BY <1>1, TakenBridge
<1>3. /\ IsSequence(down[c]) /\ down[c] # <<>> /\ down' = [down EXCEPT ![c] = Tail(down[c])]
  BY <1>1 DEF Each, DownTyped, TakeDown
<1>4. /\ \A k \in Clients \ {c} : down'[k] = down[k] /\ seen'[k] = seen[k]
  BY <1>1, <1>3 DEF Shape
<1>5. ack_required[c] /\ up[c] = <<>> /\ anticipated[c] # NULL
  <2>1. OwnIn(c, down[c]) # {}
    BY <1>1, TakeDownKeepsQueue DEF Each
  <2> QED
    BY <1>1, <2>1 DEF Each, Flight, Discipline
<1>6. ApplyTo(msg.comps, base) = ApplyTo(anticipated[c].comps, base)
  BY <1>1, <1>3 DEF AckedAlike
<1>7. sent = next
  BY <1>2, <1>5, <1>6 DEF After
<1>12. sent \in Seq(Letters)
  BY <1>1, TextSeen
<1>8. Dated(doc'[c]) /\ Begun(c)'
  <2>1. doc'[c] = doc[c] /\ Version' = Version
    BY <1>1, <1>2
  <2>2. Dated(doc[c]) /\ Unopened(c)
    BY <1>1 DEF EachBridged, EachText
  <2>3. doc[c] # NULL
    BY <1>5, <2>2 DEF Unopened
  <2>4. seen'[c] \in 0..Version /\ seen'[c] # 0
    BY <1>2
  <2> HIDE DEF msg, base, next, sent
  <2>5. Dated(doc'[c])
    BY <2>1, <2>2
  <2>6. Begun(c)'
    BY <2>1, <2>3, <2>4 DEF Begun
  <2> QED
    BY <2>5, <2>6
<1>9. Bridged(c) /\ base \in Seq(Letters)
  BY <1>1, TextSeen DEF EachBridged
<1>10. CASE /\ buffer[c] = NULL
            /\ ack_required' = [ack_required EXCEPT ![c] = FALSE]
            /\ anticipated' = [anticipated EXCEPT ![c] = NULL]
            /\ UNCHANGED <<up, buffer, sentAt>>
  <2>1. /\ anticipated'[c] = NULL /\ buffer'[c] = NULL /\ up'[c] = <<>> /\ ack_required'[c] = FALSE
        /\ \A k \in Clients \ {c} : /\ anticipated'[k] = anticipated[k]
                                    /\ ack_required'[k] = ack_required[k]
    BY <1>1, <1>5, <1>10 DEF Shape
  <2>2. NotLost(c)'
    BY <2>1 DEF NotLost
  <2>3. TextOf(doc[c]) = sent
    BY <1>9, <1>10 DEF Bridged, After
  <2> HIDE DEF sent
  <2>4. TextOf(doc'[c]) = next
    BY <1>1, <1>7, <2>3
  <2>5. Bridged(c)'
    BY <2>1, <2>4 DEF Bridged, After
  <2>6. EachBridged(c)'
    BY <1>8, <2>2, <2>5 DEF EachBridged
  <2>7. ASSUME NEW k \in Clients \ {c} PROVE UNCHANGED BridgeStateOf(k)
    BY <1>1, <1>4, <1>10, <2>1 DEF BridgeStateOf, StateOf
  <2> QED
    BY <2>6, <2>7, OthersStayBridged
<1>11. CASE /\ buffer[c] # NULL
            /\ send_buffer(c, buffer[c], msg.hash, seen[c] + 1)
  <2>1. FineQueue(up[c]) /\ Fine(buffer[c])
    BY <1>1, <1>11 DEF EachText, FineHeld
  <2>2. /\ SameWork(buffer[c], anticipated'[c]) /\ anticipated'[c] # NULL /\ buffer'[c] = NULL
        /\ \A k \in Clients \ {c} : /\ up'[k] = up[k] /\ anticipated'[k] = anticipated[k]
                                    /\ buffer'[k] = buffer[k]
                                    /\ ack_required'[k] = ack_required[k]
    BY <1>1, <1>11, <2>1, SentIsFine
  <2>3. /\ BaseLen(buffer[c].comps) = Len(sent)
        /\ TextOf(doc[c]) = ApplyTo(buffer[c].comps, sent)
    BY <1>9, <1>11 DEF Bridged, After
  <2> HIDE DEF sent
  <2>4. NotLost(c)' /\ up'[c] # <<>>
    <3> DEFINE version == seen[c] + 1
               comps == buffer[c].comps
    <3>1. /\ version \in 0..Version /\ msg.hash = HashIn(History, version)
          /\ BaseLen(comps) = Len(TextIn(History, version))
      <4>1. version = seen'[c] /\ seen'[c] \in 0..Version
        BY <1>2
      <4>2. next = TextIn(History, version)
        BY <1>2, <4>1
      <4> QED
        BY <1>2, <1>7, <2>3, <4>1, <4>2
    <3>2. send_buffer(c, buffer[c], msg.hash, version) /\ buffer[c].comps = comps
      BY <1>11
    <3> HIDE DEF version, comps, msg
    <3> QED
      BY <1>1, <1>5, <3>1, <3>2, SentIsBased
  <2>5. Bridged(c)'
    <3>1. TextOf(doc'[c]) = ApplyTo(buffer[c].comps, next) /\ BaseLen(buffer[c].comps) = Len(next)
      BY <1>1, <1>7, <2>3
    <3>2. /\ BaseLen(anticipated'[c].comps) = Len(next)
          /\ ApplyTo(anticipated'[c].comps, next) = ApplyTo(buffer[c].comps, next)
      <4>1. next \in Seq(Letters)
        BY <1>7, <1>12
      <4> HIDE DEF next
      <4> QED
        BY <2>2, <3>1, <4>1 DEF SameWork
    <3> QED
      BY <1>2, <2>2, <3>1, <3>2 DEF Bridged, After
  <2>6. EachBridged(c)'
    BY <1>8, <2>4, <2>5 DEF EachBridged
  <2>7. ASSUME NEW k \in Clients \ {c} PROVE UNCHANGED BridgeStateOf(k)
    <3>1. sentAt'[k] = sentAt[k]
      BY <1>1, <1>11 DEF send_buffer, Control, TypeOK
    <3> QED
      BY <1>1, <1>4, <2>2, <3>1 DEF BridgeStateOf, StateOf
  <2> QED
    BY <2>6, <2>7, OthersStayBridged
<1> QED
  BY <1>1, <1>10, <1>11 DEF ReceiveAck
LEMMA FineMakes ==
  ASSUME NEW op, Fine(op), NEW text \in Seq(Letters), BaseLen(op.comps) = Len(text)
  PROVE  /\ ApplyTo(op.comps, text) \in Seq(Letters)
         /\ Len(ApplyTo(op.comps, text)) = OutLen(op.comps)
<1> DEFINE p == op.comps
<1>1. p \in OperationsOver(Letters) /\ BaseLen(p) <= Len(text)
  BY DEF Fine, CleanOver
<1> HIDE DEF p
<1>2. ApplyTo(p, text) \in Seq(Letters) /\ Len(ApplyTo(p, text)) = OutLen(p)
  BY <1>1, MadeIsText, MadeLength
<1> QED
  BY <1>2 DEF p

\* Somebody else's operation passes what the client holds back: where it led
\* the server from base to next, what comes out of it leads the client's text
\* to what the held back operations, transformed, make of next.
LEMMA IncomingBridges ==
  ASSUME NEW c \in Clients, NEW received, received # NULL, Fine(received),
         NEW base \in Seq(Letters), NEW next, next = ApplyTo(received.comps, base),
         BaseLen(received.comps) = Len(base),
         anticipated[c] # NULL => Fine(anticipated[c]) /\ BaseLen(anticipated[c].comps) = Len(base),
         NEW sent, sent = After(anticipated[c], base),
         buffer[c] # NULL => /\ anticipated[c] # NULL
                             /\ Fine(buffer[c]) /\ BaseLen(buffer[c].comps) = Len(sent),
         NEW first, first = xform_anticipated(c, received),
         NEW second, second = xform_buffer(c, first[1])
  PROVE  LET made == After(first[2], next)
         IN  /\ second[2] # NULL /\ Fine(second[2])
             /\ BaseLen(second[2].comps) = Len(After(buffer[c], sent))
             /\ first[2] # NULL => BaseLen(first[2].comps) = Len(next)
             /\ second[1] # NULL => BaseLen(second[1].comps) = Len(made)
             /\ ApplyTo(second[2].comps, After(buffer[c], sent)) = After(second[1], made)
<1> DEFINE a == anticipated[c]
           b == buffer[c]
<1>1. next \in Seq(Letters) /\ Len(next) = OutLen(received.comps)
  BY FineMakes
<1>2. CASE a = NULL
  <2>1. b = NULL
    BY <1>2
  <2>2. first = <<received, NULL>> /\ second = <<NULL, received>>
    BY <1>2, <2>1 DEF xform_anticipated, xform_buffer
  <2>3. first[2] = NULL /\ second[1] = NULL /\ second[2] = received /\ sent = base
    BY <1>2, <2>2 DEF After
  <2> QED
    BY <2>1, <2>3 DEF After
<1>3. CASE a # NULL
  <2>1. /\ Fine(a) /\ BaseLen(a.comps) = Len(base) /\ sent = ApplyTo(a.comps, base)
        /\ b # NULL => Fine(b) /\ BaseLen(b.comps) = Len(sent)
    BY <1>3 DEF After
  <2>2. first = OrElse(ot_xform(received, a), <<NULL, a>>)
    BY <1>3 DEF xform_anticipated
  <2>3. sent \in Seq(Letters) /\ Len(sent) = OutLen(a.comps)
    BY <2>1, FineMakes
  <2>4. PICK p1, p2 : /\ ot_xform(received, a) = <<p1, p2>>
                      /\ p1 # NULL /\ p2 # NULL
                      /\ CleanOver(Letters, p1) /\ CleanOver(Letters, p2)
                      /\ Merged(Letters, received.comps, a.comps, p1.comps, p2.comps)
    <3>1. CleanOver(Letters, received) /\ CleanOver(Letters, a)
          /\ BaseLen(received.comps) = BaseLen(a.comps)
      BY <2>1 DEF Fine
    <3> QED
      BY <3>1, XformOfClean
  <2>5. first = <<p1, p2>>
    BY <2>2, <2>4 DEF OrElse
  <2>6. /\ BaseLen(p1.comps) = Len(sent) /\ BaseLen(p2.comps) = Len(next)
        /\ OutLen(p1.comps) = OutLen(p2.comps)
        /\ ApplyTo(p2.comps, next) = ApplyTo(p1.comps, sent)
        /\ Fine(p1) /\ Fine(p2)
    BY <1>1, <2>1, <2>3, <2>4 DEF Merged, Fine
  <2>7. first[1] = p1 /\ first[2] = p2 /\ After(p2, next) = ApplyTo(p2.comps, next)
    BY <2>4, <2>5 DEF After
  <2>8. CASE b = NULL
    <3>1. second = <<NULL, p1>>
      BY <2>7, <2>8 DEF xform_buffer
    <3>2. second[1] = NULL /\ second[2] = p1 /\ After(b, sent) = sent
      BY <2>8, <3>1 DEF After
    <3> QED
      BY <2>4, <2>6, <2>7, <3>2 DEF After
  <2>9. CASE b # NULL
    <3>1. second = OrElse(ot_xform(b, p1), <<b, NULL>>)
      BY <2>4, <2>7, <2>9 DEF xform_buffer
    <3>2. PICK q1, q2 : /\ ot_xform(b, p1) = <<q1, q2>>
                        /\ q1 # NULL /\ q2 # NULL
                        /\ CleanOver(Letters, q1) /\ CleanOver(Letters, q2)
                        /\ Merged(Letters, b.comps, p1.comps, q1.comps, q2.comps)
      <4>1. CleanOver(Letters, b) /\ CleanOver(Letters, p1)
            /\ BaseLen(b.comps) = BaseLen(p1.comps)
        BY <2>1, <2>6, <2>9 DEF Fine
      <4> QED
        BY <4>1, XformOfClean
    <3>3. second = <<q1, q2>>
      BY <3>1, <3>2 DEF OrElse
    <3>4. /\ BaseLen(q1.comps) = OutLen(p1.comps) /\ BaseLen(q2.comps) = OutLen(b.comps)
          /\ ApplyTo(q2.comps, ApplyTo(b.comps, sent)) = ApplyTo(q1.comps, ApplyTo(p1.comps, sent))
          /\ Fine(q2)
      BY <2>1, <2>3, <2>9, <3>2 DEF Merged, Fine
    <3>5. Len(ApplyTo(b.comps, sent)) = OutLen(b.comps)
      BY <2>1, <2>3, <2>9, FineMakes
    <3>6. Len(ApplyTo(p2.comps, next)) = OutLen(p2.comps)
      BY <1>1, <2>6, FineMakes
    <3>7. second[1] = q1 /\ second[2] = q2
      BY <3>3
    <3>8. After(b, sent) = ApplyTo(b.comps, sent)
      BY <2>9 DEF After
    <3>9. After(q1, After(p2, next)) = ApplyTo(q1.comps, ApplyTo(p2.comps, next))
      BY <2>7, <3>2 DEF After
    <3> QED
      BY <2>6, <2>7, <3>2, <3>4, <3>5, <3>6, <3>7, <3>8, <3>9
  <2> QED
    BY <2>8, <2>9
<1> QED
  BY <1>2, <1>3

LEMMA ReceiveOpKeepsBridge ==
  ASSUME OrderInv, TextInv, BridgeInv, NEW c \in Clients, ReceiveOp(c), UNCHANGED server_doc
  PROVE  BridgeInv'
<1> DEFINE msg == Head(down[c])
           d == doc[c]
           base == TextIn(History, seen[c])
           next == TextIn(History', seen'[c])
           sent == After(anticipated[c], base)
<1>1. /\ TakeDown(c) /\ ~IsError(msg) /\ ~IsOwn(c, msg) /\ UNCHANGED <<up, ack_required, sentAt>>
      /\ seen' = [seen EXCEPT ![c] = @ + 1]
      /\ Shape /\ Each(c) /\ EachBridged(c) /\ EachText(c) /\ Control
  BY ControlByClient DEF ReceiveOp, IsOwn, EachClient, OrderInv, BridgeInv, TextInv
<1>2. /\ seen'[c] = seen[c] + 1 /\ seen'[c] \in 1..Version /\ Version \in Nat
      /\ msg # NULL /\ Fine(msg)
      /\ base \in Seq(Letters)
      /\ BaseLen(msg.comps) = Len(base)
      /\ ApplyTo(msg.comps, base) = next
      /\ UNCHANGED <<History, Version>>
  BY <1>1, TakenBridge
<1>3. /\ IsSequence(down[c]) /\ down[c] # <<>> /\ down' = [down EXCEPT ![c] = Tail(down[c])]
  BY <1>1 DEF Each, DownTyped, TakeDown
<1>4. /\ down'[c] = Tail(down[c])
      /\ \A k \in Clients \ {c} : down'[k] = down[k] /\ seen'[k] = seen[k]
  BY <1>1, <1>3 DEF Shape
<1>5. PICK first, second :
        /\ first = xform_anticipated(c, Head(down[c]))
        /\ second = xform_buffer(c, first[1])
        /\ anticipated' = [anticipated EXCEPT ![c] = first[2]]
        /\ buffer' = [buffer EXCEPT ![c] = second[1]]
        /\ \/ /\ second[2] = NULL
              /\ UNCHANGED doc
           \/ /\ second[2] # NULL
              /\ doc' = [doc EXCEPT ![c] = ot_doc_append(Opened(doc[c]), second[2]).doc]
  BY DEF ReceiveOp, Incoming
<1> DEFINE op == second[2]
           r == ot_doc_append(Opened(d), op)
<1>6. /\ TextOf(d) = After(buffer[c], sent)
      /\ anticipated[c] # NULL => Fine(anticipated[c]) /\ BaseLen(anticipated[c].comps) = Len(base)
      /\ buffer[c] # NULL => /\ anticipated[c] # NULL
                             /\ Fine(buffer[c]) /\ BaseLen(buffer[c].comps) = Len(sent)
  BY <1>1 DEF EachBridged, Bridged, EachText, FineHeld, Each, Discipline
<1>7. /\ op # NULL /\ Fine(op) /\ BaseLen(op.comps) = Len(TextOf(d))
      /\ first[2] # NULL => BaseLen(first[2].comps) = Len(next)
      /\ second[1] # NULL => BaseLen(second[1].comps) = Len(After(first[2], next))
      /\ ApplyTo(op.comps, TextOf(d)) = After(second[1], After(first[2], next))
  <2>1. /\ first = xform_anticipated(c, msg) /\ second = xform_buffer(c, first[1])
        /\ sent = After(anticipated[c], base)
    BY <1>5
  <2> HIDE DEF msg, base, next, sent
  <2>2. LET made == After(first[2], next)
        IN  /\ second[2] # NULL /\ Fine(second[2])
            /\ BaseLen(second[2].comps) = Len(After(buffer[c], sent))
            /\ first[2] # NULL => BaseLen(first[2].comps) = Len(next)
            /\ second[1] # NULL => BaseLen(second[1].comps) = Len(made)
            /\ ApplyTo(second[2].comps, After(buffer[c], sent)) = After(second[1], made)
    BY <1>2, <1>6, <2>1, IncomingBridges
  <2> QED
    BY <1>6, <2>2
<1>8. /\ anticipated'[c] = first[2] /\ buffer'[c] = second[1] /\ doc'[c] = r.doc
      /\ \A k \in Clients \ {c} : /\ anticipated'[k] = anticipated[k] /\ buffer'[k] = buffer[k]
                                  /\ doc'[k] = doc[k]
  BY <1>1, <1>5, <1>7 DEF Shape
<1>9. /\ TextOf(doc'[c]) = ApplyTo(op.comps, TextOf(d))
      /\ Dated(doc'[c]) /\ doc'[c] # NULL
  <2>1. CanOpen(d, op)
    BY <1>7, EmptySequence DEF CanOpen, TextOf
  <2>2. DocOrNone(d) /\ Fine(op) /\ BaseLen(op.comps) = Len(TextOf(d))
    BY <1>1, <1>7 DEF EachText
  <2> HIDE DEF op
  <2>3. r.err = "none" /\ MadeDoc(r.doc) /\ TextOf(r.doc) = ApplyTo(op.comps, TextOf(d))
    BY <2>1, <2>2, AppendToAny
  <2>4. Dated(r.doc)
    BY <2>2, <2>3, AppendDates
  <2> HIDE DEF r
  <2> QED
    BY <1>8, <2>3, <2>4, MadeDocText
<1>10. Bridged(c)'
  <2>1. TextOf(doc'[c]) = After(buffer'[c], After(anticipated'[c], next))
    BY <1>7, <1>8, <1>9
  <2>2. /\ anticipated'[c] # NULL => BaseLen(anticipated'[c].comps) = Len(next)
        /\ buffer'[c] # NULL => BaseLen(buffer'[c].comps) = Len(After(anticipated'[c], next))
    BY <1>7, <1>8
  <2> QED
    BY <2>1, <2>2 DEF Bridged
<1>11. Begun(c)'
  <2>1. Version' = Version /\ seen'[c] \in 0..Version /\ seen'[c] # 0
    BY <1>2
  <2> QED
    BY <1>9, <2>1 DEF Begun
<1>12. NotLost(c)'
  <2>1. OwnIn(c, down'[c]) # {} <=> OwnIn(c, down[c]) # {}
    BY <1>1, <1>3, <1>4, OwnAfterOther
  <2>2. NotLost(c) /\ UNCHANGED <<up, ack_required, sentAt, History, Version>>
    BY <1>1, <1>2 DEF EachBridged
  <2> QED
    BY <2>1, <2>2 DEF NotLost, BasedOn, OwnIn
<1>13. EachBridged(c)'
  BY <1>9, <1>10, <1>11, <1>12 DEF EachBridged
<1>14. ASSUME NEW k \in Clients \ {c} PROVE UNCHANGED BridgeStateOf(k)
  BY <1>1, <1>4, <1>8 DEF BridgeStateOf, StateOf
<1> QED
  BY <1>13, <1>14, OthersStayBridged
LEMMA EditKeepsBridge ==
  ASSUME EditorsFit, OrderInv, TextInv, BridgeInv, NEW c \in Clients, Edit(c)
  PROVE  BridgeInv'
<1>1. PICK comps : comps \in Edits(c, edits[c], TextOf(doc[c])) /\ ot_client_apply(c, comps)
  BY DEF Edit
<1>2. edits[c] \in Nat
  BY MaxEditsAssumption DEF OrderInv, Control, TypeOK
<1>3. TextOf(doc[c]) \in Seq(Letters) /\ (doc[c] = NULL => TextOf(doc[c]) = <<>>)
  <2>1. TextOf(doc[c]) \in Seq(Letters)
    BY TextOfAny DEF TextInv, EachText
  <2> QED
    BY <2>1 DEF TextOf
<1>4. /\ Fine(Op(c, ZeroHash, ZeroHash, comps))
      /\ CanOpen(doc[c], Op(c, ZeroHash, ZeroHash, comps))
  <2> DEFINE text == TextOf(doc[c])
  <2>1. comps \in Edits(c, edits[c], text) /\ text \in Seq(Letters)
        /\ (doc[c] = NULL => text = <<>>)
    BY <1>1, <1>3
  <2> HIDE DEF text
  <2> QED
    BY <1>2, <2>1, EditIsFine
<1>5. UNCHANGED server_doc
  BY DEF Edit
<1> QED
  BY <1>1, <1>4, <1>5, ApplyKeepsBridge

\* The document everybody opened at the start has a history of one operation.
LEMMA OpenedReplays ==
  ASSUME EditorsFit, NEW h, h = IF OpenedDoc = NULL THEN <<>> ELSE OpenedDoc.history
  PROVE  /\ Replays(Letters, h) /\ TextIn(h, Version0) = TextOf(OpenedDoc)
         /\ Dated(OpenedDoc) /\ (OpenedDoc = NULL <=> Version0 = 0)
         /\ Len(h) = Version0
         /\ \A i \in 1..Len(h) : InitialText # <<>> /\ h[i].comps = <<InsertComp(InitialText)>>
<1>1. CASE InitialText = <<>>
  <2>1. OpenedDoc = NULL /\ Version0 = 0 /\ h = <<>>
    BY <1>1 DEF OpenedDoc, Version0
  <2>2. Len(h) = 0
    BY <2>1, EmptySequence
  <2>3. Replays(Letters, h)
    BY <2>2 DEF Replays
  <2> QED
    BY <2>1, <2>2, <2>3 DEF TextIn, TextOf, Dated
<1>2. CASE InitialText # <<>>
  <2> DEFINE none == <<>>
             comps == <<InsertComp(InitialText)>>
             op == Op(0, ZeroHash, ZeroHash, comps)
             r == ot_doc_append(Opened(NULL), op)
             t == InitialText
  <2>1. comps = Append(none, InsertComp(t)) /\ Len(comps) = 1 /\ comps[1] = InsertComp(t)
        /\ t \in Seq(Letters)
    BY EditorsFitLetters DEF Fits
  <2>2. none \in OperationsOver(Letters) /\ none \in Seq(Letters)
    BY EmptyOperation
  <2>3. InsertComp(t) \in ComponentsOver(Letters)
    BY <2>1, MadeComponents
  <2>4. comps \in OperationsOver(Letters)
    BY <2>3 DEF OperationsOver
  <2>5. Passable(comps)
    <3>1. Len(t) # 0
      BY <2>1, <1>2
    <3>2. ~IsEmpty(comps[1]) /\ comps[1].type \notin Stubs
      BY <2>1, <3>1 DEF IsEmpty, ot_comp_size, InsertComp, Stubs
    <3> HIDE DEF comps
    <3>3. \A i \in 1..Len(comps) : i = 1
      BY <2>1
    <3> QED
      BY <3>2, <3>3 DEF Passable
  <2>6. op.comps = comps
    BY DEF Op
  <2>7. OpenedDoc = r.doc /\ Version0 = 1 /\ Opened(NULL).history = none
    BY <1>2, NewDoc DEF OpenedDoc, Version0, Opened
  <2> HIDE DEF comps, none, op, r, t
  <2>8. BaseLen(comps) = 0
    <3>1. BaseLen(comps) = BaseLen(none)
      BY <2>1, <2>2, LengthsWithComponent
    <3> QED
      BY <3>1, LengthsOfEmpty DEF none
  <2>9. Fine(op) /\ CanOpen(NULL, op) /\ TextOf(NULL) = none /\ Len(none) = 0
    BY <2>4, <2>5, <2>6, <2>8, EmptySequence DEF Fine, CleanOver, CanOpen, TextOf, none
  <2>10. /\ r.err = "none" /\ MadeDoc(r.doc)
         /\ TextOf(r.doc) = ApplyTo(op.comps, none)
         /\ Len(TextOf(r.doc)) = OutLen(op.comps)
         /\ r.op.comps = op.comps /\ r.op # NULL
    BY <2>6, <2>8, <2>9, AppendToAny DEF DocOrNone, r
  <2>11. /\ Dated(r.doc) /\ r.doc.history = Append(none, r.op)
         /\ r.op.hash = HashOf(TextOf(r.doc))
    BY <2>7, <2>10, AppendDates DEF DocOrNone, r
  <2>12. r.doc # NULL /\ TextOf(r.doc) \in Seq(Letters)
    BY <2>10, MadeDocText
  <2>13. IsSequence(none) /\ Replays(Letters, none) /\ TextIn(none, Len(none)) = none
    BY <2>9, EmptySequence DEF Replays, TextIn, none
  <2> DEFINE head == r.op
             text == TextOf(r.doc)
  <2>14. CleanOver(Letters, head)
    BY <2>9, <2>10 DEF Fine, CleanOver
  <2>15. /\ Replays(Letters, Append(none, head))
         /\ TextIn(Append(none, head), Len(none) + 1) = text
    <3>1. /\ BaseLen(head.comps) = Len(TextIn(none, Len(none))) /\ OutLen(head.comps) = Len(text)
          /\ ApplyTo(head.comps, TextIn(none, Len(none))) = text
          /\ head # NULL /\ text \in Seq(Letters) /\ head.hash = HashOf(text)
      BY <2>6, <2>8, <2>9, <2>10, <2>11, <2>12, <2>13
    <3> HIDE DEF head, text
    <3> QED
      BY <2>13, <2>14, <3>1, ReplaysOn
  <2>16. h = Append(none, head) /\ Len(none) + 1 = Version0 /\ Version0 # 0
    BY <2>7, <2>9, <2>11, <2>12
  <2>17. Len(Append(none, head)) = Len(none) + 1 /\ Append(none, head)[Len(none) + 1] = head
    BY <2>13, AppendedSequence
  <2>18. ASSUME NEW i \in 1..Len(h) PROVE InitialText # <<>> /\ h[i].comps = <<InsertComp(InitialText)>>
    <3>1. Len(none) + 1 = 1
      BY <2>9
    <3>2. i = 1 /\ h[i] = head
      BY <2>16, <2>17, <3>1
    <3> QED
      BY <1>2, <2>6, <2>10, <3>2 DEF comps, head
  <2> QED
    BY <2>7, <2>11, <2>12, <2>15, <2>16, <2>17, <2>18
<1> QED
  BY <1>1, <1>2

LEMMA InitBridge ==
  ASSUME EditorsFit, Init
  PROVE  BridgeInv
<1>1. /\ server_doc = OpenedDoc
      /\ \A k \in Clients : /\ doc[k] = OpenedDoc /\ up[k] = <<>> /\ ~ack_required[k]
                            /\ anticipated[k] = NULL /\ buffer[k] = NULL
                            /\ seen[k] = Version0
  BY DEF Init
<1>2. History = IF OpenedDoc = NULL THEN <<>> ELSE OpenedDoc.history
  BY <1>1 DEF History
<1>3. Version = Version0
  BY <1>2, OpenedReplays, AuthorsOfHistory
<1>4. /\ Replays(Letters, History) /\ TextIn(History, Version0) = TextOf(OpenedDoc)
      /\ Dated(OpenedDoc) /\ (OpenedDoc = NULL <=> Version0 = 0)
  BY <1>2, OpenedReplays
<1>5. ServerTells
  BY <1>1, <1>3, <1>4 DEF ServerTells
<1>6. Version0 \in 0..Version
  BY <1>3 DEF Version0
<1>7. ASSUME NEW k \in Clients PROVE EachBridged(k)
  <2>1. Bridged(k)
    BY <1>1, <1>4 DEF Bridged, After
  <2>2. Begun(k)
    BY <1>1, <1>4, <1>6 DEF Begun
  <2>3. NotLost(k)
    BY <1>1 DEF NotLost
  <2> QED
    BY <1>1, <1>4, <2>1, <2>2, <2>3 DEF EachBridged
<1> QED
  BY <1>5, <1>7 DEF BridgeInv

LEMMA NextKeepsBridge ==
  ASSUME EditorsFit, OrderInv, TextInv, BridgeInv, AckedAlike, [Next]_vars
  PROVE  BridgeInv'
<1>1. ASSUME NEW c \in Clients, Edit(c) PROVE BridgeInv'
  BY <1>1, EditKeepsBridge
<1>2. ASSUME NEW c \in Clients, ServerStep(c) PROVE BridgeInv'
  BY <1>2, ServerStepKeepsBridge
<1>3. ASSUME NEW c \in Clients, ClientStep(c) PROVE BridgeInv'
  BY <1>3, ReceiveErrorKeepsBridge, ReceiveAckKeepsBridge, ReceiveOpKeepsBridge
     DEF ClientStep, ot_client_receive
<1>4. CASE UNCHANGED vars
  <2>1. \A k \in Clients : EachBridged(k) /\ UNCHANGED <<BridgeStateOf(k), server_doc>>
    BY <1>4 DEF BridgeInv, vars, clientVars, BridgeStateOf, StateOf
  <2>2. \A k \in Clients : EachBridged(k)'
    BY <2>1, EachBridgedUnchanged
  <2>3. UNCHANGED server_doc /\ ServerTells
    BY <1>4 DEF vars, BridgeInv
  <2>4. ServerTells'
    BY <2>3 DEF ServerTells, History, Version
  <2> QED
    BY <2>2, <2>4 DEF BridgeInv
<1> QED
  BY <1>1, <1>2, <1>3, <1>4 DEF Next
LEMMA BridgeInvariant ==
  ASSUME EditorsFit
  PROVE  Spec /\ []AckedAlike => [](OrderInv /\ BridgeInv)
<1>1. Init => OrderInv /\ TextInv /\ BridgeInv
  BY InitOrdered, InitText, InitBridge
<1>2. OrderInv /\ TextInv /\ BridgeInv /\ AckedAlike /\ [Next]_vars
        => OrderInv' /\ TextInv' /\ BridgeInv'
  <2>1. OrderInv /\ [Next]_vars => OrderInv'
    BY NextOrdered
  <2>2. OrderInv /\ TextInv /\ [Next]_vars => TextInv'
    BY NextKeepsText DEF OrderInv
  <2>3. OrderInv /\ TextInv /\ BridgeInv /\ AckedAlike /\ [Next]_vars => BridgeInv'
    BY NextKeepsBridge
  <2> QED
    BY <2>1, <2>2, <2>3
<1> QED
  BY <1>1, <1>2, PTL DEF Spec

\* At any moment a client's document is what the server had when it last
\* heard from it, then the operation it waits for, then its buffer: nothing an
\* editor applied is lost or applied twice (client.c, server.c).  It is so as
\* long as the server makes of an operation what its author anticipated, the
\* one thing the code leaves to the transformations; and the server never
\* refuses what a client sends.
THEOREM BridgeHolds ==
  ASSUME EditorsFit
  PROVE  Spec /\ []AckedAsAnticipated => []Bridge
BY BridgeInvariant, AckedAsAnticipatedIsAlike, BridgedIsBridge, PTL

\* When everything was delivered, the clients and the server show the same
\* text and nobody waits (client.c, server.c), as long as the server makes of
\* every operation what its author anticipated.
THEOREM ConvergedHolds ==
  ASSUME EditorsFit
  PROVE  Spec /\ []AckedAsAnticipated => []Converged
BY BridgeInvariant, AckedAsAnticipatedIsAlike, BridgedConverges, PTL

-----------------------------------------------------------------------------
(***************************************************************************)
(* A client may be given the server's document at any moment, as           *)
(* ot_encode_doc writes it and ot_decode_doc reads it, and is as good as   *)
(* one that was there from the start.                                      *)
(***************************************************************************)
LEMMA ReloadedIsMade ==
  ASSUME NEW h, Replays(Letters, h), Len(h) \in Nat \ {0},
         NEW r, r = ot_decode_doc(ot_new_doc(0), h)
  PROVE  MadeDoc(r.doc) /\ Dated(r.doc) /\ TextOf(r.doc) = TextIn(h, Len(h))
<1> DEFINE N == Len(h)
<1>1. PICK run : ReadRun(ot_new_doc(0), h, N, run) /\ r = run[N]
  BY ReadIsRun
<1>2. /\ run[0] = Refused(ot_new_doc(0), "none")
      /\ \A n \in 1..N : run[n] = DecodeNext(run[n - 1], h[n])
  BY <1>1, ReadRunSteps
<1> DEFINE DocAt(n) == IF n = 0 THEN NULL ELSE run[n].doc
           Good(n) == /\ run[n].err = "none" /\ run[n].doc = Opened(DocAt(n))
                      /\ DocOrNone(DocAt(n)) /\ Dated(DocAt(n))
                      /\ n # 0 => MadeDoc(DocAt(n))
                      /\ TextOf(DocAt(n)) = TextIn(h, n)
           T == {n \in Nat : n <= N => Good(n)}
<1>3. 0 \in T
  <2>1. run[0].err = "none" /\ run[0].doc = ot_new_doc(0)
    BY <1>2 DEF Refused
  <2> QED
    BY <2>1 DEF Opened, DocOrNone, Dated, TextOf, TextIn
<1>4. ASSUME NEW n \in Nat, n \in T PROVE n + 1 \in T
  <2> SUFFICES ASSUME n + 1 <= N PROVE Good(n + 1)
    OBVIOUS
  <2> DEFINE m == n + 1
             d == DocAt(n)
             op == h[m]
  <2>1. Good(n) /\ m \in 1..N /\ m - 1 = n /\ m # 0
    BY <1>4
  <2>2. /\ op # NULL /\ CleanOver(Letters, op)
        /\ op.hash = HashOf(TextIn(h, m))
        /\ BaseLen(op.comps) = Len(TextIn(h, n))
        /\ ApplyTo(op.comps, TextIn(h, n)) = TextIn(h, m)
    BY <2>1 DEF Replays
  <2>3. run[m] = ot_doc_append(Opened(d), op)
    <3>1. run[m] = DecodeNext(run[n], op)
      BY <1>2, <2>1
    <3> HIDE DEF m, op
    <3> QED
      BY <2>1, <3>1 DEF DecodeNext
  <2>4. DocOrNone(d) /\ Dated(d) /\ TextOf(d) = TextIn(h, n) /\ DocAt(m) = run[m].doc
    BY <2>1
  <2>5. CanOpen(d, op)
    <3>1. d = NULL => n = 0
      BY <2>1, MadeDocText
    <3> QED
      BY <2>2, <3>1 DEF CanOpen, TextIn
  <2> HIDE DEF d, m, op, DocAt
  <2>6. /\ run[m].err = "none" /\ MadeDoc(run[m].doc)
        /\ TextOf(run[m].doc) = TextIn(h, m)
    BY <2>2, <2>3, <2>4, <2>5, AppendToAny DEF Fine
  <2>7. Dated(run[m].doc)
    BY <2>3, <2>4, <2>6, AppendDates
  <2>8. run[m].doc = Opened(run[m].doc)
    BY <2>6, MadeDocText DEF Opened
  <2>9. Good(m)
    BY <2>1, <2>4, <2>6, <2>7, <2>8 DEF DocOrNone
  <2> QED
    BY <2>9 DEF m
<1>5. Nat \subseteq T
  <2> HIDE DEF T
  <2> QED
    BY <1>3, <1>4, SetInduction
<1>6. Good(N) /\ N # 0
  BY <1>5
<1> QED
  BY <1>1, <1>6

Welcomed(c) ==
  /\ doc' = [doc EXCEPT ![c] =
               IF server_doc = NULL THEN NULL
               ELSE ot_decode_doc(ot_new_doc(0), ot_encode_doc(server_doc)).doc]
  /\ seen' = [seen EXCEPT ![c] = Version]
  /\ down' = [down EXCEPT ![c] = <<>>]
  /\ UNCHANGED <<up, ack_required, anticipated, buffer, sentAt, server_doc, edits>>

LEMMA NewcomerFits ==
  ASSUME OrderInv, TextInv, BridgeInv, NEW c \in Clients,
         up[c] = <<>>, ~ack_required[c], Welcomed(c)
  PROVE  OrderInv' /\ TextInv' /\ BridgeInv'
<1> DEFINE given == IF server_doc = NULL THEN NULL
                    ELSE ot_decode_doc(ot_new_doc(0), ot_encode_doc(server_doc)).doc
<1>1. /\ Shape /\ (\A k \in Clients : Each(k)) /\ ServerInStep
      /\ DocOrNone(server_doc) /\ ServerTells
      /\ \A k \in Clients : EachText(k) /\ EachBridged(k)
      /\ \A k \in Clients : \E at : Numbers(at, down[k], seen[k], History)
  BY ControlByClient DEF OrderInv, EachClient, TextInv, BridgeInv, RestUnderWay
<1>2. Version \in Nat /\ Version = Len(History) /\ (server_doc = NULL => Version = 0)
  BY <1>1, HistoryIsASequence, AppendedSequence, AuthorsOfHistory DEF Version
<1>3. UNCHANGED <<History, Version>>
  BY DEF Welcomed, History, Version
<1>4. anticipated[c] = NULL /\ buffer[c] = NULL
  BY <1>1 DEF Each, Discipline
<1>5. /\ doc'[c] = given /\ seen'[c] = Version /\ down'[c] = <<>>
      /\ \A k \in Clients \ {c} : doc'[k] = doc[k] /\ seen'[k] = seen[k] /\ down'[k] = down[k]
      /\ Shape'
  BY <1>1, <1>2 DEF Welcomed, Shape
<1> HIDE DEF given
<1>6. ASSUME NEW k \in Clients, k # c
      PROVE  UNCHANGED <<StateOf(k), doc[k], seen[k], sentAt[k], server_doc>>
  BY <1>5, <1>6 DEF Welcomed, StateOf
<1>7. /\ UNCHANGED <<up, ack_required, anticipated, buffer, server_doc>>
      /\ up'[c] = <<>> /\ ~ack_required'[c] /\ anticipated'[c] = NULL /\ buffer'[c] = NULL
  BY <1>4 DEF Welcomed
<1>8. OrderInv'
  <2>1. Each(c)'
    BY <1>5, <1>7, EmptySequence
       DEF Each, UpTyped, DownTyped, HeldTyped, Discipline, Flight, OwnIn
  <2>2. \A k \in Clients : Each(k)'
    BY <1>1, <1>6, <2>1, EachUnchanged
  <2>3. ServerInStep'
    BY <1>1, <1>7 DEF ServerInStep
  <2>4. ASSUME NEW k \in Clients PROVE \E at : Numbers(at, down'[k], seen'[k], History)
    <3>1. CASE k = c
      <4> DEFINE at == [i \in 0..Len(<<>>) |-> Version]
      <4>1. Numbers(at, <<>>, Version, History)
        BY <1>2, EmptySequence DEF Numbers
      <4> HIDE DEF at
      <4> QED
        BY <1>5, <3>1, <4>1
    <3>2. CASE k # c
      BY <1>1, <1>5, <3>2
    <3> QED
      BY <3>1, <3>2
  <2>5. RestUnderWay'
    BY <1>3, <2>4 DEF RestUnderWay
  <2> QED
    BY <1>5, <2>2, <2>3, <2>5, ControlByClientNext DEF OrderInv
<1>9. /\ DocOrNone(given) /\ Dated(given) /\ TextOf(given) = TextIn(History, Version)
      /\ (given = NULL <=> server_doc = NULL)
      /\ server_doc # NULL => Version # 0
  <2>1. CASE server_doc = NULL
    BY <1>2, <2>1 DEF given, DocOrNone, Dated, TextOf, TextIn
  <2>2. CASE server_doc # NULL
    <3> DEFINE h == server_doc.history
    <3>1. MadeDoc(server_doc) /\ h = History /\ Replays(Letters, h)
      BY <1>1, <2>2 DEF DocOrNone, History, ServerTells
    <3>2. h # <<>> /\ h \in Seq(ToSet(h))
      BY <3>1 DEF MadeDoc, CleanDoc
    <3> HIDE DEF h
    <3>3. Len(h) \in Nat \ {0}
      BY <3>2
    <3>4. given = ot_decode_doc(ot_new_doc(0), h).doc
      BY <2>2 DEF given, ot_encode_doc, h
    <3>5. MadeDoc(given) /\ Dated(given) /\ TextOf(given) = TextIn(h, Len(h))
      BY <3>1, <3>3, <3>4, ReloadedIsMade
    <3>6. given # NULL
      BY <3>5, MadeDocText
    <3> QED
      BY <1>2, <2>2, <3>1, <3>3, <3>5, <3>6 DEF DocOrNone
  <2> QED
    BY <2>1, <2>2
<1>10. TextInv'
  <2>1. EachText(c)'
    <3>1. InitialText = <<>> \/ server_doc # NULL
      BY <1>1 DEF EachText, Unserved, Unopened
    <3>2. FineQueue(<<>>)
      BY EmptySequence DEF FineQueue
    <3> QED
      BY <1>5, <1>7, <1>9, <3>1, <3>2
         DEF EachText, FineQueue, FineHeld, Follows, Unopened, Unserved
  <2>2. \A k \in Clients : k # c => EachText(k)'
    BY <1>1, <1>6, EachTextUnchanged DEF TextStateOf
  <2> QED
    BY <1>1, <1>7, <2>1, <2>2 DEF TextInv
<1>11. BridgeInv'
  <2>1. EachBridged(c)'
    <3>1. Bridged(c)'
      BY <1>3, <1>5, <1>7, <1>9 DEF Bridged, After
    <3>2. Begun(c)'
      BY <1>2, <1>3, <1>5, <1>7, <1>9 DEF Begun
    <3>3. NotLost(c)'
      BY <1>7 DEF NotLost
    <3> QED
      BY <1>5, <1>9, <3>1, <3>2, <3>3 DEF EachBridged
  <2>2. \A k \in Clients : k # c => EachBridged(k)'
    BY <1>1, <1>6, EachBridgedUnchanged DEF BridgeStateOf
  <2>3. ServerTells'
    BY <1>1, <1>3, <1>7 DEF ServerTells
  <2> QED
    BY <2>1, <2>2, <2>3 DEF BridgeInv
<1> QED
  BY <1>8, <1>10, <1>11

-----------------------------------------------------------------------------
(***************************************************************************)
(* The fifth invariant, of editors that only insert.  It says where the    *)
(* characters of an operation stand, and follows them through the history: *)
(* what the server makes of an operation with one transformation and what  *)
(* its author makes of it with one for every operation it missed insert    *)
(* the same characters in the same places.                                 *)
(***************************************************************************)
GapsOf(op) == Layout(op.comps).gaps
WordOf(op) == Layout(op.comps).word

\* Where an operation takes the gaps g.
Shifted(op, g) == [j \in 1..Len(g) |-> Layout(op.comps).lift[g[j]]]

LEMMA ShiftedIsGaps ==
  ASSUME NEW X, NEW op, CleanOver(X, op), NEW g \in Seq(Nat)
  PROVE  /\ Shifted(op, g) \in Seq(Nat) /\ Len(Shifted(op, g)) = Len(g)
         /\ \A j \in 1..Len(g) : Shifted(op, g)[j] = Layout(op.comps).lift[g[j]]
<1> DEFINE p == op.comps
           f == Layout(p).lift
<1>1. p \in OperationsOver(X)
  BY DEF CleanOver
<1> HIDE DEF p
<1>2. \A h \in Nat : f[h] \in Nat
  BY <1>1, LayoutOfOperation
<1>3. Shifted(op, g) = [j \in 1..Len(g) |-> f[g[j]]]
  BY DEF Shifted, p
<1> HIDE DEF f
<1>4. Len(g) \in Nat /\ \A j \in 1..Len(g) : g[j] \in Nat
  OBVIOUS
<1>5. [j \in 1..Len(g) |-> f[g[j]]] \in Seq(Nat)
  BY <1>2, <1>4
<1>6. Len([j \in 1..Len(g) |-> f[g[j]]]) = Len(g)
  BY <1>4
<1> QED
  BY <1>3, <1>5, <1>6 DEF f, p

LEMMA ShiftedTwice ==
  ASSUME NEW X, NEW x, CleanOver(X, x), NEW y, CleanOver(X, y), NEW r, CleanOver(X, r),
         Chained(x.comps, y.comps, r.comps), NEW g \in Seq(Nat)
  PROVE  Shifted(r, g) = Shifted(y, Shifted(x, g))
<1> DEFINE h == Shifted(x, g)
           u == Shifted(r, g)
           v == Shifted(y, h)
<1>1. /\ h \in Seq(Nat) /\ Len(h) = Len(g)
      /\ \A j \in 1..Len(g) : h[j] = Layout(x.comps).lift[g[j]]
  BY ShiftedIsGaps
<1>2. /\ u \in Seq(Nat) /\ Len(u) = Len(g)
      /\ \A j \in 1..Len(g) : u[j] = Layout(r.comps).lift[g[j]]
  BY ShiftedIsGaps
<1> HIDE DEF h, u
<1>3. /\ v \in Seq(Nat) /\ Len(v) = Len(h)
      /\ \A j \in 1..Len(h) : v[j] = Layout(y.comps).lift[h[j]]
  BY <1>1, ShiftedIsGaps
<1> HIDE DEF v
<1>4. \A j \in 1..Len(g) : g[j] \in Nat
  OBVIOUS
<1>5. ASSUME NEW j \in 1..Len(u) PROVE u[j] = v[j]
  <2> DEFINE i == g[j]
             k == h[j]
  <2>1. /\ i \in Nat /\ u[j] = Layout(r.comps).lift[i] /\ k = Layout(x.comps).lift[i]
        /\ v[j] = Layout(y.comps).lift[k]
    BY <1>1, <1>2, <1>3, <1>4
  <2> HIDE DEF i, k
  <2>2. Layout(r.comps).lift[i] = Layout(y.comps).lift[Layout(x.comps).lift[i]]
    BY <2>1 DEF Chained
  <2> QED
    BY <2>1, <2>2
<1>6. u = v
  BY <1>1, <1>2, <1>3, <1>5, SeqEqual
<1> QED
  BY <1>6 DEF u, v, h

LEMMA ShiftedByNothing ==
  ASSUME NEW X, NEW op, CleanOver(X, op), Volume(op.comps) = BaseLen(op.comps), NEW g \in Seq(Nat)
  PROVE  Shifted(op, g) = g
<1> DEFINE p == op.comps
           u == Shifted(op, g)
<1>1. p \in OperationsOver(X) /\ Volume(p) = BaseLen(p)
  BY DEF CleanOver
<1>2. u \in Seq(Nat) /\ Len(u) = Len(g) /\ \A j \in 1..Len(g) : u[j] = Layout(p).lift[g[j]]
  BY ShiftedIsGaps
<1> HIDE DEF p, u
<1>3. /\ Volume(p) = BaseLen(p) + Len(Layout(p).word) /\ Len(Layout(p).word) \in Nat
      /\ \A h \in Nat : /\ Layout(p).lift[h] \in Nat /\ h <= Layout(p).lift[h]
                        /\ Layout(p).lift[h] <= h + Len(Layout(p).word)
      /\ BaseLen(p) \in Nat
  BY <1>1, LayoutOfOperation, LengthsAreNat
<1>4. Len(Layout(p).word) = 0
  BY <1>1, <1>3
<1>5. \A h \in Nat : Layout(p).lift[h] = h
  BY <1>3, <1>4
<1>6. \A j \in 1..Len(g) : g[j] \in Nat
  OBVIOUS
<1>7. \A j \in 1..Len(u) : u[j] = g[j]
  BY <1>2, <1>5, <1>6
<1>8. u = g
  BY <1>2, <1>7, SeqEqual
<1> QED
  BY <1>8 DEF u

\* What ot_xform and ot_compose make of operations that delete nothing.
LEMMA XformOfPlainOps ==
  ASSUME NEW X, NEW op1, CleanOver(X, op1), Plain(op1.comps), NEW op2, CleanOver(X, op2),
         Plain(op2.comps), BaseLen(op1.comps) = BaseLen(op2.comps),
         NEW p1, NEW p2, ot_xform(op1, op2) = <<p1, p2>>
  PROVE  /\ Plain(p1.comps) /\ Plain(p2.comps)
         /\ WordOf(p2) = WordOf(op2) /\ GapsOf(p2) = Shifted(op1, GapsOf(op2))
<1> DEFINE s == XformComps(op1.comps, op2.comps)
           q1 == Op(op1.client_id, op2.hash, ZeroHash, s.prime1)
           q2 == Op(op2.client_id, op1.hash, ZeroHash, s.prime2)
           c1 == op1.comps
           c2 == op2.comps
<1>1. ot_xform(op1, op2) = IF s.failed THEN <<NULL, NULL>> ELSE <<q1, q2>>
  BY DEF ot_xform, Primes
<1>2. q1.comps = s.prime1 /\ q2.comps = s.prime2
  BY DEF Op
<1>3. c1 \in OperationsOver(X) /\ c2 \in OperationsOver(X) /\ BothPass(c1, c2)
  BY DEF CleanOver, BothPass
<1> HIDE DEF s, q1, q2
<1>4. /\ ~s.failed /\ s.prime2 \in OperationsOver(X)
  BY <1>3, XformResult DEF s, Merged
<1>5. Plain(s.prime1) /\ Plain(s.prime2) /\ Lifted(c1, c2, s.prime2)
  BY <1>3, XformOfPlain DEF s
<1>6. p1.comps = s.prime1 /\ p2.comps = s.prime2
  <2>1. <<p1, p2>> = <<q1, q2>>
    BY <1>1, <1>4
  <2> QED
    BY <1>2, <2>1
<1> DEFINE g == GapsOf(op2)
           u == GapsOf(p2)
           v == Shifted(op1, g)
<1>7. /\ g \in Seq(Nat) /\ u \in Seq(Nat) /\ Len(g) = Len(WordOf(op2)) /\ Len(u) = Len(WordOf(p2))
      /\ WordOf(p2) = WordOf(op2)
      /\ \A j \in 1..Len(g) : u[j] = Layout(c1).lift[g[j]]
  BY <1>3, <1>4, <1>5, <1>6, LayoutOfOperation DEF GapsOf, WordOf, Lifted
<1> HIDE DEF g, u
<1>8. v \in Seq(Nat) /\ Len(v) = Len(g) /\ \A j \in 1..Len(g) : v[j] = Layout(c1).lift[g[j]]
  BY <1>7, ShiftedIsGaps
<1> HIDE DEF v
<1>9. u = v
  BY <1>7, <1>8, SeqEqual
<1> QED
  BY <1>5, <1>6, <1>7, <1>9 DEF u, v, g

LEMMA ComposeOfPlainOps ==
  ASSUME NEW X, NEW op1, CleanOver(X, op1), Plain(op1.comps), NEW op2, CleanOver(X, op2),
         Plain(op2.comps), OutLen(op1.comps) = BaseLen(op2.comps),
         NEW r, r = ot_compose(op1, op2)
  PROVE  /\ r # NULL /\ CleanOver(X, r) /\ Plain(r.comps)
         /\ \A g \in Seq(Nat) : Shifted(r, g) = Shifted(op2, Shifted(op1, g))
<1> DEFINE s == ComposeComps(op1.comps, op2.comps)
           c1 == op1.comps
           c2 == op2.comps
<1>1. r # NULL /\ CleanOver(X, r)
  BY ComposeOfClean
<1>2. c1 \in OperationsOver(X) /\ c2 \in OperationsOver(X) /\ BothPass(c1, c2)
  BY DEF CleanOver, BothPass
<1>3. ~s.failed
  BY <1>2, ComposeResult
<1>4. r.comps = s.composed
  BY <1>3 DEF ot_compose, Composition, Op
<1>5. Plain(s.composed) /\ Chained(c1, c2, s.composed)
  BY <1>2, ComposeOfPlain
<1> HIDE DEF s
<1> QED
  BY <1>1, <1>4, <1>5, ShiftedTwice

\* The gaps on their way through the operations of a history, from version
\* from to version to.
Carried(h, from, to, run) ==
  /\ from \in Nat /\ to \in Nat /\ from <= to
  /\ run \in [from..to -> Seq(Nat)]
  /\ \A n \in (from + 1)..to : run[n] = Shifted(h[n], run[n - 1])

LEMMA CarriedAlone ==
  ASSUME NEW h, NEW from \in Nat, NEW g \in Seq(Nat)
  PROVE  \E run : Carried(h, from, from, run) /\ run[from] = g
<1> DEFINE run == [n \in from..from |-> g]
<1>1. \A n \in from..from : n = from
  OBVIOUS
<1>2. run \in [from..from -> Seq(Nat)] /\ run[from] = g
  OBVIOUS
<1>3. (from + 1)..from = {}
  OBVIOUS
<1> HIDE DEF run
<1>4. Carried(h, from, from, run)
  BY <1>2, <1>3 DEF Carried
<1> QED
  BY <1>2, <1>4

Continues(more, run, from, to) == \A n \in from..to : more[n] = run[n]

LEMMA CarriedFurther ==
  ASSUME NEW X, NEW h, NEW from, NEW to, NEW run, Carried(h, from, to, run),
         NEW m, m = to + 1, CleanOver(X, h[m])
  PROVE  \E more : Carried(h, from, m, more) /\ Continues(more, run, from, to)
<1> DEFINE next == Shifted(h[to + 1], run[to])
           more == [n \in from..(to + 1) |-> IF n = to + 1 THEN next ELSE run[n]]
<1>1. /\ from \in Nat /\ to \in Nat /\ from <= to
      /\ \A n \in from..to : run[n] \in Seq(Nat)
      /\ \A n \in (from + 1)..to : run[n] = Shifted(h[n], run[n - 1])
  BY DEF Carried
<1>2. next \in Seq(Nat)
  <2>1. to \in from..to
    BY <1>1
  <2> QED
    BY <1>1, <2>1, ShiftedIsGaps
<1>3. next = Shifted(h[to + 1], run[to])
  OBVIOUS
<1> HIDE DEF next
<1>4. /\ \A n \in from..to : more[n] = run[n]
      /\ more[to + 1] = next
  BY <1>1
<1>5. more \in [from..(to + 1) -> Seq(Nat)]
  <2>1. \A n \in from..(to + 1) : n # to + 1 => n \in from..to
    BY <1>1
  <2> QED
    BY <1>1, <1>2, <2>1
<1> HIDE DEF more
<1>6. ASSUME NEW n \in (from + 1)..(to + 1)
      PROVE  more[n] = Shifted(h[n], more[n - 1])
  <2>1. n - 1 \in from..to /\ more[n - 1] = run[n - 1]
    BY <1>1, <1>4
  <2>2. CASE n = to + 1
    BY <1>1, <1>3, <1>4, <2>1, <2>2
  <2>3. CASE n # to + 1
    <3>1. n \in (from + 1)..to /\ n \in from..to
      BY <1>1, <2>3
    <3> QED
      BY <1>1, <1>4, <2>1, <3>1
  <2> QED
    BY <2>2, <2>3
<1>7. Carried(h, from, to + 1, more)
  BY <1>1, <1>5, <1>6 DEF Carried
<1> QED
  BY <1>4, <1>7 DEF Continues

LEMMA CarriedToTheEnd ==
  ASSUME NEW X, NEW h, NEW from \in Nat, NEW N \in Nat, from <= N, NEW g \in Seq(Nat),
         Replays(X, h), N = Len(h)
  PROVE  \E run : Carried(h, from, N, run) /\ run[from] = g
<1> DEFINE T == {k \in Nat : from + k <= N =>
                    \E run : Carried(h, from, from + k, run) /\ run[from] = g}
<1>1. 0 \in T
  <2>1. from + 0 = from
    OBVIOUS
  <2>2. \E run : Carried(h, from, from, run) /\ run[from] = g
    BY CarriedAlone
  <2> QED
    BY <2>1, <2>2
<1>2. ASSUME NEW k \in Nat, k \in T PROVE k + 1 \in T
  <2> SUFFICES ASSUME from + (k + 1) <= N
               PROVE  \E run : Carried(h, from, from + (k + 1), run) /\ run[from] = g
    OBVIOUS
  <2> DEFINE to == from + k
  <2>1. to + 1 = from + (k + 1) /\ to + 1 \in 1..N /\ from \in from..to /\ from + k <= N
    OBVIOUS
  <2>2. PICK run : Carried(h, from, to, run) /\ run[from] = g
    BY <1>2, <2>1
  <2>4. CleanOver(X, h[to + 1])
    BY <2>1 DEF Replays
  <2> DEFINE m == to + 1
  <2>6. m = to + 1 /\ CleanOver(X, h[m])
    BY <2>4
  <2> HIDE DEF to, m
  <2>5. Carried(h, from, to, run)
    BY <2>2
  <2>3. PICK more : Carried(h, from, m, more) /\ Continues(more, run, from, to)
    BY <2>5, <2>6, CarriedFurther
  <2> QED
    BY <2>1, <2>2, <2>3, <2>6 DEF Continues
<1>3. Nat \subseteq T
  <2> HIDE DEF T
  <2> QED
    BY <1>1, <1>2, SetInduction
<1> DEFINE K == N - from
<1>4. K \in Nat /\ from + K = N
  OBVIOUS
<1> HIDE DEF K
<1>5. K \in T
  BY <1>3, <1>4
<1> QED
  BY <1>4, <1>5

\* A history and one that begins with it.
LEMMA CarriedAlike ==
  ASSUME NEW h, NEW g, NEW from, NEW to, NEW run, Carried(h, from, to, run),
         \A n \in 1..to : g[n] = h[n]
  PROVE  Carried(g, from, to, run)
<1>1. \A n \in (from + 1)..to : n \in 1..to
  BY DEF Carried
<1> QED
  BY <1>1 DEF Carried

\* Operations that only insert never shorten the text; where it is as long as
\* it was, they did nothing to it and took no gap anywhere.
OnlyInserts(h) == \A n \in 1..Len(h) : Plain(h[n].comps)

LEMMA SkipIsPlain ==
  ASSUME NEW n \in Nat, n # 0
  PROVE  Plain(Append(<<>>, SkipComp(n)))
<1> DEFINE none == <<>>
           c == SkipComp(n)
           r == Append(none, c)
<1>1. none \in OperationsOver({}) /\ DeletesNothing(none)
  BY EmptyOperation, LengthsOfEmpty DEF DeletesNothing
<1>2. DeletesNothing(r)
  <2> HIDE DEF none
  <2> QED
    BY <1>1, DeletesNothingMore
<1>3. c.type = "skip" /\ ot_comp_size(c) = n
  BY DEF SkipComp, ot_comp_size
<1>4. Len(r) = 1 /\ r[1] = c
  <2> HIDE DEF c
  <2> QED
    OBVIOUS
<1> HIDE DEF r, c
<1>5. c.type \notin Stubs /\ ~IsEmpty(c)
  BY <1>3 DEF Stubs, IsEmpty
<1>6. IsNormal(r) /\ Passable(r)
  BY <1>4, <1>5 DEF IsNormal, Passable
<1> QED
  BY <1>2, <1>6 DEF Plain, WellMade, r, c, none

LEMMA NothingDone ==
  ASSUME NEW X, NEW p \in OperationsOver(X), Plain(p), OutLen(p) = BaseLen(p),
         NEW text \in Seq(X), Len(text) = BaseLen(p)
  PROVE  ApplyTo(p, text) = text
<1> DEFINE n == BaseLen(p)
           none == <<>>
           q == IF n = 0 THEN none ELSE Append(none, SkipComp(n))
<1>1. n \in Nat
  BY LengthsAreNat
<1>2. /\ BaseLen(none) = 0 /\ Volume(none) = 0 /\ none \in OperationsOver(X)
      /\ OutLen(none) = 0
      /\ Layout(none).word = <<>> /\ Layout(none).gaps = <<>>
  BY LengthsOfEmpty, EmptyOperation, LayoutOfEmpty DEF NoLayout
<1>3. /\ Volume(p) = n + Len(Layout(p).word) /\ Len(Layout(p).word) \in Nat
      /\ Len(Layout(p).gaps) = Len(Layout(p).word)
      /\ Layout(p).word \in Seq(X) /\ Layout(p).gaps \in Seq(Nat)
  BY LayoutOfOperation
<1>4. Volume(p) = n
  BY DEF Plain, DeletesNothing
<1>5. Layout(p).word = <<>> /\ Layout(p).gaps = <<>>
  <2> DEFINE w == Layout(p).word
             g == Layout(p).gaps
  <2>1. w \in Seq(X) /\ Len(w) = 0
    BY <1>1, <1>3, <1>4
  <2>2. g \in Seq(Nat) /\ Len(g) = 0
    BY <1>1, <1>3, <1>4
  <2> HIDE DEF w, g
  <2>3. w = <<>> /\ g = <<>>
    BY <2>1, <2>2
  <2> QED
    BY <2>3 DEF w, g
<1> HIDE DEF n, none
<1>6. CASE n = 0
  <2>1. Plain(none)
    BY NothingIsPlain DEF none
  <2>2. Same(p, none)
    BY <1>2, <1>5, <1>6 DEF Same, n
  <2>3. p = none
    BY <1>2, <2>1, <2>2, SameOperation
  <2>4. text = <<>>
    BY <1>6 DEF n
  <2>5. ApplyTo(<<>>, text) = <<>>
    BY MadeOfEmpty
  <2> QED
    BY <2>3, <2>4, <2>5 DEF none
<1>7. CASE n # 0
  <2> DEFINE r == Append(none, SkipComp(n))
  <2>1. /\ r \in OperationsOver(X) /\ BaseLen(r) = n
        /\ Layout(r).word = <<>> /\ Layout(r).gaps = <<>>
    <3>1. none \in OperationsOver(X) /\ Layout(none).word = <<>> /\ Layout(none).gaps = <<>>
          /\ BaseLen(none) = 0
      BY <1>2
    <3> HIDE DEF none
    <3>2. /\ r \in OperationsOver(X) /\ BaseLen(r) = BaseLen(none) + n
          /\ Layout(r).word = Layout(none).word /\ Layout(r).gaps = Layout(none).gaps
      BY <1>1, <3>1, LayoutWithSkip
    <3> QED
      BY <1>1, <3>1, <3>2
  <2>2. Plain(r)
    BY <1>1, <1>7, SkipIsPlain DEF none
  <2> HIDE DEF r
  <2>3. Same(p, r)
    BY <1>5, <2>1 DEF Same, n
  <2>4. p = r
    BY <2>1, <2>2, <2>3, SameOperation
  <2>5. ApplyTo(r, <<>> \o text) = ApplyTo(none, <<>>) \o text
    <3> DEFINE a == <<>>
    <3>1. a \in Seq(X) /\ Len(a) = BaseLen(none) /\ Len(text) = n /\ none \in OperationsOver(X)
      BY <1>2 DEF n
    <3> HIDE DEF none, a
    <3>2. ApplyTo(Append(none, SkipComp(n)), a \o text) = ApplyTo(none, a) \o text
      BY <1>1, <3>1, SkipAtEnd
    <3> QED
      BY <3>2 DEF r, a
  <2>6. ApplyTo(none, <<>>) = <<>> /\ <<>> \o text = text
    <3>1. ApplyTo(<<>>, text) = <<>> /\ <<>> \in Seq(X)
      BY MadeOfEmpty
    <3>2. ApplyTo(<<>>, <<>>) = <<>>
      BY <3>1, MadeOfEmpty
    <3> QED
      BY <3>2 DEF none
  <2> QED
    BY <2>4, <2>5, <2>6
<1> QED
  BY <1>6, <1>7

\* Operations that only insert never shorten the text.  Between two versions
\* with texts of the same length they did nothing to it and took no gap
\* anywhere.
IdleBetween(h, s, t) ==
  \A n \in (s + 1)..t : Plain(h[n].comps) /\ OutLen(h[n].comps) = BaseLen(h[n].comps)

LEMMA TextsGrow ==
  ASSUME NEW X, NEW h, Replays(X, h), OnlyInserts(h), Len(h) \in Nat, NEW n \in 1..Len(h)
  PROVE  /\ Len(TextIn(h, n - 1)) \in Nat /\ Len(TextIn(h, n)) \in Nat
         /\ Len(TextIn(h, n - 1)) <= Len(TextIn(h, n))
         /\ BaseLen(h[n].comps) = Len(TextIn(h, n - 1)) /\ OutLen(h[n].comps) = Len(TextIn(h, n))
<1> DEFINE p == h[n].comps
<1>1. /\ p \in OperationsOver(X) /\ Plain(p)
      /\ BaseLen(p) = Len(TextIn(h, n - 1)) /\ OutLen(p) = Len(TextIn(h, n))
  BY DEF Replays, OnlyInserts, CleanOver
<1> HIDE DEF p
<1>2. BaseLen(p) \in Nat /\ OutLen(p) \in Nat
  BY <1>1, LengthsAreNat
<1>3. Volume(p) = BaseLen(p) + Len(Layout(p).word) /\ Len(Layout(p).word) \in Nat
  BY <1>1, LayoutOfOperation
<1>4. Volume(p) = OutLen(p)
  BY <1>1 DEF Plain, DeletesNothing
<1>5. BaseLen(p) <= OutLen(p)
  BY <1>2, <1>3, <1>4
<1> QED
  BY <1>1, <1>2, <1>5 DEF p

LEMMA TextsNeverShrink ==
  ASSUME NEW X, NEW h, Replays(X, h), OnlyInserts(h), NEW N \in Nat, Len(h) = N,
         NEW s \in 0..N, NEW t \in 0..N, s <= t
  PROVE  Len(TextIn(h, s)) \in Nat /\ Len(TextIn(h, s)) <= Len(TextIn(h, t))
<1> DEFINE L(n) == Len(TextIn(h, n))
           T == {k \in Nat : s + k <= N => L(s) \in Nat /\ L(s + k) \in Nat /\ L(s) <= L(s + k)}
<1>1. L(s) \in Nat
  <2>1. CASE s = 0
    BY <2>1 DEF TextIn
  <2>2. CASE s # 0
    <3>1. s \in 1..N
      BY <2>2
    <3> QED
      BY <3>1, TextsGrow
  <2> QED
    BY <2>1, <2>2
<1>2. \A n \in 1..N : L(n - 1) \in Nat /\ L(n) \in Nat /\ L(n - 1) <= L(n)
  BY TextsGrow
<1> HIDE DEF L
<1>3. 0 \in T
  <2>1. s + 0 = s
    OBVIOUS
  <2> QED
    BY <1>1, <2>1
<1>4. ASSUME NEW k \in Nat, k \in T PROVE k + 1 \in T
  <2> SUFFICES ASSUME s + (k + 1) <= N
               PROVE  L(s) \in Nat /\ L(s + (k + 1)) \in Nat /\ L(s) <= L(s + (k + 1))
    OBVIOUS
  <2> DEFINE n == s + (k + 1)
  <2>1. n \in 1..N /\ n - 1 = s + k /\ s + k <= N
    OBVIOUS
  <2>2. L(s) \in Nat /\ L(s + k) \in Nat /\ L(s) <= L(s + k)
    BY <1>4, <2>1
  <2>3. L(n - 1) \in Nat /\ L(n) \in Nat /\ L(n - 1) <= L(n)
    BY <1>2, <2>1
  <2> QED
    BY <2>1, <2>2, <2>3
<1>5. Nat \subseteq T
  <2> HIDE DEF T
  <2> QED
    BY <1>3, <1>4, SetInduction
<1> DEFINE K == t - s
<1>6. K \in Nat /\ s + K = t /\ t <= N
  OBVIOUS
<1> HIDE DEF K
<1>7. K \in T
  BY <1>5, <1>6
<1>8. L(s) \in Nat /\ L(s) <= L(t)
  BY <1>6, <1>7
<1> QED
  BY <1>8 DEF L

LEMMA SameLengthIsIdle ==
  ASSUME NEW X, NEW h, Replays(X, h), OnlyInserts(h), NEW N \in Nat, Len(h) = N,
         NEW s \in 0..N, NEW t \in 0..N, s <= t, Len(TextIn(h, s)) = Len(TextIn(h, t))
  PROVE  IdleBetween(h, s, t)
<1> SUFFICES ASSUME NEW n \in (s + 1)..t
             PROVE  Plain(h[n].comps) /\ OutLen(h[n].comps) = BaseLen(h[n].comps)
  BY DEF IdleBetween
<1> DEFINE m == n - 1
<1>1. n \in 1..N /\ m \in 0..N /\ n \in 0..N /\ s <= m /\ n <= t
  OBVIOUS
<1>2. /\ Len(TextIn(h, m)) \in Nat /\ Len(TextIn(h, n)) \in Nat
      /\ Len(TextIn(h, m)) <= Len(TextIn(h, n))
      /\ BaseLen(h[n].comps) = Len(TextIn(h, m)) /\ OutLen(h[n].comps) = Len(TextIn(h, n))
  BY <1>1, TextsGrow
<1> HIDE DEF m
<1>3. Len(TextIn(h, s)) \in Nat /\ Len(TextIn(h, s)) <= Len(TextIn(h, m))
  BY <1>1, TextsNeverShrink
<1>4. Len(TextIn(h, n)) <= Len(TextIn(h, t)) /\ Len(TextIn(h, n)) \in Nat
  BY <1>1, TextsNeverShrink
<1>5. Plain(h[n].comps)
  BY <1>1 DEF OnlyInserts
<1> QED
  BY <1>2, <1>3, <1>4, <1>5

LEMMA IdleKeepsText ==
  ASSUME NEW X, NEW h, Replays(X, h), NEW N \in Nat, Len(h) = N,
         NEW s \in 0..N, NEW t \in 0..N, IdleBetween(h, s, t), NEW n \in s..t
  PROVE  TextIn(h, n) = TextIn(h, s)
<1> DEFINE T == {k \in Nat : s + k <= t => TextIn(h, s + k) = TextIn(h, s)}
<1>1. 0 \in T
  OBVIOUS
<1>2. ASSUME NEW k \in Nat, k \in T PROVE k + 1 \in T
  <2> SUFFICES ASSUME s + (k + 1) <= t PROVE TextIn(h, s + (k + 1)) = TextIn(h, s)
    OBVIOUS
  <2> DEFINE m == s + (k + 1)
             p == h[m].comps
             text == TextIn(h, m - 1)
  <2>1. m \in 1..N /\ m \in (s + 1)..t /\ m - 1 = s + k /\ s + k <= t
    OBVIOUS
  <2>2. /\ p \in OperationsOver(X) /\ BaseLen(p) = Len(text) /\ ApplyTo(p, text) = TextIn(h, m)
    BY <2>1 DEF Replays, CleanOver
  <2>3. text \in Seq(X)
    <3>1. CASE m = 1
      BY <3>1 DEF TextIn
    <3>2. CASE m # 1
      <4> DEFINE j == m - 1
      <4>1. j \in 1..Len(h)
        BY <2>1, <3>2
      <4> HIDE DEF j
      <4>2. TextIn(h, j) \in Seq(X)
        BY <4>1 DEF Replays
      <4> QED
        BY <4>2 DEF j
    <3> QED
      BY <3>1, <3>2
  <2>4. Plain(p) /\ OutLen(p) = BaseLen(p)
    BY <2>1 DEF IdleBetween
  <2>5. TextIn(h, s + k) = TextIn(h, s)
    BY <1>2, <2>1
  <2>6. TextIn(h, m - 1) = TextIn(h, s)
    BY <2>1, <2>5
  <2> HIDE DEF p, text
  <2>7. ApplyTo(p, text) = text
    BY <2>2, <2>3, <2>4, NothingDone
  <2> QED
    BY <2>2, <2>6, <2>7 DEF text
<1>3. Nat \subseteq T
  <2> HIDE DEF T
  <2> QED
    BY <1>1, <1>2, SetInduction
<1> DEFINE K == n - s
<1>4. K \in Nat /\ s + K = n /\ n <= t
  OBVIOUS
<1> HIDE DEF K
<1>5. K \in T
  BY <1>3, <1>4
<1> QED
  BY <1>4, <1>5

LEMMA IdleKeepsGaps ==
  ASSUME NEW X, NEW h, NEW from, NEW to, NEW run, Carried(h, from, to, run),
         NEW s \in Nat, NEW t \in Nat, from <= s, t <= to, IdleBetween(h, s, t),
         Replays(X, h), to <= Len(h), Len(h) \in Nat, NEW n \in s..t
  PROVE  run[n] = run[s]
<1>1. /\ from \in Nat /\ to \in Nat
      /\ \A m \in from..to : run[m] \in Seq(Nat)
      /\ \A m \in (from + 1)..to : run[m] = Shifted(h[m], run[m - 1])
      /\ \A m \in 1..Len(h) : CleanOver(X, h[m])
  BY DEF Carried, Replays
<1> DEFINE T == {k \in Nat : s + k <= t => run[s + k] = run[s]}
<1>2. 0 \in T
  OBVIOUS
<1>3. ASSUME NEW k \in Nat, k \in T PROVE k + 1 \in T
  <2> SUFFICES ASSUME s + (k + 1) <= t PROVE run[s + (k + 1)] = run[s]
    OBVIOUS
  <2> DEFINE m == s + (k + 1)
             op == h[m]
             g == run[m - 1]
  <2>1. m \in (s + 1)..t /\ m \in (from + 1)..to /\ m \in 1..Len(h) /\ m - 1 \in from..to
        /\ m - 1 = s + k /\ s + k <= t
    BY <1>1
  <2>2. run[m] = Shifted(op, g) /\ g \in Seq(Nat) /\ CleanOver(X, op)
    BY <1>1, <2>1
  <2>3. Plain(op.comps) /\ OutLen(op.comps) = BaseLen(op.comps)
    BY <2>1 DEF IdleBetween
  <2>4. run[s + k] = run[s]
    BY <1>3, <2>1
  <2>5. run[m - 1] = run[s]
    BY <2>1, <2>4
  <2> HIDE DEF op, g
  <2>6. Volume(op.comps) = BaseLen(op.comps)
    BY <2>3 DEF Plain, DeletesNothing
  <2>7. Shifted(op, g) = g
    BY <2>2, <2>6, ShiftedByNothing
  <2> QED
    BY <2>2, <2>5, <2>7 DEF g
<1>4. Nat \subseteq T
  <2> HIDE DEF T
  <2> QED
    BY <1>2, <1>3, SetInduction
<1> DEFINE K == n - s
<1>5. K \in Nat /\ s + K = n /\ n <= t
  OBVIOUS
<1> HIDE DEF K
<1>6. K \in T
  BY <1>4, <1>5
<1> QED
  BY <1>5, <1>6

\* What ot_doc_compose_after composes takes gaps where the operations it
\* composes take them one after the other, from whichever version with that
\* text.
LEMMA ComposeNextLifts ==
  ASSUME NEW X, NEW x, NEW y, NEW a, NEW b, NEW c, Spans(X, x, a, b), Spans(X, y, b, c),
         Plain(x.comps), Plain(y.comps), NEW g \in Seq(Nat)
  PROVE  /\ Plain(ComposeNext(x, y).comps)
         /\ Shifted(ComposeNext(x, y), g) = Shifted(y, Shifted(x, g))
<1>1. x # NULL /\ CleanOver(X, x) /\ CleanOver(X, y) /\ OutLen(x.comps) = BaseLen(y.comps)
  BY DEF Spans
<1> DEFINE r == ot_compose(x, y)
<1>2. ComposeNext(x, y) = r
  BY <1>1 DEF ComposeNext
<1>3. r = ot_compose(x, y)
  OBVIOUS
<1> HIDE DEF r
<1>4. Plain(r.comps) /\ \A f \in Seq(Nat) : Shifted(r, f) = Shifted(y, Shifted(x, f))
  BY <1>1, <1>3, ComposeOfPlainOps
<1> QED
  BY <1>2, <1>4

\* Composed from any version on, such a history takes gaps where its operations
\* take them one after the other.
LEMMA ComposedLifts ==
  ASSUME NEW X, NEW h, Replays(X, h), OnlyInserts(h), NEW N \in Nat, Len(h) = N,
         NEW start \in 1..N, NEW p, p = start - 1, NEW run, Carried(h, p, N, run)
  PROVE  /\ Spans(X, ComposeFrom(h, start), Len(TextIn(h, p)), Len(TextIn(h, N)))
         /\ Plain(ComposeFrom(h, start).comps)
         /\ Shifted(ComposeFrom(h, start), run[p]) = run[N]
<1> DEFINE g == run[p]
           L(i) == Len(TextIn(h, i))
<1>2. /\ \A i \in 1..N : Spans(X, h[i], L(i - 1), L(i)) /\ CleanOver(X, h[i])
      /\ \A i \in 1..N : Plain(h[i].comps)
  <2>1. \A i \in 1..N : /\ h[i] # NULL /\ CleanOver(X, h[i]) /\ Plain(h[i].comps)
                        /\ BaseLen(h[i].comps) = L(i - 1) /\ OutLen(h[i].comps) = L(i)
    BY DEF Replays, OnlyInserts
  <2> HIDE DEF L
  <2> QED
    BY <2>1 DEF Spans
<1>3. /\ \A m \in p..N : run[m] \in Seq(Nat)
      /\ \A m \in (p + 1)..N : run[m] = Shifted(h[m], run[m - 1])
  BY DEF Carried
<1>4. g \in Seq(Nat) /\ p + 1 = start
  BY <1>3
<1> DEFINE M == N - start
<1>5. M \in Nat
  OBVIOUS
<1>6. PICK made : SinceRun(h, start, M, made) /\ ComposeFrom(h, start) = made[M]
  <2>1. M = Len(h) - start
    OBVIOUS
  <2> HIDE DEF M
  <2> QED
    BY <1>5, <2>1, SinceIsRun
<1> HIDE DEF M, L, g
<1>7. made[0] = ot_dup_op(h[start]) /\ \A k \in 1..M : made[k] = ComposeNext(made[k - 1], h[start + k])
  <2>1. \A k \in 0..M : made[k] = IF k = 0 THEN ot_dup_op(h[start]) ELSE ComposeNext(made[k - 1], h[start + k])
    BY <1>6 DEF SinceRun
  <2>2. 0 \in 0..M /\ \A k \in 1..M : k \in 0..M /\ k # 0
    BY <1>5
  <2> QED
    BY <2>1, <2>2
<1> DEFINE Good(k) == /\ Spans(X, made[k], L(p), L(start + k)) /\ Plain(made[k].comps)
                      /\ Shifted(made[k], g) = run[start + k]
           T == {k \in Nat : k <= M => Good(k)}
<1>8. 0 \in T
  <2>1. start + 0 = start /\ start \in (p + 1)..N /\ start - 1 = p
    OBVIOUS
  <2>2. run[start] = Shifted(h[start], g)
    BY <1>3, <2>1 DEF g
  <2>3. Spans(X, h[start], L(p), L(start)) /\ CleanOver(X, h[start]) /\ Plain(h[start].comps)
    BY <1>2, <2>1
  <2>4. Spans(X, made[0], L(p), L(start))
    BY <1>7, <2>3, CopySpans
  <2>5. made[0].comps = h[start].comps
    BY <1>7, <2>3, CopyOfClean DEF Plain
  <2>6. Plain(made[0].comps) /\ Shifted(made[0], g) = run[start]
    BY <2>2, <2>3, <2>5 DEF Shifted
  <2> QED
    BY <2>1, <2>4, <2>6
<1>9. ASSUME NEW k \in Nat, k \in T PROVE k + 1 \in T
  <2> SUFFICES ASSUME k + 1 <= M PROVE Good(k + 1)
    OBVIOUS
  <2> DEFINE m == start + (k + 1)
             x == made[k]
             y == h[m]
  <2>1. /\ k + 1 \in 1..M /\ (k + 1) - 1 = k /\ k <= M
        /\ m \in 1..N /\ m \in (p + 1)..N /\ m - 1 = start + k
    BY <1>5 DEF M
  <2>2. Spans(X, x, L(p), L(start + k)) /\ Plain(x.comps) /\ Shifted(x, g) = run[start + k]
    BY <1>9, <2>1
  <2>3. Spans(X, y, L(start + k), L(m)) /\ Plain(y.comps)
    BY <1>2, <2>1
  <2>4. made[k + 1] = ComposeNext(x, y)
    BY <1>7, <2>1
  <2>5. run[m] = Shifted(y, run[start + k])
    BY <1>3, <2>1
  <2> HIDE DEF x, y, m
  <2>6. Spans(X, ComposeNext(x, y), L(p), L(m))
    BY <2>2, <2>3, ComposeNextSpans
  <2>7. /\ Plain(ComposeNext(x, y).comps)
        /\ Shifted(ComposeNext(x, y), g) = Shifted(y, Shifted(x, g))
    BY <1>4, <2>2, <2>3, ComposeNextLifts
  <2> QED
    BY <2>2, <2>4, <2>5, <2>6, <2>7 DEF m
<1>10. Nat \subseteq T
  <2> HIDE DEF T
  <2> QED
    BY <1>8, <1>9, SetInduction
<1>11. Good(M)
  BY <1>5, <1>10
<1>12. start + M = N
  BY DEF M
<1> QED
  BY <1>6, <1>11, <1>12 DEF g, L

LEMMA SinceLifts ==
  ASSUME NEW X, NEW d, CleanDoc(X, d), NEW h, h = d.history, Replays(X, h), OnlyInserts(h),
         NEW N \in Nat, Len(h) = N, NEW n \in 0..N, HashIn(h, n) # d.composed.hash,
         NEW run, Carried(h, n, N, run),
         NEW since, since = ot_doc_compose_after(d, HashIn(h, n))
  PROVE  Plain(since.comps) /\ Shifted(since, run[n]) = run[N]
<1> DEFINE start == Start(d, HashIn(h, n))
           p == start - 1
           g == run[n]
<1>1. /\ start \in 1..N /\ n <= p /\ TextIn(h, p) = TextIn(h, n)
      /\ since = ComposeFrom(h, start)
  BY SinceStarts
<1> HIDE DEF start
<1>3. /\ \A m \in n..N : run[m] \in Seq(Nat)
      /\ \A m \in (n + 1)..N : run[m] = Shifted(h[m], run[m - 1])
  BY DEF Carried
<1>4. run[p] = g /\ g \in Seq(Nat)
  <2>1. p \in 0..N /\ n \in n..N /\ p \in n..p /\ p \in Nat /\ n \in Nat /\ p <= N
          /\ n <= n /\ N <= Len(h) /\ Len(h) \in Nat
    BY <1>1
  <2>2. Len(TextIn(h, n)) = Len(TextIn(h, p))
    BY <1>1
  <2> HIDE DEF p
  <2>3. IdleBetween(h, n, p)
    BY <1>1, <2>1, <2>2, SameLengthIsIdle
  <2>4. run[p] = run[n]
    BY <2>1, <2>3, IdleKeepsGaps
  <2> QED
    BY <1>3, <2>1, <2>4
<1> DEFINE rest == [m \in p..N |-> run[m]]
<1>5. Carried(h, p, N, rest) /\ rest[p] = run[p] /\ rest[N] = run[N]
  <2>1. /\ p \in Nat /\ p <= N /\ p \in p..N /\ N \in p..N
        /\ \A m \in p..N : m \in n..N
        /\ \A m \in (p + 1)..N : m \in (n + 1)..N /\ m \in p..N /\ m - 1 \in p..N
    BY <1>1
  <2> HIDE DEF p
  <2>2. rest \in [p..N -> Seq(Nat)]
    BY <1>3, <2>1
  <2>3. \A m \in (p + 1)..N : rest[m] = Shifted(h[m], rest[m - 1])
    BY <1>3, <2>1
  <2> HIDE DEF rest
  <2>4. Carried(h, p, N, rest)
    BY <2>1, <2>2, <2>3 DEF Carried
  <2> QED
    BY <2>1, <2>4 DEF rest
<1> HIDE DEF rest
<1>6. /\ Plain(ComposeFrom(h, start).comps)
      /\ Shifted(ComposeFrom(h, start), rest[p]) = rest[N]
  BY <1>1, <1>5, ComposedLifts
<1> QED
  BY <1>1, <1>4, <1>5, <1>6 DEF g

-----------------------------------------------------------------------------
\* What the server makes of an operation inserts the same characters, in the
\* gaps that the operations appended since have taken them to.
LEMMA ServerCarries ==
  ASSUME DocOrNone(server_doc), ServerTells, OnlyInserts(History), NEW op, op # NULL, Fine(op),
         Plain(op.comps), NEW n, BasedOn(op, n), NEW run, Carried(History, n, Version, run),
         run[n] = GapsOf(op), NEW r, r = Received(op)
  PROVE  /\ Plain(r.op.comps) /\ WordOf(r.op) = WordOf(op) /\ GapsOf(r.op) = run[Version]
         /\ BaseLen(r.op.comps) = Len(TextOf(server_doc))
<1> DEFINE d == server_doc
           e == Opened(d)
<1>1. ASSUME NEW x, Fine(x), BaseLen(x.comps) = Len(TextOf(server_doc)), r = ot_doc_append(e, x),
             Plain(x.comps), WordOf(x) = WordOf(op), GapsOf(x) = run[Version]
      PROVE  /\ Plain(r.op.comps) /\ WordOf(r.op) = WordOf(op) /\ GapsOf(r.op) = run[Version]
             /\ BaseLen(r.op.comps) = Len(TextOf(server_doc))
  <2>1. CanOpen(d, x)
    BY <1>1, EmptySequence DEF CanOpen, TextOf
  <2>2. r.op.comps = x.comps
    BY <1>1, <2>1, AppendToAny
  <2> QED
    BY <1>1, <2>2 DEF WordOf, GapsOf
<1>2. CASE d = NULL
  <2>1. r = ot_doc_append(e, op)
    BY <1>2 DEF Received, ReceivedOn, append_op, Opened
  <2>2. Version = 0
    BY <1>2 DEF Version
  <2>3. n = 0
    BY <2>2 DEF BasedOn
  <2>4. BaseLen(op.comps) = Len(TextOf(d))
    BY <1>2, <2>3 DEF BasedOn, TextIn, TextOf
  <2> HIDE DEF e
  <2> QED
    BY <1>1, <2>1, <2>2, <2>3, <2>4
<1>3. CASE MadeDoc(d)
  <2> DEFINE h == d.history
             N == Len(h)
  <2>1. /\ d # NULL /\ e = d /\ CleanDoc(Letters, d) /\ h = History /\ Version = N
        /\ N \in Nat
    <3>1. d # NULL
      BY <1>3, MadeDocText
    <3>2. IsSequence(h)
      BY <1>3 DEF MadeDoc, IsDoc
    <3>3. N \in Nat
      <4> HIDE DEF h
      <4> QED
        BY <3>2, AppendedSequence
    <3> QED
      BY <1>3, <3>1, <3>3 DEF MadeDoc, Opened, History, Version
  <2>2. /\ n \in 0..N /\ op.parent = HashIn(h, n) /\ BaseLen(op.comps) = Len(TextIn(h, n))
        /\ TextIn(h, N) = TextOf(d) /\ Replays(Letters, h) /\ OnlyInserts(h)
        /\ Carried(h, n, N, run)
    BY <2>1 DEF BasedOn, ServerTells
  <2>3. d.composed.hash = HashOf(TextOf(d))
    <3>1. \A i \in 1..N : h[i].hash = HashOf(TextIn(h, i))
      BY <2>2 DEF Replays
    <3>2. h # <<>> /\ d.composed.hash = h[N].hash
      BY <2>1 DEF CleanDoc, Last
    <3>3. h \in Seq(ToSet(h))
      BY <2>1 DEF CleanDoc
    <3> HIDE DEF h
    <3>4. N \in 1..N
      BY <2>1, <3>2, <3>3
    <3> QED
      BY <2>2, <3>1, <3>2, <3>4
  <2> HIDE DEF N
  <2>4. CASE can_append(d, op)
    <3>1. r = ot_doc_append(e, op)
      BY <2>1, <2>4 DEF Received, ReceivedOn, append_op
    <3>2. op.parent = HashOf(TextOf(d))
      BY <2>1, <2>3, <2>4 DEF can_append, CleanDoc
    <3>3. n # 0
      <4> SUFFICES ASSUME n = 0 PROVE FALSE
        OBVIOUS
      <4>1. op.parent = ZeroHash
        BY <2>2 DEF HashIn
      <4> QED
        BY <3>2, <4>1, NoTextHashesToZero
    <3>4. n \in 1..N
      BY <2>1, <2>2, <3>3
    <3>5. HashOf(TextIn(h, n)) = HashOf(TextOf(d))
      BY <2>2, <3>2, <3>3, <3>4 DEF HashIn, Replays, N
    <3>6. TextIn(h, n) = TextOf(d)
      BY <3>5 DEF HashOf
    <3>7. BaseLen(op.comps) = Len(TextOf(d))
      BY <2>2, <3>6
    <3>8. run[N] = run[n]
      <4>1. /\ Len(TextIn(h, n)) = Len(TextIn(h, N)) /\ N \in 0..N /\ n <= N /\ n <= n /\ N <= N
            /\ N \in n..N /\ n \in Nat /\ Len(h) = N
        BY <2>1, <2>2, <3>6 DEF N
      <4> HIDE DEF h
      <4>2. IdleBetween(h, n, N)
        BY <2>1, <2>2, <4>1, SameLengthIsIdle
      <4> QED
        BY <2>1, <2>2, <4>1, <4>2, IdleKeepsGaps
    <3> HIDE DEF e
    <3> QED
      BY <1>1, <2>1, <3>1, <3>7, <3>8
  <2>5. CASE ~can_append(d, op)
    <3> DEFINE since == ot_doc_compose_after(d, op.parent)
               x == xform(d, op)
    <3>1. op.parent # d.composed.hash
      BY <2>1, <2>5 DEF can_append, CleanDoc
    <3>2. Spans(Letters, since, Len(TextIn(h, n)), Len(TextOf(d)))
      <4>1. n \in 0..Len(d.history) /\ HashIn(d.history, n) # d.composed.hash
            /\ Replays(Letters, d.history) /\ op.parent = HashIn(d.history, n)
            /\ TextIn(d.history, Len(d.history)) = TextOf(d)
        BY <2>2, <3>1 DEF N
      <4> QED
        BY <2>1, <4>1, SinceSpans
    <3>3. Plain(since.comps) /\ Shifted(since, run[n]) = run[N]
      <4>1. h = d.history /\ Len(h) = N /\ since = ot_doc_compose_after(d, HashIn(h, n))
            /\ HashIn(h, n) # d.composed.hash
        BY <2>2, <3>1 DEF N
      <4> HIDE DEF h, since
      <4> QED
        BY <2>1, <2>2, <4>1, SinceLifts
    <3>4. x = IF since = NULL THEN NULL ELSE ot_xform(since, op)[2]
      BY DEF xform, XformAfter
    <3> HIDE DEF since
    <3>5. since # NULL /\ CleanOver(Letters, since) /\ CleanOver(Letters, op)
          /\ BaseLen(since.comps) = BaseLen(op.comps) /\ OutLen(since.comps) = Len(TextOf(d))
      BY <2>2, <3>2 DEF Spans, Fine
    <3>6. PICK p1, p2 : /\ ot_xform(since, op) = <<p1, p2>>
                        /\ p1 # NULL /\ p2 # NULL
                        /\ CleanOver(Letters, p1) /\ CleanOver(Letters, p2)
                        /\ Merged(Letters, since.comps, op.comps, p1.comps, p2.comps)
      BY <3>5, XformOfClean
    <3>7. x = p2
      BY <3>4, <3>5, <3>6
    <3>8. x # NULL /\ Fine(x) /\ BaseLen(x.comps) = Len(TextOf(d))
      BY <3>5, <3>6, <3>7 DEF Merged, Fine
    <3>9. Plain(p2.comps) /\ WordOf(p2) = WordOf(op) /\ GapsOf(p2) = Shifted(since, GapsOf(op))
      BY <3>3, <3>5, <3>6, XformOfPlainOps
    <3>10. r = append_op(d, x)
      BY <2>1, <2>5 DEF Received, ReceivedOn
    <3> HIDE DEF x
    <3>11. r = ot_doc_append(e, x)
      BY <2>1, <3>8, <3>10 DEF append_op
    <3>12. GapsOf(x) = run[Version]
      BY <2>1, <3>3, <3>7, <3>9
    <3> HIDE DEF e
    <3> QED
      BY <1>1, <3>7, <3>8, <3>9, <3>11, <3>12
  <2> QED
    BY <2>4, <2>5
<1> QED
  BY <1>2, <1>3 DEF DocOrNone

\* So does what it would make of the operation knowing the version.
LEMMA VersionCarries ==
  ASSUME MadeDoc(server_doc), ServerTells, OnlyInserts(History), NEW op, op # NULL, Fine(op),
         Plain(op.comps), NEW n, BasedOn(op, n), NEW run, Carried(History, n, Version, run),
         run[n] = GapsOf(op), NEW x, x = ByVersion(op, n)
  PROVE  /\ Plain(x.comps) /\ WordOf(x) = WordOf(op) /\ GapsOf(x) = run[Version]
         /\ Fine(x) /\ BaseLen(x.comps) = Len(TextOf(server_doc))
<1> DEFINE d == server_doc
           h == d.history
           N == Len(h)
<1>1. h = History /\ Version = N /\ N \in Nat
  <2>1. d # NULL
    BY MadeDocText
  <2>2. IsSequence(h)
    BY DEF MadeDoc, IsDoc
  <2>3. N \in Nat
    <3> HIDE DEF h
    <3> QED
      BY <2>2, AppendedSequence
  <2> QED
    BY <2>1, <2>3 DEF History, Version
<1>2. /\ n \in 0..N /\ BaseLen(op.comps) = Len(TextIn(h, n))
      /\ TextIn(h, N) = TextOf(d) /\ Replays(Letters, h) /\ OnlyInserts(h)
      /\ Carried(h, n, N, run)
  BY <1>1 DEF BasedOn, ServerTells
<1>3. CASE n = N
  <2>1. x = op
    BY <1>1, <1>3 DEF ByVersion
  <2> HIDE DEF h, N, d
  <2>2. BaseLen(x.comps) = Len(TextOf(d))
    BY <1>2, <1>3, <2>1
  <2> QED
    BY <1>1, <1>3, <2>1, <2>2 DEF d
<1>4. CASE n # N
  <2> DEFINE m == n + 1
             since == ComposeFrom(h, m)
  <2>1. x = XformAfter(since, op)
    BY <1>1, <1>4 DEF ByVersion
  <2>2. m \in 1..N /\ n = m - 1 /\ N \in Nat /\ N = Len(h)
    BY <1>1, <1>2, <1>4
  <2> HIDE DEF h, N, d, m
  <2>3. /\ Spans(Letters, since, Len(TextIn(h, n)), Len(TextIn(h, N)))
        /\ Plain(since.comps) /\ Shifted(since, run[n]) = run[N]
    BY <1>2, <2>2, ComposedLifts
  <2>4. x = IF since = NULL THEN NULL ELSE ot_xform(since, op)[2]
    BY <2>1 DEF XformAfter
  <2> HIDE DEF since
  <2>5. since # NULL /\ CleanOver(Letters, since) /\ CleanOver(Letters, op)
        /\ BaseLen(since.comps) = BaseLen(op.comps) /\ OutLen(since.comps) = Len(TextOf(d))
    BY <1>2, <2>3 DEF Spans, Fine
  <2>6. PICK p1, p2 : /\ ot_xform(since, op) = <<p1, p2>>
                      /\ p1 # NULL /\ p2 # NULL
                      /\ CleanOver(Letters, p1) /\ CleanOver(Letters, p2)
                      /\ Merged(Letters, since.comps, op.comps, p1.comps, p2.comps)
    BY <2>5, XformOfClean
  <2>7. x = p2
    BY <2>4, <2>5, <2>6
  <2>8. Fine(x) /\ BaseLen(x.comps) = Len(TextOf(d))
    BY <2>5, <2>6, <2>7 DEF Merged, Fine
  <2>9. Plain(p2.comps) /\ WordOf(p2) = WordOf(op) /\ GapsOf(p2) = Shifted(since, GapsOf(op))
    BY <2>3, <2>5, <2>6, XformOfPlainOps
  <2> QED
    BY <1>1, <2>3, <2>7, <2>8, <2>9 DEF d
<1> QED
  BY <1>3, <1>4

-----------------------------------------------------------------------------
(***************************************************************************)
(* The invariant.  The operation a client waits for stands where the       *)
(* history has taken the one it sent: there is one way for the gaps of     *)
(* that one through the history, and where it is sent, where it is         *)
(* appended and where it is waited for its gaps are the ones of that way   *)
(* at this version.  Own operations are still to be acknowledged for as    *)
(* long as their author has not seen them, and there is at most one.       *)
(***************************************************************************)
EditorsInsert ==
  /\ EditorsFit
  /\ \A X : Fits(X) =>
       \A c \in Clients, n \in Nat, text \in Seq(X) : \A comps \in Edits(c, n, text) :
         IsNormal(comps) /\ \A i \in 1..Len(comps) : comps[i].type \in {"skip", "insert"}

HoldsPlain(k) ==
  /\ up[k] # <<>> => Plain(Head(up[k]).comps)
  /\ anticipated[k] # NULL => Plain(anticipated[k].comps)
  /\ buffer[k] # NULL => Plain(buffer[k].comps)

OwnAfter(k) == {n \in (seen[k] + 1)..Version : History[n].client_id = k}

OwnIsLate(k) ==
  \A n \in OwnAfter(k) : ack_required[k] /\ up[k] = <<>> /\ \A m \in OwnAfter(k) : m = n

OnTheWay(k, run) ==
  /\ Carried(History, sentAt[k], Version, run)
  /\ GapsOf(anticipated[k]) = run[seen[k]]
  /\ up[k] # <<>> => /\ GapsOf(Head(up[k])) = run[sentAt[k]]
                     /\ WordOf(Head(up[k])) = WordOf(anticipated[k])
  /\ \A n \in OwnAfter(k) : /\ GapsOf(History[n]) = run[n - 1]
                            /\ WordOf(History[n]) = WordOf(anticipated[k])

Threaded(k) ==
  anticipated[k] # NULL => sentAt[k] \in 0..seen[k] /\ \E run : OnTheWay(k, run)

EachLaid(k) == HoldsPlain(k) /\ OwnIsLate(k) /\ Threaded(k)

LaidInv == OnlyInserts(History) /\ \A k \in Clients : EachLaid(k)

\* The part of the state that EachLaid(k) speaks of.
LaidStateOf(k) == <<up[k], ack_required[k], anticipated[k], buffer[k], seen[k], sentAt[k]>>

LEMMA EachLaidUnchanged ==
  ASSUME NEW k, EachLaid(k), UNCHANGED <<LaidStateOf(k), server_doc>>
  PROVE  EachLaid(k)'
<1>1. UNCHANGED <<History, Version>>
  BY DEF History, Version
<1>2. OwnAfter(k)' = OwnAfter(k)
  BY <1>1 DEF OwnAfter, LaidStateOf
<1>3. HoldsPlain(k)' /\ OwnIsLate(k)'
  BY <1>2 DEF EachLaid, HoldsPlain, OwnIsLate, LaidStateOf
<1>4. Threaded(k)'
  <2> SUFFICES ASSUME anticipated'[k] # NULL
               PROVE  sentAt'[k] \in 0..seen'[k] /\ \E run : OnTheWay(k, run)'
    BY DEF Threaded
  <2>1. PICK run : OnTheWay(k, run)
    BY DEF EachLaid, Threaded, LaidStateOf
  <2>2. OnTheWay(k, run)'
    BY <1>1, <1>2, <2>1 DEF OnTheWay, LaidStateOf
  <2>3. sentAt'[k] \in 0..seen'[k]
    BY DEF EachLaid, Threaded, LaidStateOf
  <2> QED
    BY <2>2, <2>3
<1> QED
  BY <1>3, <1>4 DEF EachLaid

LEMMA OthersStayLaid ==
  ASSUME LaidInv, NEW c \in Clients, \A k \in Clients \ {c} : UNCHANGED LaidStateOf(k),
         UNCHANGED server_doc, EachLaid(c)'
  PROVE  LaidInv'
<1>1. OnlyInserts(History) /\ \A k \in Clients : EachLaid(k)
  BY DEF LaidInv
<1>2. \A k \in Clients \ {c} : EachLaid(k)'
  BY <1>1, EachLaidUnchanged
<1>3. OnlyInserts(History)'
  BY <1>1 DEF OnlyInserts, History
<1> QED
  BY <1>2, <1>3 DEF LaidInv

\* Plain operations over the same text that insert the same characters in the
\* same gaps are the same.
LEMMA LaidIsAcked == OrderInv /\ TextInv /\ BridgeInv /\ LaidInv => AckedAsAnticipated
<1> SUFFICES ASSUME OrderInv, TextInv, BridgeInv, LaidInv, NEW c \in Clients,
                    down[c] # <<>>, IsOwn(c, Head(down[c]))
             PROVE  Head(down[c]).comps = anticipated[c].comps
  BY DEF AckedAsAnticipated
<1> DEFINE n == seen[c] + 1
           msg == History[n]
           a == anticipated[c]
<1>1. /\ Control /\ Each(c) /\ EachText(c) /\ EachBridged(c) /\ EachLaid(c)
      /\ Replays(Letters, History) /\ OnlyInserts(History) /\ Version = Len(History)
  BY ControlByClient, AuthorsOfHistory
     DEF OrderInv, EachClient, TextInv, BridgeInv, ServerTells, LaidInv
<1>2. IsSequence(down[c]) /\ Len(down[c]) \in Nat \ {0} /\ Head(down[c]) = down[c][1]
  BY <1>1, TailOfSequence DEF Each, DownTyped
<1>3. seen[c] \in Nat
  BY <1>1 DEF EachBridged, Begun
<1>4. Head(down[c]) = msg /\ n \in 1..Len(History)
  <2>1. PICK at : Numbers(at, down[c], seen[c], History)
    BY DEF OrderInv, RestUnderWay
  <2>2. 1 \in 1..Len(down[c]) /\ 1 - 1 = 0
    BY <1>2
  <2>3. ~IsError(down[c][1])
    BY <1>2 DEF IsOwn
  <2>4. at[1] = at[0] + 1 /\ at[1] \in 1..Len(History) /\ down[c][1] = History[at[1]]
        /\ at[0] = seen[c]
    BY <2>1, <2>2, <2>3 DEF Numbers
  <2> QED
    BY <1>2, <2>4
<1>5. n \in OwnAfter(c)
  BY <1>1, <1>3, <1>4 DEF OwnAfter, IsOwn
<1>6. a # NULL
  BY <1>1, <1>5 DEF EachLaid, OwnIsLate, Each, Discipline
<1>7. PICK run : OnTheWay(c, run)
  BY <1>1, <1>6 DEF EachLaid, Threaded
<1>8. GapsOf(msg) = GapsOf(a) /\ WordOf(msg) = WordOf(a)
  <2>1. n - 1 = seen[c]
    BY <1>3
  <2>2. GapsOf(msg) = run[n - 1] /\ WordOf(msg) = WordOf(a) /\ GapsOf(a) = run[seen[c]]
    BY <1>5, <1>7 DEF OnTheWay
  <2> HIDE DEF n
  <2> QED
    BY <2>1, <2>2
<1>9. /\ CleanOver(Letters, msg) /\ Plain(msg.comps)
      /\ BaseLen(msg.comps) = Len(TextIn(History, n - 1))
  BY <1>1, <1>4 DEF Replays, OnlyInserts
<1>10. n - 1 = seen[c]
  BY <1>3
<1>11. Fine(a) /\ Plain(a.comps) /\ BaseLen(a.comps) = Len(TextIn(History, seen[c]))
  BY <1>1, <1>6 DEF EachText, FineHeld, EachLaid, HoldsPlain, EachBridged, Bridged
<1> HIDE DEF n, msg, a
<1>12. BaseLen(msg.comps) = BaseLen(a.comps)
  BY <1>9, <1>10, <1>11
<1> DEFINE p == msg.comps
           q == a.comps
<1>13. /\ p \in OperationsOver(Letters) /\ q \in OperationsOver(Letters)
       /\ Plain(p) /\ Plain(q) /\ Same(p, q)
  BY <1>8, <1>9, <1>11, <1>12 DEF GapsOf, WordOf, Same, CleanOver, Fine
<1> HIDE DEF p, q
<1>14. p = q
  BY <1>13, SameOperation
<1> QED
  BY <1>4, <1>14 DEF p, q, a

\* The server makes of an operation what it would make of it knowing the
\* version: both insert its characters in the gaps the history has taken them to.
LEMMA LaidFindsTheVersion ==
  OrderInv /\ TextInv /\ BridgeInv /\ LaidInv => HashFindsTheVersion
<1> SUFFICES ASSUME OrderInv, TextInv, BridgeInv, LaidInv,
                    NEW c \in Clients, up[c] # <<>>, server_doc # NULL
             PROVE  /\ Received(Head(up[c])).err = "none"
                    /\ Received(Head(up[c])).op.comps = ByVersion(Head(up[c]), sentAt[c]).comps
  BY DEF HashFindsTheVersion
<1> DEFINE op == Head(up[c])
           s == sentAt[c]
           r == Received(op)
           x == ByVersion(op, s)
<1>1. /\ Each(c) /\ EachBridged(c) /\ EachLaid(c) /\ DocOrNone(server_doc) /\ ServerTells
      /\ FineQueue(up[c]) /\ OnlyInserts(History)
  BY ControlByClient DEF OrderInv, EachClient, TextInv, EachText, BridgeInv, LaidInv
<1>2. IsSequence(up[c]) /\ op = up[c][1] /\ 1 \in DOMAIN up[c]
  BY <1>1, TailOfSequence DEF Each, UpTyped
<1>3. IsOp(op) /\ op.client_id = c
  BY <1>1, <1>2 DEF Each, UpTyped
<1>4. op # NULL /\ Fine(op)
  <2>1. ~IsError(op) /\ op # NULL
    BY <1>3 DEF IsOp, IsError, NULL
  <2> QED
    BY <1>1, <1>2, <2>1, FineTail
<1>5. BasedOn(op, s) /\ anticipated[c] # NULL /\ Plain(op.comps)
  BY <1>1 DEF EachBridged, NotLost, Each, Flight, Discipline, EachLaid, HoldsPlain
<1>6. PICK run : OnTheWay(c, run)
  BY <1>1, <1>5 DEF EachLaid, Threaded
<1>7. Carried(History, s, Version, run) /\ run[s] = GapsOf(op)
  BY <1>6 DEF OnTheWay
<1>8. MadeDoc(server_doc)
  BY <1>1 DEF DocOrNone
<1>9. r.op # NULL /\ Fine(r.op) /\ r.err = "none"
  <2> HIDE DEF op, s
  <2> QED
    BY <1>1, <1>4, <1>5, ServerTakes
<1> DEFINE base == Len(TextOf(server_doc))
<1>10. /\ Plain(r.op.comps) /\ WordOf(r.op) = WordOf(op) /\ GapsOf(r.op) = run[Version]
       /\ BaseLen(r.op.comps) = base
  <2> HIDE DEF op, s
  <2> QED
    BY <1>1, <1>4, <1>5, <1>7, ServerCarries
<1>11. /\ Plain(x.comps) /\ WordOf(x) = WordOf(op) /\ GapsOf(x) = run[Version]
       /\ Fine(x) /\ BaseLen(x.comps) = base
  <2> HIDE DEF op, s
  <2> QED
    BY <1>1, <1>4, <1>5, <1>7, <1>8, VersionCarries
<1> HIDE DEF r, x, op, base
<1> DEFINE p == r.op.comps
           q == x.comps
<1>12. /\ p \in OperationsOver(Letters) /\ q \in OperationsOver(Letters)
       /\ Plain(p) /\ Plain(q) /\ Same(p, q)
  BY <1>9, <1>10, <1>11 DEF GapsOf, WordOf, Same, CleanOver, Fine
<1> HIDE DEF p, q
<1>13. p = q
  BY <1>12, SameOperation
<1> QED
  BY <1>9, <1>13 DEF p, q, r, x, op

-----------------------------------------------------------------------------
\* The history is longer by an operation: every gap on its way goes one
\* version further.
LEMMA OnTheWayFurther ==
  ASSUME NEW k \in Clients, NEW run, OnTheWay(k, run), anticipated[k] # NULL,
         sentAt[k] \in 0..seen[k], seen[k] \in 0..Version, Version \in Nat,
         NEW msg, CleanOver(Letters, msg), Version' = Version + 1,
         History'[Version + 1] = msg, \A n \in 1..Version : History'[n] = History[n],
         UNCHANGED <<anticipated, seen, sentAt>>, up'[k] # <<>> => up'[k] = up[k],
         msg.client_id = k => /\ GapsOf(msg) = run[Version]
                              /\ WordOf(msg) = WordOf(anticipated[k])
  PROVE  Threaded(k)'
<1> DEFINE h == History
           g == History'
           V == Version
           s == sentAt[k]
<1>1. /\ Carried(h, s, V, run)
      /\ GapsOf(anticipated[k]) = run[seen[k]]
      /\ up[k] # <<>> => /\ GapsOf(Head(up[k])) = run[s]
                         /\ WordOf(Head(up[k])) = WordOf(anticipated[k])
      /\ \A n \in OwnAfter(k) : /\ GapsOf(h[n]) = run[n - 1]
                                /\ WordOf(h[n]) = WordOf(anticipated[k])
  BY DEF OnTheWay
<1> DEFINE m == V + 1
<1>2. m = V + 1 /\ CleanOver(Letters, g[m]) /\ V' = m
  OBVIOUS
<1>3. PICK more : Carried(g, s, m, more) /\ Continues(more, run, s, V)
  <2>1. \A n \in 1..V : g[n] = h[n]
    OBVIOUS
  <2> HIDE DEF g, h, V, s, m
  <2>2. Carried(g, s, V, run)
    BY <1>1, <2>1, CarriedAlike
  <2> QED
    BY <1>2, <2>2, CarriedFurther
<1>4. \A n \in s..V : more[n] = run[n]
  BY <1>3 DEF Continues
<1>5. seen[k] \in s..V /\ s \in s..V /\ V \in s..V
  OBVIOUS
<1>6. ASSUME NEW n \in OwnAfter(k)'
      PROVE  GapsOf(g[n]) = more[n - 1] /\ WordOf(g[n]) = WordOf(anticipated[k])
  <2>1. n \in (seen[k] + 1)..(V + 1) /\ g[n].client_id = k
    BY <1>2, <1>6 DEF OwnAfter
  <2>2. n - 1 \in s..V
    BY <2>1
  <2>3. CASE n = V + 1
    <3>1. n - 1 = V
      BY <2>3
    <3>2. g[n] = msg
      BY <2>3
    <3>3. GapsOf(msg) = run[V] /\ WordOf(msg) = WordOf(anticipated[k])
      BY <2>1, <3>2
    <3> HIDE DEF g, V
    <3> QED
      BY <1>4, <1>5, <3>1, <3>2, <3>3
  <2>4. CASE n # V + 1
    <3>1. n \in (seen[k] + 1)..V /\ n \in 1..V
      BY <2>1, <2>4
    <3>2. g[n] = h[n]
      BY <3>1
    <3>3. n \in OwnAfter(k)
      BY <2>1, <3>1, <3>2 DEF OwnAfter
    <3> QED
      BY <1>1, <1>4, <2>2, <3>2, <3>3
  <2> QED
    BY <2>3, <2>4
<1>7. OnTheWay(k, more)'
  <2>1. Carried(g, s, m, more) /\ more[seen[k]] = run[seen[k]] /\ more[s] = run[s]
    BY <1>3, <1>4, <1>5
  <2>2. sentAt'[k] = s /\ seen'[k] = seen[k] /\ anticipated'[k] = anticipated[k]
    OBVIOUS
  <2> HIDE DEF m
  <2> QED
    BY <1>1, <1>2, <1>6, <2>1, <2>2 DEF OnTheWay
<1> QED
  BY <1>7 DEF Threaded

LEMMA ServerStepKeepsLaid ==
  ASSUME OrderInv, TextInv, BridgeInv, LaidInv, NEW c \in Clients, ServerStep(c)
  PROVE  LaidInv'
<1> DEFINE op == Head(up[c])
           h == History
<1>1. /\ Shape /\ (\A k \in Clients : Each(k)) /\ DocOrNone(server_doc) /\ ServerTells
      /\ \A k \in Clients : EachBridged(k)
      /\ \A k \in Clients : EachLaid(k)
      /\ FineQueue(up[c]) /\ OnlyInserts(h)
  BY ControlByClient DEF OrderInv, EachClient, TextInv, EachText, BridgeInv, LaidInv
<1>2. /\ up[c] # <<>> /\ up' = [up EXCEPT ![c] = Tail(up[c])]
      /\ UNCHANGED <<doc, ack_required, anticipated, buffer, seen, sentAt>>
  BY DEF ServerStep, ot_server_receive, TakeUp, clientVars
<1>3. IsSequence(up[c]) /\ op = up[c][1] /\ 1 \in DOMAIN up[c]
  BY <1>1, <1>2, TailOfSequence DEF Each, UpTyped
<1>4. IsOp(op) /\ op.client_id = c
  BY <1>1, <1>3 DEF Each, UpTyped
<1>5. op # NULL /\ Fine(op)
  <2>1. ~IsError(op) /\ op # NULL
    BY <1>4 DEF IsOp, IsError, NULL
  <2> QED
    BY <1>1, <1>2, <1>3, <2>1, FineTail
<1>6. /\ BasedOn(op, sentAt[c]) /\ ack_required[c] /\ anticipated[c] # NULL
      /\ Plain(op.comps) /\ OwnAfter(c) = {}
  BY <1>1, <1>2 DEF EachBridged, NotLost, Each, Flight, Discipline, EachLaid, HoldsPlain, OwnIsLate
<1>7. up'[c] = <<>> /\ \A k \in Clients \ {c} : up'[k] = up[k]
  <2>1. Len(up[c]) <= 1
    BY <1>1, <1>2 DEF Each, Flight
  <2> QED
    BY <1>1, <1>2, <1>3, <2>1, TailOfOne DEF Shape
<1>8. PICK r : r = Received(op) /\ server_doc' = r.doc
  BY DEF ServerStep, ot_server_receive
<1> DEFINE msg == r.op
<1>9. msg # NULL /\ Fine(msg) /\ r.doc.history = Append(h, msg) /\ MadeDoc(r.doc)
      /\ r.err = "none"
  <2> HIDE DEF op
  <2> QED
    BY <1>1, <1>5, <1>6, <1>8, ServerTakes
<1>10. msg.client_id = c
  BY <1>4, <1>8, <1>9, ServerResult
<1>11. ASSUME NEW run, OnTheWay(c, run)
       PROVE  /\ Plain(msg.comps) /\ GapsOf(msg) = run[Version]
              /\ WordOf(msg) = WordOf(anticipated[c])
  <2>1. /\ Carried(h, sentAt[c], Version, run) /\ run[sentAt[c]] = GapsOf(op)
        /\ WordOf(op) = WordOf(anticipated[c])
    BY <1>2, <1>11 DEF OnTheWay
  <2> HIDE DEF op
  <2>2. Plain(msg.comps) /\ WordOf(msg) = WordOf(op) /\ GapsOf(msg) = run[Version]
    BY <1>1, <1>5, <1>6, <1>8, <2>1, ServerCarries
  <2> QED
    BY <2>1, <2>2
<1>12. Plain(msg.comps)
  <2>1. PICK run : OnTheWay(c, run)
    BY <1>1, <1>6 DEF EachLaid, Threaded
  <2> QED
    BY <1>11, <2>1
<1>13. History' = Append(h, msg)
  <2>1. r.doc # NULL
    BY <1>9, MadeDocText
  <2> QED
    BY <1>8, <1>9, <2>1 DEF History
<1> HIDE DEF op, msg
<1>14. /\ Version = Len(h) /\ Version \in Nat /\ Version' = Version + 1
       /\ History'[Version + 1] = msg /\ \A n \in 1..Version : History'[n] = h[n]
       /\ Version' = Len(History')
  <2>1. IsSequence(h)
    BY HistoryIsASequence DEF OrderInv
  <2>2. Version = Len(h) /\ Version' = Len(History')
    BY AuthorsOfHistoryNext
  <2> HIDE DEF h
  <2> QED
    BY <1>13, <2>1, <2>2, AppendedSequence
<1>15. OnlyInserts(History')
  <2> SUFFICES ASSUME NEW n \in 1..Len(History') PROVE Plain(History'[n].comps)
    BY DEF OnlyInserts
  <2>1. n = Version + 1 \/ n \in 1..Version
    BY <1>14
  <2> QED
    BY <1>1, <1>12, <1>14, <2>1 DEF OnlyInserts
<1>16. ASSUME NEW k \in Clients PROVE EachLaid(k)'
  <2>1. /\ EachLaid(k) /\ seen[k] \in 0..Version
        /\ up'[k] # <<>> => up'[k] = up[k] /\ k # c
        /\ k # c => up'[k] = up[k]
    BY <1>1, <1>7 DEF EachBridged, Begun
  <2>2. HoldsPlain(k)'
    BY <1>2, <2>1 DEF EachLaid, HoldsPlain
  <2>3. OwnAfter(k)' = OwnAfter(k) \cup (IF k = c THEN {Version + 1} ELSE {})
    <3>1. OwnAfter(k)' = {n \in (seen[k] + 1)..(Version + 1) : History'[n].client_id = k}
      BY <1>2, <1>14 DEF OwnAfter
    <3>2. \A n \in (seen[k] + 1)..(Version + 1) :
            n = Version + 1 \/ (n \in (seen[k] + 1)..Version /\ n \in 1..Version)
      BY <1>14, <2>1
    <3>3. \A n \in (seen[k] + 1)..Version : n \in (seen[k] + 1)..(Version + 1) /\ n \in 1..Version
      BY <1>14, <2>1
    <3>4. Version + 1 \in (seen[k] + 1)..(Version + 1) /\ Version + 1 \notin (seen[k] + 1)..Version
      BY <1>14, <2>1
    <3> QED
      BY <1>10, <1>14, <3>1, <3>2, <3>3, <3>4 DEF OwnAfter
  <2>4. OwnIsLate(k)'
    <3>1. CASE k = c
      BY <1>2, <1>6, <1>7, <2>3, <3>1 DEF OwnIsLate
    <3>2. CASE k # c
      BY <1>2, <2>1, <2>3, <3>2 DEF OwnIsLate, EachLaid
    <3> QED
      BY <3>1, <3>2
  <2>5. Threaded(k)'
    <3> SUFFICES ASSUME anticipated[k] # NULL PROVE Threaded(k)'
      BY <1>2 DEF Threaded
    <3>1. PICK run : OnTheWay(k, run)
      BY <2>1 DEF EachLaid, Threaded
    <3>2. sentAt[k] \in 0..seen[k]
      BY <2>1 DEF EachLaid, Threaded
    <3>3. msg.client_id = k => /\ GapsOf(msg) = run[Version]
                               /\ WordOf(msg) = WordOf(anticipated[k])
      BY <1>10, <1>11, <3>1
    <3>4. CleanOver(Letters, msg) /\ (up'[k] # <<>> => up'[k] = up[k])
          /\ UNCHANGED <<anticipated, seen, sentAt>>
      BY <1>2, <1>9, <2>1 DEF Fine
    <3> QED
      BY <1>14, <2>1, <3>1, <3>2, <3>3, <3>4, OnTheWayFurther
  <2> QED
    BY <2>2, <2>4, <2>5 DEF EachLaid
<1> QED
  BY <1>15, <1>16 DEF LaidInv

-----------------------------------------------------------------------------
\* An operation that is sent starts on its way.
LEMMA SentIsLaid ==
  ASSUME Control, NEW c \in Clients, up[c] = <<>>, FineQueue(up[c]),
         NEW op, Fine(op), Plain(op.comps), NEW parent, NEW version \in 0..Version,
         send_buffer(c, op, parent, version), UNCHANGED server_doc,
         Replays(Letters, History), Version \in Nat, seen'[c] = version, OwnAfter(c)' = {}
  PROVE  EachLaid(c)'
<1> DEFINE msg == Op(op.client_id, parent, op.hash, op.comps)
<1>1. Shape /\ IsSequence(up[c])
  BY ControlByClient DEF EachClient, Each, UpTyped
<1>2. msg.comps = op.comps
  BY DEF Op
<1>3. /\ up' = [up EXCEPT ![c] = Append(@, msg)]
      /\ anticipated' = [anticipated EXCEPT ![c] = ot_dup_op(msg)]
      /\ buffer' = [buffer EXCEPT ![c] = NULL]
      /\ sentAt' = [sentAt EXCEPT ![c] = version]
  BY DEF send_buffer
<1> HIDE DEF msg
<1>4. c \in DOMAIN sentAt
  BY DEF Control, TypeOK
<1>5. /\ up'[c] = Append(<<>>, msg) /\ sentAt'[c] = version
      /\ anticipated'[c] = ot_dup_op(msg) /\ buffer'[c] = NULL
  BY <1>1, <1>3, <1>4 DEF Shape
<1>6. Head(up'[c]) = msg
  BY <1>5
<1>13. anticipated'[c].comps = msg.comps
  <2>1. Fine(msg) /\ Plain(msg.comps)
    BY <1>2 DEF Fine, CleanOver
  <2> QED
    BY <1>5, <2>1, CopyIsFine DEF SameWork
<1>7. UNCHANGED <<History, Version>> /\ Version = Len(History)
  BY AuthorsOfHistory DEF History, Version
<1>8. HoldsPlain(c)' /\ OwnIsLate(c)'
  BY <1>2, <1>5, <1>6, <1>13 DEF HoldsPlain, OwnIsLate
<1> DEFINE g == GapsOf(msg)
           h == History
           N == Version
<1>9. g \in Seq(Nat)
  BY <1>2, LayoutOfOperation DEF GapsOf, Fine, CleanOver
<1>10. PICK run : Carried(h, version, N, run) /\ run[version] = g
  <2>1. version \in Nat /\ N \in Nat /\ version <= N /\ N = Len(h) /\ Replays(Letters, h)
    BY <1>7
  <2> HIDE DEF g, h, N
  <2> QED
    BY <1>9, <2>1, CarriedToTheEnd
<1>11. OnTheWay(c, run)'
  <2>1. GapsOf(anticipated'[c]) = g /\ WordOf(anticipated'[c]) = WordOf(msg)
    BY <1>13 DEF GapsOf, WordOf
  <2>2. OwnAfter(c)' = {}
    OBVIOUS
  <2> HIDE DEF g
  <2>3. Carried(History', sentAt'[c], Version', run) /\ sentAt'[c] = version /\ seen'[c] = version
    BY <1>5, <1>7, <1>10
  <2>4. GapsOf(Head(up'[c])) = g
    BY <1>6 DEF g
  <2> QED
    BY <1>6, <1>10, <2>1, <2>2, <2>3, <2>4 DEF OnTheWay
<1>12. Threaded(c)'
  BY <1>5, <1>11 DEF Threaded
<1> QED
  BY <1>8, <1>12 DEF EachLaid

LEMMA ApplyKeepsLaid ==
  ASSUME OrderInv, TextInv, BridgeInv, LaidInv, NEW c \in Clients, NEW comps,
         Fine(Op(c, ZeroHash, ZeroHash, comps)), CanOpen(doc[c], Op(c, ZeroHash, ZeroHash, comps)),
         Plain(comps), ot_client_apply(c, comps), UNCHANGED server_doc
  PROVE  LaidInv'
<1> DEFINE op == Op(c, ZeroHash, ZeroHash, comps)
           d == doc[c]
<1>1. /\ Shape /\ EachText(c) /\ Each(c) /\ EachBridged(c) /\ Control /\ ServerTells
      /\ EachLaid(c)
  BY ControlByClient DEF OrderInv, EachClient, TextInv, BridgeInv, LaidInv
<1>2. PICK r, buffered :
        /\ r = ot_doc_append(Opened(doc[c]), Op(c, ZeroHash, ZeroHash, comps))
        /\ buffered = Buffered(c, r)
        /\ UNCHANGED seen
        /\ \/ /\ buffered = NULL
              /\ UNCHANGED <<up, ack_required, anticipated, buffer, sentAt>>
           \/ /\ buffered # NULL
              /\ ack_required[c]
              /\ buffer' = [buffer EXCEPT ![c] = buffered]
              /\ UNCHANGED <<up, ack_required, anticipated, sentAt>>
           \/ /\ buffered # NULL
              /\ ~ack_required[c]
              /\ send_buffer(c, buffered, buffered.parent, seen[c])
  BY DEF ot_client_apply
<1>3. op.comps = comps /\ DocOrNone(d) /\ r = ot_doc_append(Opened(d), op)
  BY <1>1, <1>2 DEF Op, EachText
<1>4. UNCHANGED <<History, Version>> /\ Version = Len(History)
  BY AuthorsOfHistory DEF History, Version
<1>5. ASSUME NEW k \in Clients \ {c} PROVE UNCHANGED LaidStateOf(k)
  <2>1. c \in DOMAIN sentAt /\ \A x : [sentAt EXCEPT ![c] = x][k] = sentAt[k]
    BY <1>1, <1>5 DEF Control, TypeOK
  <2> QED
    BY <1>1, <1>2, <1>5, <2>1 DEF Shape, send_buffer, LaidStateOf
<1> HIDE DEF op
<1>6. CASE buffered = NULL
  <2>1. UNCHANGED LaidStateOf(c)
    BY <1>2, <1>6 DEF LaidStateOf
  <2>2. EachLaid(c)'
    BY <1>1, <2>1, EachLaidUnchanged
  <2> QED
    BY <1>5, <2>2, OthersStayLaid
<1>7. CASE buffered # NULL
  <2>1. r.err = "none"
    BY <1>2, <1>7 DEF Buffered
  <2>2. /\ BaseLen(comps) = Len(TextOf(d))
        /\ r.op.comps = comps /\ r.op # NULL
    BY <1>3, <2>1, AppendToAny DEF op
  <2>3. Fine(r.op) /\ Plain(r.op.comps)
    BY <1>3, <2>2 DEF Fine, CleanOver, op
  <2>4. Fine(buffered) /\ Plain(buffered.comps)
    <3>1. CASE buffer[c] = NULL
      <4>1. buffered = ot_dup_op(r.op)
        BY <1>2, <2>1, <3>1 DEF Buffered
      <4>2. Fine(ot_dup_op(r.op)) /\ ot_dup_op(r.op).comps = r.op.comps
        BY <2>3, CopyIsFine DEF SameWork
      <4> QED
        BY <2>3, <4>1, <4>2
    <3>2. CASE buffer[c] # NULL
      <4> DEFINE b == buffer[c]
                 o == r.op
      <4>1. buffered = ot_compose(b, o)
        BY <1>2, <2>1, <3>2 DEF Buffered
      <4>2. /\ CleanOver(Letters, b) /\ Plain(b.comps) /\ OutLen(b.comps) = Len(TextOf(d))
            /\ CleanOver(Letters, o) /\ Plain(o.comps) /\ BaseLen(o.comps) = Len(TextOf(d))
        BY <1>1, <2>2, <2>3, <3>2 DEF EachLaid, HoldsPlain, EachText, FineHeld, Follows, Fine
      <4> HIDE DEF b, o, d
      <4>3. CleanOver(Letters, buffered) /\ Plain(buffered.comps)
        BY <4>1, <4>2, ComposeOfPlainOps
      <4> QED
        BY <4>3 DEF Fine
    <3> QED
      BY <3>1, <3>2
  <2>5. CASE ack_required[c]
    <3>1. /\ buffer' = [buffer EXCEPT ![c] = buffered]
          /\ UNCHANGED <<up, ack_required, anticipated, sentAt, seen>>
      BY <1>2, <1>7, <2>5
    <3>2. buffer'[c] = buffered
      BY <1>1, <3>1 DEF Shape
    <3>3. OwnAfter(c)' = OwnAfter(c)
      BY <1>4, <3>1 DEF OwnAfter
    <3>4. HoldsPlain(c)' /\ OwnIsLate(c)'
      BY <1>1, <2>4, <3>1, <3>2, <3>3 DEF EachLaid, HoldsPlain, OwnIsLate
    <3>5. Threaded(c)'
      <4>1. ASSUME NEW run, OnTheWay(c, run) PROVE OnTheWay(c, run)'
        BY <1>4, <3>1, <3>3, <4>1 DEF OnTheWay
      <4> QED
        BY <1>1, <3>1, <4>1 DEF EachLaid, Threaded
    <3>6. EachLaid(c)'
      BY <3>4, <3>5 DEF EachLaid
    <3> QED
      BY <1>5, <3>6, OthersStayLaid
  <2>6. CASE ~ack_required[c]
    <3>1. send_buffer(c, buffered, buffered.parent, seen[c]) /\ seen' = seen
      BY <1>2, <1>7, <2>6
    <3>2. up[c] = <<>> /\ FineQueue(up[c]) /\ seen[c] \in 0..Version
      BY <1>1, <2>6 DEF Each, Flight, EachText, EachBridged, Begun
    <3>3. OwnAfter(c) = {}
      BY <1>1, <2>6 DEF EachLaid, OwnIsLate
    <3>4. OwnAfter(c)' = {}
      BY <1>4, <3>1, <3>3 DEF OwnAfter
    <3>5. Replays(Letters, History) /\ Version \in Nat
      BY <1>1, <1>4, HistoryIsASequence, AppendedSequence DEF OrderInv, ServerTells
    <3> DEFINE parent == buffered.parent
               version == seen[c]
    <3>6. /\ send_buffer(c, buffered, parent, version) /\ version \in 0..Version
          /\ seen'[c] = version
      BY <3>1, <3>2
    <3> HIDE DEF parent, version
    <3>7. EachLaid(c)'
      BY <1>1, <2>4, <3>2, <3>4, <3>5, <3>6, SentIsLaid
    <3> QED
      BY <1>5, <3>7, OthersStayLaid
  <2> QED
    BY <2>5, <2>6
<1> QED
  BY <1>6, <1>7

LEMMA EditIsPlain ==
  ASSUME EditorsInsert, NEW c \in Clients, NEW n \in Nat, NEW text \in Seq(Letters),
         NEW comps \in Edits(c, n, text)
  PROVE  Plain(comps)
<1>1. /\ Fits(Letters)
      /\ IsNormal(comps) /\ \A i \in 1..Len(comps) : comps[i].type \in {"skip", "insert"}
  BY EditorsFitLetters DEF EditorsInsert
<1>2. comps \in OperationsOver(Letters) /\ Passable(comps)
  BY <1>1 DEF Fits
<1>3. WellMade(comps)
  BY <1>1, <1>2 DEF WellMade
<1> QED
  BY <1>1, <1>2, <1>3, PlainKinds

LEMMA EditKeepsLaid ==
  ASSUME EditorsInsert, OrderInv, TextInv, BridgeInv, LaidInv, NEW c \in Clients, Edit(c)
  PROVE  LaidInv'
<1>1. PICK comps : comps \in Edits(c, edits[c], TextOf(doc[c])) /\ ot_client_apply(c, comps)
  BY DEF Edit
<1>2. edits[c] \in Nat
  BY MaxEditsAssumption DEF OrderInv, Control, TypeOK
<1>3. TextOf(doc[c]) \in Seq(Letters) /\ (doc[c] = NULL => TextOf(doc[c]) = <<>>)
  <2>1. TextOf(doc[c]) \in Seq(Letters)
    BY TextOfAny DEF TextInv, EachText
  <2> QED
    BY <2>1 DEF TextOf
<1>4. /\ Fine(Op(c, ZeroHash, ZeroHash, comps))
      /\ CanOpen(doc[c], Op(c, ZeroHash, ZeroHash, comps))
      /\ Plain(comps)
  <2> DEFINE text == TextOf(doc[c])
             n == edits[c]
  <2>1. comps \in Edits(c, n, text) /\ n \in Nat /\ text \in Seq(Letters)
        /\ (doc[c] = NULL => text = <<>>) /\ EditorsFit
    BY <1>1, <1>2, <1>3 DEF EditorsInsert
  <2> HIDE DEF text, n
  <2> QED
    BY <2>1, EditIsFine, EditIsPlain
<1> QED
  BY <1>1, <1>4, ApplyKeepsLaid DEF Edit

-----------------------------------------------------------------------------
LEMMA ReceiveErrorKeepsLaid ==
  ASSUME LaidInv, NEW c \in Clients, ReceiveError(c), UNCHANGED server_doc
  PROVE  LaidInv'
<1>1. \A k \in Clients : UNCHANGED LaidStateOf(k)
  BY DEF ReceiveError, LaidStateOf
<1>2. EachLaid(c)'
  BY <1>1, EachLaidUnchanged DEF LaidInv
<1> QED
  BY <1>1, <1>2, OthersStayLaid

\* The acknowledged operation was the only own one still to come.
LEMMA ReceiveAckKeepsLaid ==
  ASSUME OrderInv, TextInv, BridgeInv, LaidInv, NEW c \in Clients, ReceiveAck(c),
         UNCHANGED server_doc
  PROVE  LaidInv'
<1> DEFINE msg == Head(down[c])
           version == seen[c] + 1
<1>1. /\ TakeDown(c) /\ ~IsError(msg) /\ msg.client_id = c
      /\ seen' = [seen EXCEPT ![c] = @ + 1]
      /\ Shape /\ EachText(c) /\ Control /\ EachLaid(c) /\ EachBridged(c)
  BY ControlByClient DEF ReceiveAck, OrderInv, TextInv, LaidInv, BridgeInv
<1>2. /\ seen'[c] = version /\ version \in 1..Version /\ Version \in Nat
      /\ msg = History[version] /\ UNCHANGED <<History, Version>> /\ seen[c] \in Nat
  <2>1. seen[c] \in Nat
    BY <1>1 DEF EachBridged, Begun
  <2> QED
    BY <1>1, <2>1, TakenBridge
<1>3. version \in OwnAfter(c)
  <2>1. version \in (seen[c] + 1)..Version
    BY <1>2
  <2> QED
    BY <1>1, <1>2, <2>1 DEF OwnAfter
<1>4. up[c] = <<>> /\ \A m \in OwnAfter(c) : m = version
  BY <1>1, <1>3 DEF EachLaid, OwnIsLate
<1>5. OwnAfter(c)' = {}
  <2>1. ASSUME NEW n \in OwnAfter(c)' PROVE FALSE
    <3>1. n \in (version + 1)..Version /\ History[n].client_id = c
      BY <1>2, <2>1 DEF OwnAfter
    <3>2. n \in (seen[c] + 1)..Version /\ n # version
      BY <1>2, <3>1
    <3>3. n \in OwnAfter(c)
      BY <3>1, <3>2 DEF OwnAfter
    <3> QED
      BY <1>4, <3>2, <3>3
  <2> QED
    BY <2>1
<1>6. \A k \in Clients \ {c} : seen'[k] = seen[k]
  BY <1>1 DEF Shape
<1> HIDE DEF msg
<1>7. CASE /\ buffer[c] = NULL
           /\ ack_required' = [ack_required EXCEPT ![c] = FALSE]
           /\ anticipated' = [anticipated EXCEPT ![c] = NULL]
           /\ UNCHANGED <<up, buffer, sentAt>>
  <2>1. /\ anticipated'[c] = NULL /\ buffer'[c] = NULL /\ up'[c] = <<>>
        /\ \A k \in Clients \ {c} : /\ anticipated'[k] = anticipated[k]
                                    /\ ack_required'[k] = ack_required[k]
    BY <1>1, <1>4, <1>7 DEF Shape
  <2>2. EachLaid(c)'
    BY <1>5, <2>1 DEF EachLaid, HoldsPlain, OwnIsLate, Threaded
  <2>3. \A k \in Clients \ {c} : UNCHANGED LaidStateOf(k)
    BY <1>6, <1>7, <2>1 DEF LaidStateOf
  <2> QED
    BY <2>2, <2>3, OthersStayLaid
<1>8. CASE /\ buffer[c] # NULL
           /\ send_buffer(c, buffer[c], msg.hash, version)
  <2>1. FineQueue(up[c]) /\ Fine(buffer[c]) /\ Plain(buffer[c].comps)
    BY <1>1, <1>8 DEF EachText, FineHeld, EachLaid, HoldsPlain
  <2>2. Replays(Letters, History) /\ version \in 0..Version
    BY <1>2 DEF BridgeInv, ServerTells
  <2> DEFINE b == buffer[c]
             parent == msg.hash
  <2>3. send_buffer(c, b, parent, version) /\ Fine(b) /\ Plain(b.comps)
    BY <1>8, <2>1
  <2>4. EachLaid(c)'
    <3> HIDE DEF b, parent, version
    <3> QED
      BY <1>1, <1>2, <1>4, <1>5, <2>1, <2>2, <2>3, SentIsLaid
  <2>5. ASSUME NEW k \in Clients \ {c} PROVE UNCHANGED LaidStateOf(k)
    <3>1. sentAt'[k] = sentAt[k]
      BY <1>1, <1>8 DEF send_buffer, Control, TypeOK
    <3>2. /\ up'[k] = up[k] /\ anticipated'[k] = anticipated[k]
          /\ buffer'[k] = buffer[k] /\ ack_required'[k] = ack_required[k]
      BY <1>1, <1>8, <2>1, SentIsFine
    <3> QED
      BY <1>6, <3>1, <3>2 DEF LaidStateOf
  <2> QED
    BY <2>4, <2>5, OthersStayLaid
<1> QED
  BY <1>7, <1>8 DEF ReceiveAck, msg

\* What the client makes of its operations when somebody else's comes in.
LEMMA IncomingLays ==
  ASSUME NEW c \in Clients, NEW received, Fine(received), Plain(received.comps),
         anticipated[c] # NULL => /\ Fine(anticipated[c]) /\ Plain(anticipated[c].comps)
                                  /\ BaseLen(anticipated[c].comps) = BaseLen(received.comps),
         buffer[c] # NULL => /\ anticipated[c] # NULL /\ Fine(buffer[c]) /\ Plain(buffer[c].comps)
                             /\ BaseLen(buffer[c].comps) = OutLen(anticipated[c].comps),
         NEW first, first = xform_anticipated(c, received),
         NEW second, second = xform_buffer(c, first[1])
  PROVE  /\ anticipated[c] = NULL => first[2] = NULL
         /\ anticipated[c] # NULL =>
              /\ Plain(first[2].comps) /\ WordOf(first[2]) = WordOf(anticipated[c])
              /\ GapsOf(first[2]) = Shifted(received, GapsOf(anticipated[c]))
         /\ second[1] # NULL => Plain(second[1].comps)
<1> DEFINE a == anticipated[c]
           b == buffer[c]
<1>1. CASE a = NULL
  <2>1. first = <<received, NULL>> /\ b = NULL
    BY <1>1 DEF xform_anticipated
  <2>2. first[2] = NULL /\ second = <<NULL, first[1]>>
    BY <2>1 DEF xform_buffer
  <2>3. second[1] = NULL
    BY <2>2
  <2> QED
    BY <1>1, <2>2, <2>3
<1>2. CASE a # NULL
  <2>1. /\ CleanOver(Letters, received) /\ Plain(received.comps)
        /\ CleanOver(Letters, a) /\ Plain(a.comps) /\ BaseLen(received.comps) = BaseLen(a.comps)
        /\ b # NULL => /\ CleanOver(Letters, b) /\ Plain(b.comps)
                       /\ BaseLen(b.comps) = OutLen(a.comps)
    BY <1>2 DEF Fine
  <2>2. first = OrElse(ot_xform(received, a), <<NULL, a>>)
    BY <1>2 DEF xform_anticipated
  <2>3. second = IF b = NULL \/ first[1] = NULL THEN <<b, first[1]>>
                 ELSE OrElse(ot_xform(b, first[1]), <<b, NULL>>)
    BY DEF xform_buffer
  <2> HIDE DEF a, b
  <2>4. PICK p1, p2 : /\ ot_xform(received, a) = <<p1, p2>>
                      /\ p1 # NULL /\ p2 # NULL
                      /\ CleanOver(Letters, p1) /\ CleanOver(Letters, p2)
                      /\ Merged(Letters, received.comps, a.comps, p1.comps, p2.comps)
    BY <2>1, XformOfClean
  <2>5. first[1] = p1 /\ first[2] = p2
    <3>1. first = <<p1, p2>>
      BY <2>2, <2>4 DEF OrElse
    <3> QED
      BY <3>1
  <2>6. /\ Plain(p1.comps) /\ Plain(p2.comps)
        /\ WordOf(p2) = WordOf(a) /\ GapsOf(p2) = Shifted(received, GapsOf(a))
    BY <2>1, <2>4, XformOfPlainOps
  <2>7. second[1] # NULL => Plain(second[1].comps)
    <3>1. CASE b = NULL
      <4>1. second = <<NULL, first[1]>>
        BY <2>3, <3>1
      <4> QED
        BY <4>1
    <3>2. CASE b # NULL
      <4>1. BaseLen(p1.comps) = BaseLen(b.comps)
        BY <2>1, <2>4, <3>2 DEF Merged
      <4>2. PICK q1, q2 : /\ ot_xform(b, p1) = <<q1, q2>>
                          /\ q1 # NULL /\ q2 # NULL
                          /\ CleanOver(Letters, q1) /\ CleanOver(Letters, q2)
                          /\ Merged(Letters, b.comps, p1.comps, q1.comps, q2.comps)
        BY <2>1, <2>4, <3>2, <4>1, XformOfClean
      <4>3. second = <<q1, q2>>
        BY <2>3, <2>4, <2>5, <3>2, <4>2 DEF OrElse
      <4>4. Plain(q1.comps)
        BY <2>1, <2>4, <2>6, <3>2, <4>1, <4>2, XformOfPlainOps
      <4>5. second[1] = q1
        BY <4>3
      <4> QED
        BY <4>4, <4>5
    <3> QED
      BY <3>1, <3>2
  <2> QED
    BY <1>2, <2>5, <2>6, <2>7 DEF a
<1> QED
  BY <1>1, <1>2

LEMMA ReceiveOpKeepsLaid ==
  ASSUME OrderInv, TextInv, BridgeInv, LaidInv, NEW c \in Clients, ReceiveOp(c),
         UNCHANGED server_doc
  PROVE  LaidInv'
<1> DEFINE msg == Head(down[c])
           a == anticipated[c]
           version == seen[c] + 1
<1>1. /\ TakeDown(c) /\ ~IsError(msg) /\ msg.client_id # c
      /\ UNCHANGED <<up, ack_required, sentAt>>
      /\ seen' = [seen EXCEPT ![c] = @ + 1]
      /\ Shape /\ Each(c) /\ EachText(c) /\ EachLaid(c) /\ EachBridged(c)
  BY ControlByClient DEF ReceiveOp, EachClient, OrderInv, TextInv, LaidInv, BridgeInv
<1>2. /\ seen'[c] = version /\ version \in 1..Version /\ Version \in Nat
      /\ msg = History[version] /\ UNCHANGED <<History, Version>> /\ seen[c] \in Nat
      /\ Fine(msg) /\ BaseLen(msg.comps) = Len(TextIn(History, seen[c]))
  <2>1. seen[c] \in Nat
    BY <1>1 DEF EachBridged, Begun
  <2> QED
    BY <1>1, <2>1, TakenBridge
<1>3. Plain(msg.comps)
  <2>1. Version = Len(History)
    BY AuthorsOfHistory
  <2> QED
    BY <1>2, <2>1 DEF LaidInv, OnlyInserts
<1>4. PICK first, second :
        /\ first = xform_anticipated(c, msg) /\ second = xform_buffer(c, first[1])
        /\ anticipated' = [anticipated EXCEPT ![c] = first[2]]
        /\ buffer' = [buffer EXCEPT ![c] = second[1]]
  BY DEF ReceiveOp, Incoming
<1>5. /\ anticipated'[c] = first[2] /\ buffer'[c] = second[1]
      /\ \A k \in Clients \ {c} : /\ anticipated'[k] = anticipated[k] /\ buffer'[k] = buffer[k]
                                  /\ seen'[k] = seen[k]
  BY <1>1, <1>4 DEF Shape
<1>6. \A k \in Clients \ {c} : UNCHANGED LaidStateOf(k)
  BY <1>1, <1>5 DEF LaidStateOf
<1>7. /\ a # NULL => Fine(a) /\ Plain(a.comps) /\ BaseLen(a.comps) = BaseLen(msg.comps)
      /\ buffer[c] # NULL => /\ a # NULL /\ Fine(buffer[c]) /\ Plain(buffer[c].comps)
                             /\ BaseLen(buffer[c].comps) = OutLen(a.comps)
  <2>1. a # NULL => BaseLen(a.comps) = BaseLen(msg.comps)
    BY <1>1, <1>2 DEF EachBridged, Bridged
  <2>2. buffer[c] # NULL => a # NULL
    BY <1>1 DEF Each, Discipline
  <2> QED
    BY <1>1, <2>1, <2>2 DEF EachText, FineHeld, Follows, EachLaid, HoldsPlain
<1> HIDE DEF msg
<1>8. /\ a = NULL => first[2] = NULL
      /\ a # NULL => /\ Plain(first[2].comps) /\ WordOf(first[2]) = WordOf(a)
                     /\ GapsOf(first[2]) = Shifted(msg, GapsOf(a))
      /\ second[1] # NULL => Plain(second[1].comps)
  BY <1>2, <1>3, <1>4, <1>7, IncomingLays
<1>9. OwnAfter(c)' \subseteq OwnAfter(c)
  <2>1. \A n \in (version + 1)..Version : n \in (seen[c] + 1)..Version
    BY <1>2
  <2> QED
    BY <1>2, <2>1 DEF OwnAfter
<1>10. HoldsPlain(c)'
  BY <1>1, <1>5, <1>8 DEF EachLaid, HoldsPlain
<1>11. OwnIsLate(c)'
  BY <1>1, <1>9 DEF EachLaid, OwnIsLate
<1>12. Threaded(c)'
  <2> SUFFICES ASSUME first[2] # NULL
               PROVE  sentAt[c] \in 0..version /\ \E run : OnTheWay(c, run)'
    BY <1>1, <1>2, <1>5 DEF Threaded
  <2>1. a # NULL
    BY <1>8
  <2>2. PICK run : OnTheWay(c, run)
    BY <1>1, <2>1 DEF EachLaid, Threaded
  <2>3. sentAt[c] \in 0..seen[c]
    BY <1>1, <2>1 DEF EachLaid, Threaded
  <2>4. run[version] = Shifted(msg, run[seen[c]])
    <3>1. version \in (sentAt[c] + 1)..Version /\ version - 1 = seen[c]
      BY <1>2, <2>3
    <3>2. \A n \in (sentAt[c] + 1)..Version : run[n] = Shifted(History[n], run[n - 1])
      BY <2>2 DEF OnTheWay, Carried
    <3> HIDE DEF version
    <3> QED
      BY <1>2, <3>1, <3>2
  <2>5. GapsOf(first[2]) = run[version] /\ WordOf(first[2]) = WordOf(a)
    BY <1>8, <2>1, <2>2, <2>4 DEF OnTheWay
  <2>6. OnTheWay(c, run)'
    BY <1>1, <1>2, <1>5, <1>9, <2>2, <2>5 DEF OnTheWay
  <2>7. sentAt[c] \in 0..version
    BY <1>2, <2>3
  <2> QED
    BY <2>6, <2>7
<1>13. EachLaid(c)'
  BY <1>10, <1>11, <1>12 DEF EachLaid
<1> QED
  BY <1>6, <1>13, OthersStayLaid

\* The document everybody opened at the start was inserted.
LEMMA InitLaid ==
  ASSUME EditorsFit, Init
  PROVE  LaidInv
<1>1. /\ server_doc = OpenedDoc
      /\ \A k \in Clients : /\ up[k] = <<>> /\ anticipated[k] = NULL /\ buffer[k] = NULL
                            /\ seen[k] = Version0
  BY DEF Init
<1> DEFINE h == History
<1>2. h = IF OpenedDoc = NULL THEN <<>> ELSE OpenedDoc.history
  BY <1>1 DEF History
<1>3. /\ Len(h) = Version0
      /\ \A i \in 1..Len(h) : InitialText # <<>> /\ h[i].comps = <<InsertComp(InitialText)>>
  BY <1>2, OpenedReplays
<1>4. Version = Version0
  BY <1>2, <1>3, AuthorsOfHistory
<1>5. ASSUME InitialText # <<>>
      PROVE  Plain(<<InsertComp(InitialText)>>)
  <2> DEFINE t == InitialText
             none == <<>>
             comps == <<InsertComp(t)>>
  <2>1. comps = Append(none, InsertComp(t)) /\ Len(comps) = 1 /\ comps[1] = InsertComp(t)
        /\ t \in Seq(Letters)
    BY EditorsFitLetters DEF Fits
  <2>2. none \in OperationsOver(Letters) /\ DeletesNothing(none)
    BY EmptyOperation, LengthsOfEmpty DEF DeletesNothing
  <2>3. Len(t) # 0
    BY <1>5, <2>1
  <2>4. ~IsEmpty(comps[1]) /\ comps[1].type \notin Stubs
    BY <2>1, <2>3 DEF IsEmpty, ot_comp_size, InsertComp, Stubs
  <2> HIDE DEF comps, none, t
  <2>5. \A i \in 1..Len(comps) : i = 1
    BY <2>1
  <2>6. (1..(Len(comps) - 1)) = {}
    BY <2>1
  <2>7. WellMade(comps)
    BY <2>4, <2>5, <2>6 DEF WellMade, Passable, IsNormal
  <2>8. DeletesNothing(comps)
    BY <2>1, <2>2, DeletesNothingMore
  <2> QED
    BY <2>7, <2>8 DEF Plain, comps, t
<1>6. OnlyInserts(h)
  BY <1>3, <1>5 DEF OnlyInserts
<1>7. ASSUME NEW k \in Clients PROVE EachLaid(k)
  <2>1. (Version0 + 1)..Version0 = {}
    BY DEF Version0
  <2>2. OwnAfter(k) = {}
    BY <1>1, <1>4, <2>1 DEF OwnAfter
  <2>3. HoldsPlain(k) /\ OwnIsLate(k) /\ Threaded(k)
    BY <1>1, <2>2 DEF HoldsPlain, OwnIsLate, Threaded
  <2> QED
    BY <2>3 DEF EachLaid
<1> QED
  BY <1>6, <1>7 DEF LaidInv

LEMMA NextKeepsLaid ==
  ASSUME EditorsInsert, OrderInv, TextInv, BridgeInv, LaidInv, [Next]_vars
  PROVE  LaidInv'
<1>1. ASSUME NEW c \in Clients, Edit(c) PROVE LaidInv'
  BY <1>1, EditKeepsLaid
<1>2. ASSUME NEW c \in Clients, ServerStep(c) PROVE LaidInv'
  BY <1>2, ServerStepKeepsLaid
<1>3. ASSUME NEW c \in Clients, ClientStep(c) PROVE LaidInv'
  BY <1>3, ReceiveErrorKeepsLaid, ReceiveAckKeepsLaid, ReceiveOpKeepsLaid
     DEF ClientStep, ot_client_receive
<1>4. CASE UNCHANGED vars
  <2>1. \A k \in Clients : EachLaid(k) /\ UNCHANGED <<LaidStateOf(k), server_doc>>
    BY <1>4 DEF LaidInv, vars, clientVars, LaidStateOf
  <2>2. \A k \in Clients : EachLaid(k)'
    BY <2>1, EachLaidUnchanged
  <2>3. OnlyInserts(History)'
    BY <1>4 DEF LaidInv, OnlyInserts, History, vars
  <2> QED
    BY <2>2, <2>3 DEF LaidInv
<1> QED
  BY <1>1, <1>2, <1>3, <1>4 DEF Next

LEMMA LaidInvariant ==
  ASSUME EditorsInsert
  PROVE  Spec => [](OrderInv /\ TextInv /\ BridgeInv /\ LaidInv)
<1>1. EditorsFit
  BY DEF EditorsInsert
<1>2. Init => OrderInv /\ TextInv /\ BridgeInv /\ LaidInv
  BY <1>1, InitOrdered, InitText, InitBridge, InitLaid
<1>3. OrderInv /\ TextInv /\ BridgeInv /\ LaidInv /\ [Next]_vars
        => OrderInv' /\ TextInv' /\ BridgeInv' /\ LaidInv'
  <2>1. OrderInv /\ [Next]_vars => OrderInv'
    BY NextOrdered
  <2>2. OrderInv /\ TextInv /\ [Next]_vars => TextInv'
    BY <1>1, NextKeepsText DEF OrderInv
  <2>3. OrderInv /\ TextInv /\ BridgeInv /\ LaidInv => AckedAlike
    BY LaidIsAcked, AckedAsAnticipatedIsAlike
  <2>4. OrderInv /\ TextInv /\ BridgeInv /\ LaidInv /\ [Next]_vars => BridgeInv'
    BY <1>1, <2>3, NextKeepsBridge
  <2>5. OrderInv /\ TextInv /\ BridgeInv /\ LaidInv /\ [Next]_vars => LaidInv'
    BY NextKeepsLaid
  <2> QED
    BY <2>1, <2>2, <2>4, <2>5
<1> QED
  BY <1>2, <1>3, PTL DEF Spec

\* What the server makes of an operation, in one transformation against all
\* it missed (server.c), is what its author makes of it, in one for each of
\* them (client.c): component for component, whatever others inserted in the
\* meantime, for any number of editors that only insert.
THEOREM AckedAsAnticipatedHolds ==
  ASSUME EditorsInsert
  PROVE  Spec => []AckedAsAnticipated
BY LaidInvariant, LaidIsAcked, PTL

\* The server knows the version an operation was made at by its parent hash
\* alone: by can_append, or by the newest operation with that hash
\* (ot_doc_compose_after).  When editors only insert it makes no difference: what
\* it makes of the operation is what it would make of it knowing the version.
THEOREM HashFindsTheVersionHolds ==
  ASSUME EditorsInsert
  PROVE  Spec => []HashFindsTheVersion
BY LaidInvariant, LaidFindsTheVersion, PTL

\* Editors that only insert: what BridgeHolds says, of every behaviour.
THEOREM InsertersBridge ==
  ASSUME EditorsInsert
  PROVE  Spec => []Bridge
BY LaidInvariant, BridgedIsBridge, PTL

\* Editors that only insert always converge: when everything was delivered,
\* the clients and the server show the same text and nobody waits.
THEOREM InsertersConverge ==
  ASSUME EditorsInsert
  PROVE  Spec => []Converged
BY LaidInvariant, BridgedConverges, PTL

\* One who comes in has sent nothing and awaits nothing.
LEMMA NewcomerLaid ==
  ASSUME OrderInv, LaidInv, NEW c \in Clients, up[c] = <<>>, ~ack_required[c], Welcomed(c)
  PROVE  LaidInv'
<1>1. Shape /\ Each(c) /\ Version \in Nat /\ \A k \in Clients : EachLaid(k)
  BY ControlByClient, HistoryIsASequence, AppendedSequence DEF OrderInv, EachClient, LaidInv, Version
<1>2. anticipated[c] = NULL /\ buffer[c] = NULL
  BY <1>1 DEF Each, Discipline
<1>3. UNCHANGED <<server_doc, History, Version>>
  BY DEF Welcomed, History, Version
<1>4. \A k \in Clients \ {c} : UNCHANGED LaidStateOf(k)
  BY DEF Welcomed, LaidStateOf
<1>5. /\ up'[c] = <<>> /\ anticipated'[c] = NULL /\ buffer'[c] = NULL
      /\ seen'[c] = Version
  BY <1>1, <1>2 DEF Welcomed, Shape
<1>6. EachLaid(c)'
  <2>1. (Version + 1)..Version = {}
    BY <1>1
  <2>2. OwnAfter(c)' = {}
    BY <1>3, <1>5, <2>1 DEF OwnAfter
  <2>3. HoldsPlain(c)' /\ OwnIsLate(c)' /\ Threaded(c)'
    BY <1>5, <2>2 DEF HoldsPlain, OwnIsLate, Threaded
  <2> QED
    BY <2>3 DEF EachLaid
<1> QED
  BY <1>3, <1>4, <1>6, OthersStayLaid
=============================================================================
