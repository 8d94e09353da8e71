# libot: a TLA+ verification project

libot is a C library for collaborative editing by operational transformation:
clients edit copies of a document, a server puts their operations in one order,
and everybody ends up with the same text. This directory models the library,
model-checks it with TLC, and proves with TLAPS what transformation, composition
and documents do for operations of any length, the client/server control protocol
and its refinement of a total order of operations, that clients and editors keep
their texts in step, and the ownership of a document's memory. The modules follow the C sources function by function and
keep their names; `PROJECT.json` maps every definition to the lines it stands
for.

## 1. The system

| component | state | operations | interacts by |
|---|---|---|---|
| operations (`ot.c`, `ot.h`) | an op: client_id, parent hash, hash, components; an iterator: pos, offset | the builders, `ot_dup_op`, `ot_equal`, `ot_snapshot`, `ot_size`, `ot_iter_next`, `ot_iter_skip` | called by everything below |
| transformation (`xform.c`) | the locals of one loop | `ot_xform` | called by client and server |
| composition (`compose.c`) | the locals of one loop | `ot_compose` | called by documents and by the client's buffer |
| document (`doc.c`) | history, composed, size, max_size | `ot_doc_append`, `ot_doc_compose_after`, `ot_encode_doc`, `ot_decode_doc` | one per client, one in the server |
| client (`client.c`) | doc, anticipated, buffer, ack_required | `ot_client_open`, `ot_client_apply` (editor), `ot_client_receive` (messages) | send callback to the server, event callback to the editor |
| server (`server.c`) | doc | `ot_server_open`, `ot_server_receive` | send callback to all clients |
| delivery (the application; `test/scenario/scenario.h`) | what is under way | deliver to the server, deliver to a client, connect a client | |
| codec (`encode.c`, `decode.c`, `hex.c`), UTF-8 (`utf8.c`), arrays (`array.c`) | none | conversions, walks over bytes, growth | |
| SHA1 (`sha1.c`), JSON (`cjson/`) | none | third-party | |

How it works. An editor's operation is appended to the client's document at
once. A client has at most one operation on its way to the server, the
*anticipated* one; what the editor does meanwhile is composed into the *buffer*.
The server appends an operation whose parent hash is that of its document, and
otherwise transforms it against the composition of what came after the parent.
What it appended goes to every client. The author takes its own client_id for the
acknowledgment and sends the buffer; everybody else transforms the operation
over anticipated and buffer, applies the result, and passes it to the editor.

What makes it hard, and the property that says it does not go wrong:

* client and server transform the same pair of histories by different routes
  and must agree (`Converged`, `AckedAsAnticipated`, `Bridge`, `TP1`);
* clients join in the middle of that (`InsidersConverge`, `ReloadsTheSame`);
* parents are hashes of texts, and texts come back (`HashFindsTheVersion`,
  `CatchesUp`, `HashChain`);
* an acknowledgment carries no number (`AckDiscipline`, `OneInFlight`), and
  nobody numbers what the server sends either (`ServedInOrder`);
* handlers ignore some errors and return early from the middle of others
  (`BufferFollows`, `RefusedForCause`, `FollowerHasTheDocument`), and the editor
  knows of none of it but by events (`InSync`);
* the callbacks may call back before the call that made them has stored its
  result (`AsQueued`, `CallsReturn`);
* loops over two iterators with offsets, where each case advances one or both,
  or neither (`Aligned`, `ResultSpans`, `FailsForCause`, `EveryTurnAdvances`,
  `SticksOnlyOnEmpty`);
* a search that runs past the end of the history for one particular hash
  (`CallersStayInRange`), sizes in a `uint32_t` that mix bytes and characters
  (`WithinMaxSize`), numbers that pass through an int (`RoundTrip`);
* a composition that is a pointer into an array that moves (`NoFault`,
  `NothingLeaked`).

`PROJECT.json` lists these as hazards, each at its line.

## 2. The modules

    Ops ─┬─ Xform ──┬─ Loops ── MCLoops
         ├─ Compose ┘
         │     └─ Doc ─┬─ DocHistory ── MCDocHistory
         │             └─ ServerDoc ─── ServerAlone ── MCServerAlone
         └─ Transport       │
                └─ Client, Server ── System ─┬─ MCSystem
                                             ├─ Session ── MCSession
                                             ├─ Editor ─── MCEditor
                                             └─ Direct ─── MCDirect
                        TotalOrder (abstract; INSTANCEd by System)
    Ops ── Codec ── MCCodec
    Ops ── Builder ┐
           Utf8 ───┼─ MCParts
      DocMemory ───┘

and the modules with proofs, each of which also extends the module it is about:

    Ops_proofs ─┬─ Loops_proofs
                ├─ DocHistory_proofs
                ├─ ServerAlone_proofs
                ├─ System_proofs (of System and Editor) ── Applications_proofs (of Direct and Session)
                ├─ Parts_proofs (of Builder and DocMemory)
                └─ Codec_proofs

* **Ops**: components, builders, iterator, and `ot_dup_op`, which builds an
  operation again: counts of zero are lost, neighbours of one kind merged,
  boundaries left out. `ot_doc_compose_after` begins with such a copy, and what a
  client anticipates or buffers first is one (Doc, Client, Direct). A text is a sequence of characters,
  one per code point (the makefile builds with `-funsigned-char`, so `utf8.c`
  counts code points); the hash of a text is an injective function of it (no
  SHA1 collisions), and equal texts have equal hashes. The second half of the
  module is the reference meaning the properties use: `ApplyTo`, `BaseLen`,
  `OutLen`, written without iterators.
* **Xform**, **Compose**: the two algorithms. `XformStep` and `ComposeStep` are
  one turn of the loop on a record of its locals; the whole call
  (`ot_xform`, `ot_compose`) iterates the same step by a recursive function. The
  cases of the C code collapse where they do the same thing: an insert of
  the first operation is handled alike whatever the other operation has there.
  Where no case matches (an element), or the iterator does not move (a component
  of size zero), the step leaves the locals as they are and the call never
  returns.
* **Loops**: the same steps as actions, so that TLC sees every intermediate
  state of every call, of operations the builders make and of operations the
  decoder makes.
* **Doc**: `ot_doc_append`, `ot_doc_compose_after`, in the order of the code:
  maximum size, slot and parent, composition, roll-back, hash, size; and the
  document written and read (`ot_encode_doc`, `ot_decode_doc`).
  **DocHistory** is a document under arbitrary appends.
* **Transport**: one ordered queue each way per client.
* **ServerDoc**: what `ot_server_receive` does to the server's document
  (`can_append`, `xform`, `append_op`), shared by System and ServerAlone.
* **Client**, **Server**: the handlers, one action (or one disjunct) per case.
  Two history variables are added: `seen[c]`, the version of the server's document that the
  messages received so far amount to, and `sentAt[c]`, that version when the
  last operation was sent. No guard reads them.
* **System**: server, clients and editors together; what an editor may do is
  the constant operator `Edits`.
* **TotalOrder**: the abstract specification of what server and delivery
  promise, without documents: requests get a place in one log or are lost,
  each client learns the log in order, once, and its own entry is the grant.
  `ServedInOrder` says that System implements it: `log` is the authors of
  the server's history, `known` is `seen`, `stage` is computed from
  `ack_required` and the queues.
* **Session**: System with clients that are outside at first. `Connect` is the
  application adding a client to those the server's send callback reaches and
  encoding the document for it; `Join` is the client decoding and opening it,
  any number of messages later.
* **Editor**: System with what the events of `client.c` tell the editors. An
  editor keeps its own text, changed by its user and by `OT_OP_APPLIED`, and its
  user's operations are written against that text.
* **Direct**: System with send callbacks that do not queue. What a call has
  left to do when it calls back is a frame on `stack`; `BeginSend` and
  `FinishSend` are the two halves of `send_buffer` around `client->send`.
  `AsQueued` is a refinement: with the messages of the frames put back into
  the queues, and a client in the middle of `send_buffer` seen as one that has
  sent, every step is a step of System or a stutter.
* **ServerAlone**: `ot_server_receive` on everything it may be sent, the calls
  that do not return (`stuck`) and the NULL that is read (`crashed`) included.
  The loops that may not return are that of `ot_xform` and that of `ot_compose` on
  append. `ot_doc_compose_after` composes too, but only documents of several
  operations, and those have nothing in them that cannot be passed
  (`StartIsEnough` in ServerAlone_proofs).
* **Codec**: one message from `ot_encode` or `ot_encode_err` to `ot_decode`, field
  by field on parsed JSON, possibly with fields lost on the way.
* **Builder**: an operation under construction, formatting boundaries and elements
  included, the copy `ot_dup_op` makes of it and what `ot_equal` says of the two.
* **Utf8**: the walks of `utf8.c` byte by byte, also over texts that are not
  well-formed.
* **DocMemory**: the heap blocks of a document through `ot_doc_append`,
  `array_ensure_size` and `ot_free_doc`.
* **MCParts** puts the last three, which share no state, side by side: a
  behaviour is one of one of them while the others rest.

### State and actions against the code

| code | model |
|---|---|
| `ot_client.doc / ack_required / anticipated / buffer` | `doc[c]`, `ack_required[c]`, `anticipated[c]`, `buffer[c]` |
| `ot_server.doc` | `server_doc` |
| `client->send`, then `ot_server_receive` | `up[c]`, `ServerStep(c)` |
| `server->send`, then `ot_client_receive` of every client | `down[c]`, `ClientStep(c)` = `ReceiveError`, `ReceiveAck`, `ReceiveOp` |
| `ot_client_apply` by the editor | `Edit(c)`; `Type(c)` in Editor |
| `ot_encode_doc`, `ot_decode_doc` and `ot_client_open` for a new client | `Connect(c)`, `Join(c)` |
| `OT_OP_APPLIED`, with a live or a freed operation; `OT_ERROR` | the disjuncts of `EventsOf` |
| the C stack between a send callback and the rest of its caller | `stack` |
| blocks of `malloc`; `history.data`, `.cap`; `composed` | `heap`; `data`, `cap`; `composed` (`FirstOf` or `OpAt`) |
| `NULL`, 20 zero bytes | `NULL`, `ZeroHash` |
| returned `ot_err` | the `err` field of the result of `ot_doc_append`, `ot_decode_doc` |

A handler runs to completion: the library has no threads, and the model's
interleaving is that of handlers, and in Direct that of nested calls.

## 3. The runs

Every passing run has a mutant of the code for each of its properties, which
TLC finds violated.

| run | what it shows | bounds |
|---|---|---|
| `loops` | all of Loops' properties | pairs of normal operations of <= 3 components, and of decoded ones of <= 2, of <= 2 characters, same span or not; 210 thousand states |
| `doc_history` | the composition is the replayed history; hashes; catching up; size; refusals; reloading | 4 appends of <= 2 components, two characters of which one is wide, `max_size` none or 3, 4-bit size; 36 thousand |
| `server_alone` | what stops a server, and that its broadcasts suffice to follow it | 3 versions; all operations of <= 2 components, size zero and an element among them, from every parent; documents absent, empty, limited; 68 thousand |
| `session` | convergence with a client that joins; acknowledgment in the end | 3 clients, one of which joins; inserts, one client 2 operations, the others 1; 118 thousand |
| `system_untied` | convergence of inserts and deletes together, where no composition ties what was not tied; that a parent's hash serves as its version although texts come back | 2 clients, 2 operations each, a text of 2; 844 thousand |
| `editor` | the control protocol and the editors' texts, whatever the documents do: operations that do not fit, failing transformations, broadcast errors; the refinement of TotalOrder | 2 clients, 3 and 2 operations; 275 thousand |
| `direct` | one direct callback makes no difference | the same editors, 2 operations each; client or server direct; 159 thousand |
| `codec` | what survives the way through the codec, and what becomes of damaged messages | hashes of 3 bytes, <= 2 components, 4-bit ints, 2 lost fields; 151 thousand |
| `parts` | memory, builders, UTF-8 | 9 blocks; 4 calls; 3 characters; 1.7 million |
| `system_composed`, `system_retyped`, `direct_both` | the divergences of section 4 | |

Why the bounds are enough. In the loops, three components of two characters
give every ordered pair of component types in each operation, meeting
at equal, shorter and longer lengths, with a component split over three others
and the text ended early on either side. In a document, four appends reach the
aliasing of the first operation, the first composition, a later one, and a text
that comes back. In the system, two operations per client are the least with
which a client has an anticipated operation and a buffer; the third in
`editor` composes with a buffer. Three clients are the least with
operations of two others under way at once, and with one that joins between
them. Nine blocks hold a history of four operations, whose array has grown
twice. `MaxEdits` bounds the operations of each editor, `MaxHistory` a history,
`MaxDamage` the lost fields, `MaxCalls` and `MaxChars` an operation and a text;
`UntiedBound` (in MCSystem) is the restriction of `system_untied`.
`CHECK_DEADLOCK FALSE` because a call returns, editors stop editing, and a
crashed or stuck program does nothing more.

Fairness. In System and Session (`Fairness`, `SessionFairness`) the application
delivers what is queued: weak fairness of taking the oldest message of each
queue, which only the two receiving handlers do, in Session for clients that
have opened their document. The library neither drops nor retries a message, so
anything weaker refutes liveness at once. In Direct a call that is under way
goes on (weak fairness of `Step`): that is the C stack. No fairness for editors
and for joining.

## 4. Where the code and its documentation part

Shown by a run:

* `system_composed`: a server that is two operations ahead transforms against
  their *composition*. The composition of a delete and an insert at the same
  place has the delete in front, whichever came first, and then an insert of the
  client is tied with the composed insert although it was not with the single
  ones. Client and server make different texts of it, and no error is raised.
  `system_untied` shows that this is all there is to it: with at most one
  operation to transform against, or an operation that inserts nothing, or
  several that only insert or only delete, they converge.
* `system_retyped`: an operation based on a text that has been changed and
  restored meanwhile is taken for one based on the restored version. In
  `system_untied` texts come back too; there `HashFindsTheVersion` says that it makes
  no difference which of the versions with the text the server takes.
* `direct_both`: when client and server both send by calling, the acknowledgment
  is received before `send_buffer` has stored that it waits for it. The buffer is
  sent twice, and the outer call copies a buffer that is NULL.

Characterised by a property of a passing run, which says exactly when it happens:

* A first operation that a document with a maximum size refuses crashes
  the server while it logs the refusal (`server.c:56`:
  `CrashesOnlyEmptyAndLimited`).
* `ot_xform` and `ot_compose` never return on a component of size zero or an
  element, which an editor or a message may bring (`FailsForCause` and
  `EveryTurnAdvances`; for the server `SticksOnlyOnEmpty`). A first operation that
  has one is accepted, and no second one after it. `ot_xform` meets its copy, which
  has lost its counts of zero: after `[skip 0]` the transformation of `[skip 1]` fails,
  after `[insert a, delete 0]` that of `[insert b]` succeeds and the append gets stuck.
* A client_id or count of 2^31 or more is received as another one
  (`decode.c:14`), the name of a decoded element is freed memory (`decode.c:60`;
  both `RoundTrip`), and a component that lacks a field is read through NULL
  (`decode.c:38`; `NeverPassesForOp`). A formatting boundary is encoded without
  any field and is such a component.
* A byte no character begins with makes `utf8_length` run for ever, or, in front
  of a text, stop after one turn (`LengthCounts`).
* The editor gets no `OT_OP_APPLIED` when a transformation fails (`client.c:295`),
  although doc/getting-started.md announces one "shortly after" every
  `OT_OP_INCOMING`; and when the append fails the event brings an operation that
  has been freed (`client.c:311`): the first and the third disjunct of `EventsOf`,
  both taken in run `editor`. `InSync` speaks of the editors the latter has not
  happened to, and `BufferFollows` of clients that wait: what a client with nothing
  pending receives may be refused by its document.

Left out of the inputs, because a property would fail for this reason alone:

* The first operation of a document is not checked for its span. A delete in it
  stays in the composition for ever, is subtracted from the size, and lets a
  document grow beyond its maximum size. `doc_history` starts from
  first operations that only insert (`FirstComps`).
* An operation that replaces a wide character may be refused although the
  document would stay within its maximum size, as inserts count bytes and
  deletes characters. No property says it would not.

## 5. What is proved

All leaves are checked; `PROJECT.json` lists the theorems. The assumptions are
those of the modules, evaluated by TLC in the runs: `Clients` are naturals, `MaxEdits`
a natural, `UintRange` a positive natural, NULL is no block, what `Pairs`, `Comps`,
`Openings`, `FirstComps` and `LaterComps` hold are sequences of components, a
document that is opened has a composition if it has a history, what `Sent` holds
is what an `ot_op` can hold (`IsSendable`), builders are given naturals and texts that are
sequences, and every character has the bytes its first one announces (`IsCharacter`) and a
text a size that a `size_t` holds. There are finitely many clients where
the server calls one after the other. Six hypotheses of single theorems, `EditorsFit`,
`EditorsInsert`, `RefusedShowsNothing`, `TextsFit`, `CharactersDiffer` and `OneQueue`, are named where they are
used below; the runs of the properties they are about satisfy them (`EditorsInsert` in run
`session`).

The algorithms are iterated by recursive functions and their meaning is a fold,
so what they do for operations of every length needs induction over data. The
library's induction theorems take an operator, which the provers cannot
instantiate; but a property can be given as a *set* of naturals or of sequences.
**Ops_proofs** begins with that (`LeastOf`, `SetInduction`, induction over sequences), and
what a fold computes is taken from the existence of its run.

The rest of **Ops_proofs** are lemmas, for operations and texts of any length: what an operation spans and makes (`BaseLen`, `OutLen`, `ApplyTo`) and
what one component more does to that; that the builders' merging of components
changes nothing; what lies in front of an iterator that has moved; what each case
of `ot_xform` and of `ot_compose` does (`XformInv`, `ComposeInv`: whatever has been made so
far stands to what has been consumed so far as the result of a call stands to its
operations, `Merged` and `InSequence`); hence what whole calls return; and what
`ot_doc_compose_after` and `ot_decode_doc` do operation by operation.

**Loops_proofs**, for any two operations, whether or not one fits the other, the
induction over the turns being that of the specification: `AlignedHolds`,
`ResultSpansHolds`, `TP1Holds`, `ComposeIsSequenceHolds`, `FailsForCauseHolds` and
`EveryTurnAdvancesHolds`. `MergeKeepsIntentionsHolds` follows one character of the text, or
of an insert, through the turns: after every turn what each result has made of the part
passed holds the other's inserts and holds a character of the text exactly if neither
operation deletes it. It assumes that characters can be told apart
(`CharactersDiffer`), as the property does; the run's pairs satisfy it, which TLC
evaluates. One fact in the invariant is not in the properties: in
`ot_compose` an insert of op2 is left half way only over an insert of op1, which
stays current until the rest is taken. It is why the code may take the whole text of
op2's insert once op1 is exhausted (compose.c:171).

**DocHistory_proofs**, for any appends and any length of the history:
`HashChainHolds`, `ComposedIsReplayHolds`, `CatchesUpHolds`, `RefusedForCauseHolds`,
`ReloadsTheSameHolds` from one invariant `DocInv`: the history is a chain of hashes
(`ChainInv`), the composition makes the text the history makes (`TextInv`), every hash is
that of the text up to it (`HashInv`), and what `ot_doc_compose_after` returns brings
each version to the newest (`SinceInv`). That the composition is the replay needs that
composing cannot fail on an operation that spans the text, and that it leaves
nothing a loop sticks on, which is where the parts of Ops_proofs about one turn meet.
`WithinMaxSizeHolds` adds `SizeInv` and needs `TextsFit`: the maximum size and what one
operation adds stay together below the range of a uint32_t, without which the
wrapped sum of doc.c passes for a small one.

**ServerAlone_proofs**, for any operations sent and any documents to begin with:
`FollowerHasTheDocumentHolds`, `CrashesOnlyEmptyAndLimitedHolds` and
`SticksOnlyOnEmptyHolds`. The second needs that a document without a composition has no
history (`IsDocument`); the first, that the follower has no maximum size, so that
what the server has appended composes for it too, with the same result
(`FollowerAppends`); the third (`StuckInv`), that whatever `ot_compose` has come to the end
of could be passed (`ComposeEnds`), so that everything in a document of several
operations can (`StartIsEnough`), and that of one operation, whatever it is, the copy
is what is transformed against (`SinceIsTyped`).

**System_proofs**, for any set of clients, any initial text and any bounds.
Its first two invariants hold for any editors and whatever `ot_xform` and `ot_compose`
make of the components:

* `ControlInvariant`: `Spec => []Control`, `Control` being
  `TypeOK /\ AckDiscipline /\ OneInFlight`; `TypeCorrect`, `AckDisciplineHolds`,
  `OneInFlightHolds` are its parts. Neither AckDiscipline nor OneInFlight is
  inductive alone: that an acknowledgment may clear the anticipated operation
  needs that no second one is under way; that the next operation finds the queue
  empty needs that a client that waits for nothing has nothing under way; both
  need messages to carry their author. `Control` is restated one client at a
  time (`ControlByClient`), and each action is shown to keep `Each(k)` for the acting
  client and, where the server broadcasts, for all others.
* `CallersStayInRangeHolds`: the read past the end of the history in
  `ot_doc_compose_after` never happens. Its own invariant (`ServerInStep`): a
  server with a document has a non-empty history whose last hash is that of the
  composition.
* `ServedInOrderHolds`: System implements TotalOrder. The invariant `OrderInv` adds
  what every client still has to receive (`RestUnderWay`): there is a numbering of
  the messages in `down[k]` that starts at `seen[k]`, ends at the length of the history,
  goes up by one with every operation and not with an error, and each operation
  numbered n is by the author of the n-th of the history. It is stated with
  numbers and not as a filtered queue because appending to, and taking the head
  of, a numbering are first-order facts. Each step is then one of TotalOrder: an
  edit that sends is a request, a server step grants or loses one, a client step
  learns the next entry, and an acknowledgment with a buffer behind it, which is a
  grant and a request in one step of the code, is one action there too.

Its third invariant is about texts, and assumes `EditorsFit`: the editors apply
operations `ot_xform` and `ot_compose` can pass, and to a document nobody has yet one
that spans nothing. They need not span what the editor shows otherwise.

* `BufferFollowsHolds`, of clients that wait, from `TextInv`: whatever is in a queue or held by a client can be
  passed, the document's composition makes a text of the length the last held
  operation makes, and anticipated and buffer follow each other. A client
  keeps this because `ot_xform` fails before it has changed anything, and because
  what it returns is known (`Merged`) even when client and server have parted.
* `InSyncHolds`, a theorem of EditorSpec: an editor's text follows its client's
  document through every event. It assumes also `RefusedShowsNothing`: what an editor
  applies and its document refuses changes nothing on its screen; a user who sees
  a refused edit is out of sync for that reason alone.

Its fourth invariant (`BridgeInv`) says what clients and server have in common, and
assumes, besides `EditorsFit`, that an acknowledged operation does to the server's
text what its author anticipated (`AckedAlike`, which follows from `AckedAsAnticipated`):

* `BridgeHolds`: Bridge is not inductive without what goes through the queues. The
  server's history replays (`ServerTells`): each operation spans the text before it
  and has the hash of the text it makes. What a client has seen is a version of it
  (`Begun`); the operation it has sent is based on the version it had then
  (`BasedOn`), so that the server, which looks for the newest version with that
  hash, finds the same text and never refuses it (`ServerTakes`); and an operation a
  client waits for is in one of the two queues (`NotLost`). An incoming operation
  moves the client's text, the anticipated operation and the buffer by one
  application of `Merged` each (`IncomingBridges`).
* `ConvergedHolds`: when all is delivered each client has seen the newest version
  (`RestUnderWay`) and waits for nothing (`NotLost`), so Bridge leaves only the
  server's text. It shows where convergence really hangs: not on the protocol but on
  the server's one transformation against a composition agreeing with the client's
  several transformations, which run `system_composed` shows to fail.

Its fifth invariant (`LaidInv`) shows that they agree when editors only insert (`EditorsInsert`:
what they apply has no deletes and no two neighbours of a kind, as the builders leave it), and
assumes nothing else: `AckedAsAnticipatedHolds`, `HashFindsTheVersionHolds`, and `InsertersBridge`
and `InsertersConverge`, the two theorems above with the assumption proved.

* An operation without deletes is known by its length, the characters it inserts and the gaps of
  the text it inserts them in (`Layout`, `SameOperation`). `ot_xform` moves the gaps of the
  operation behind the other's inserts, or leaves them, and gives every gap a place in the merged
  text (`XformOfPlain`); `ot_compose` composes these places (`ComposeOfPlain`). Both come
  from an invariant over the turns of the loop, as in Ops_proofs; they are why one
  transformation against a composition is as good as one for each of its parts. Deletes
  break it: they bring gaps together, and which insert was first is forgotten.
* AckedAsAnticipated speaks of the moment an acknowledgment is the next thing to read. To be
  inductive it must be said of an operation wherever it is: there is one way of its gaps
  through the history from the version it was sent at (`Carried`), it is on that way at the version
  sent when it is under way, at the version before its own when it was appended, and at the version
  its author has seen when it is waited for (`OnTheWay`). The author moves it by one entry with each
  operation it receives (`IncomingLays`), the server by all at once (`ServerCarries`, for which
  `SinceLifts` says what `ot_doc_compose_after` returns does to the gaps). Besides, an own
  operation is in the history unseen only once and only while it is waited for
  (`OwnIsLate`), so that at the acknowledgment both ways have met.
* HashFindsTheVersion: inserts never shorten a text (`TextsNeverShrink`), so between two versions with
  the same text all are as long and nothing was done to it (`SameLengthIsIdle`). The composition from
  the version sent at and the one from the version found then take the operation's gaps to the same
  place (`ComposedLifts`), and an operation is known by its gaps (`LaidFindsTheVersion`).
* A copy does what its operation does (`SameWork`), and of an operation without deletes, as the
  builders leave it, is the same (`CopyIsFine`).

**Applications_proofs**. Of Direct, for any initial text, editors and bounds: `AsQueuedHolds`, Direct
implements System, and `CallsNest`, the shapes a stack of calls can have. Both assume
`OneQueue`, that the application lets the client or the server queue what it sends (run
`direct_both` shows what happens otherwise). Three things make the argument.

* What has nothing to do with the queues is the same in Direct and in the System it
  is mapped to, although that is another instance of it (`SameAppend`, `SameXform`,
  `SameCompose`, `SameCopy`, `SameReceived`).
* `DirectInv`: the calls under way are one of eight stacks (`InCalls`), at most one
  client among them is sending, and the broadcast that called it will not call it again
  (`Once`); whoever hands over directly has empty queues (`Queues`); and what a client
  holds carries its `client_id` (`Signed`), by which the server's nested call is seen to be
  on behalf of the client that is sending. So each stack has one meaning
  (`Seen`): who has, for everybody else, already sent; what the server is still to
  take; what is still to be handed to whom.
* Each step keeps `DirectInv` and is a step of System or none (`NextMaps`).
  `send_buffer` happens when it begins (`BeginSendMaps`) and the end of it changes nothing
  anybody sees (`FinishMaps`); `ot_server_receive` is the server's step; and a client
  called by a broadcast receives the only message on its way to it (`CallClientMaps`).

Of Session, `InsidersConvergeHolds`, for any number of clients that join, with the two
assumptions of `ConvergedHolds`. Session implements no System in which everybody is there
from the start: `Connect` empties a queue and lets a client skip a part of the history. But to
those inside, all of its other steps are steps of System, in which a client on its way in counts as
one that has opened its letter already (`DocHat`, `SeenHat`) and those outside take nothing they are
sent (`Outsiders`), so that `Join` changes nothing. `Connect` keeps the invariants
of System although it is none of its steps (`NewcomerFits`): what the letter makes is the
server's document with its text and hashes (`ReloadedIsMade`), and a newcomer has nothing under
way. The two documents need not be equal, operation by operation they make the same text.
`InsertersWelcome` says it of editors that only insert without the second assumption, from
`LaidInv` of the same System (`NewcomerLaid`, `SessionKeepsLaid`).

**Parts_proofs**, of DocMemory: `NoFaultHolds` and `NothingLeakedHolds`, for any heap and
any number of operations, wherever the array moves. The inductive invariant
`Owned`: the array has a capacity of at least the history's length
(`ArrayHolds`); the composition is NULL, the first operation of the array as it
is *now*, or an operation of its own, according to the length of the history
(`ComposedFollows`); and no block has two owners (`Apart`). NothingLeaked alone
is not inductive: freeing needs to know that what is freed is nobody else's.

Of Builder, for any number of calls with any counts, texts and formats:
`MeansTheCallsHolds`, `CopyIsEqualHolds` and `LastValueCountsHolds`. The first two rest on `Corresponds`: the operation that was
built and the sequence of one component per call make the same of every text
(`Alike`). For the copy, the calls `ot_dup_op` makes are folded over an operation that
is `Tidy`, as the builders leave it: no two neighbours could be merged, so each call
makes the component it copies (`RebuiltFold`). The third has an invariant of
the boundary alone (`BoundaryInv`).

**Codec_proofs**, for hashes of any length, operations of any size and any number of
missing fields: `RoundTripHolds` and `NeverPassesForOpHolds`. `HexThereAndBack` follows `atohex`
byte by byte (`Written`: after k bytes, z of them leading zeros, there are 2(k - z)
digits, two for each byte behind the zeros) and shows that `hextoa` undoes it.
The invariant `MessageInv` says what damage leaves: a message with fields missing still has
no field of another kind, its items are as many as the components, and either a
field is gone or an item is unsound; an item that was sound had the fields that
are asked for and no others, so that losing any of them makes it unsound
(`LessIsUnsound`). An unsound item is behind all that are decoded, so the operation is never
taken (`UnsoundIsRefused`).

The module also has the two theorems about the walks over UTF-8, `SlicesAreCharactersHolds`
and `LengthCountsHolds`, for any characters and any length of a text. They rest on the
offsets at which characters end (`Offset`) and on every byte being in one (`InAPart`). `WalkInv`
says where the walk may stand: behind the characters it has counted, or, in a text
that is not well-formed, in front of every byte no character begins with: from a lead
byte it goes on to the next character at most, from any other one byte back.

Only model-checked:

* `AckedAsAnticipated`, `HashFindsTheVersion`, `Bridge`, `Converged` and `InsidersConverge` of editors
  that also delete, without an assumption on what happens. The first two do not hold of all such
  editors, as section 4 shows, and the restrictions under which they do (`UntiedBound`) are on what happens, not on what editors write;
* `EventuallyAcknowledged` and `CallsReturn`, liveness, out of the provers' reach.

## 6. What is not modelled

* Loss, duplication, reordering and reconnection: the code has no notion of
  them, and no number in a message by which it could.
* What the library logs, and the SHA1 digest itself: `HashOf` is injective.
* cJSON, and messages that are not JSON; hex of an odd length or with other
  characters; a message that fails to decode at the server, whose answer is the
  error broadcast of any refused operation.
* What becomes of formatting and elements in `ot_xform` and `ot_compose`: stubs
  in the source, on which the calls do not return.
* `ot_decode_doc` leaks the operation on which it stops; DocMemory has the
  caller of `ot_doc_append` free what was refused, as `client.c` and `server.c`
  do.
* Sums of the builders (`ot.c:232`, `270`) do not wrap: no run has counts near 2^32.
  A decoded formatting boundary is an empty one; the code leaves its arrays
  uninitialised (`decode.c:65-67`), but no encoder writes what would reach it.
* Characters cut off at the end of a text (Utf8 has stray bytes, not truncated ones).
* The tests deliver messages with queues of their own (`test/scenario/scenario.h`),
  emptied at fixed points; Transport lets each be emptied at any time.
* Memory other than a document's: the operations a client holds are values
  here.
* `ot_client_open` and `ot_server_open` on a client or server that already has a
  document: an assignment that leaks the old one, which no caller makes.
* The unit tests, the scenario tests and compose_monkey, which were read as
  statements of what the code is meant to do.
* `array_copy` and `array_append` apart from the history: sequences stand for
  arrays.

## 7. What could come next

`AckedAsAnticipated` for editors that also delete, as long as no deletion brings two inserts of
different authors together (`UntiedBound`).
