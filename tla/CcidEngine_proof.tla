-------------------------- MODULE CcidEngine_proof --------------------------
(* Proofs about the CCID engine, for every number of sequence numbers,       *)
(* blocks, operations, events and unread answers: a data answer is made of   *)
(* the blocks of its own operation and of the card it began with, and no     *)
(* operation waits for ever.                                                 *)
EXTENDS CcidEngine, WellFoundedInduction, TLAPS

-----------------------------------------------------------------------------
(* The inductive invariant. *)

\* The part of an operation's answer that was read is its first n blocks.
OwnChain(chain, op) ==
    \A i \in 1 .. Len(chain) : chain[i] = [id |-> op.id, part |-> i, last |-> FALSE]

\* A frame under the number the operation waits for, when n blocks were read:
\* the next block of its own answer, with the reader's job in step with it.
OwnFrame(f, op, n, job) ==
    /\ f.kind \in {"begin", "continue"} =>
          /\ f.block = [id |-> op.id, part |-> n + 1, last |-> FALSE]
          /\ job # None /\ job.todo = "wait" /\ job.part = n + 1
          /\ job.id = op.id /\ job.kind = op.kind
    /\ f.kind \in {"end", "complete"} =>
          f.block = [id |-> op.id, part |-> n + 1, last |-> TRUE] /\ job = None
    /\ f.kind = "more" => n = 0

\* The job the reader works on is the operation's and has answered n blocks.
OwnJob(job, op, s, n) ==
    job # None =>
        /\ job.id = op.id /\ job.kind = op.kind /\ job.seq = s
        /\ job.todo = "answer" => job.part = n
        /\ job.todo = "more" => n = 0

Served(r, op, s, n) ==
    /\ OwnJob(r.job, op, s, n)
    /\ \A i \in 1 .. Len(r.fifo) : r.fifo[i].seq = s => OwnFrame(r.fifo[i], op, n, r.job)

\* The reader did not take the command: the first answer under its number says so.
Refused(r, s) ==
    \E i \in 1 .. Len(r.fifo) :
        /\ r.fifo[i].seq = s /\ r.fifo[i].kind = "failed"
        /\ \A j \in 1 .. i - 1 : r.fifo[j].seq # s

\* The reader waits to be asked for block n + 1, or has dropped the command.
Resumed(job, op, n) ==
    job # None =>
        /\ job.id = op.id /\ job.kind = op.kind
        /\ job.todo = "wait" /\ job.part = n

DataInv(e, t, r) ==
    LET op == e.pending_op
        n == Len(e.chain)
    IN
    /\ OwnChain(e.chain, op)
    /\ t.dir \in {"out", "in"}
    /\ t.dir = "out" /\ t.level # "resume" => n = 0
    /\ t.dir = "out" /\ t.level = "resume" => Resumed(r.job, op, n)
    /\ t.dir = "in" => Refused(r, t.seq) \/ Served(r, op, t.seq, n)

ExpectsData == expected_response(engine.pending_op.kind) = "DataBlock"

\* What is pending, what is armed and what the engine expects go together.
WaitInv ==
    IF Idle
    THEN transfer = None /\ engine.current_deadline = None /\ begun = NotBegun
    ELSE /\ transfer # None /\ engine.current_deadline # None
         /\ now <= engine.current_deadline
         /\ engine.current_deadline <= WallLimit + DefaultTimeout * (MaxBlocks - engine.outgoing)
         /\ transfer.seq = engine.expected_seq /\ engine.wtx_count <= MaxTimeExtensions
         /\ engine.expected_response_type = expected_response(engine.pending_op.kind)

\* A powered card is there, and is the one the operation began with.
CardInv ==
    /\ engine.activated => engine.card_present
    /\ ~Idle /\ begun.activated => engine.activated /\ engine.card_gen = begun.gen

IInv ==
    /\ TypeOK /\ WaitInv /\ CardInv
    /\ ~Idle /\ ExpectsData => DataInv(engine, transfer, reader)
    /\ AnswerIsItsOwn

-----------------------------------------------------------------------------
(* The constants, and the engine's own state changes. *)

\* The bounds are numbers; there is at least one sequence number and one block.
LEMMA Consts ==
    /\ SeqModulus \in Nat \ {0} /\ MaxBlocks \in Nat \ {0}
    /\ DefaultTimeout \in Nat /\ MaxTimeExtensions \in Nat /\ WallLimit \in Nat
    /\ MaxDrain \in Nat /\ MaxResponse \in Nat /\ MaxParts \in Nat /\ MaxOps \in Nat
    /\ MaxEvents \in Nat /\ MaxFifo \in Nat /\ Multipliers \subseteq Nat
BY BoundAssumption

\* Every operation waits for a type of response.
LEMMA KindNames ==
    ASSUME NEW kind \in Kinds
    PROVE  expected_response(kind) \in Responses
BY BoundAssumption DEF expected_response, Responses

EngineOK(e) ==
    /\ e \in Engines /\ Len(e.chain) <= MaxResponse /\ e.outgoing < MaxBlocks
    /\ e.wtx_count <= MaxTimeExtensions + 1 /\ e.abort_drain_count <= MaxDrain
    /\ e.activated => e.card_present

\* The fields of the engine and their types.
LEMMA EngineTypes ==
    ASSUME NEW e \in Engines
    PROVE  /\ e.card_gen \in Nat /\ e.next_seq \in Seqs /\ e.expected_seq \in Seqs
           /\ e.card_present \in BOOLEAN /\ e.activated \in BOOLEAN /\ e.connected \in BOOLEAN
           /\ e.needs_recovery \in BOOLEAN /\ e.pending_op \in Operations \cup {None}
           /\ e.expected_response_type \in Responses \cup {"none"}
           /\ e.current_deadline \in Nat \cup {None} /\ e.chain \in Seq(Blocks)
           /\ e.outgoing \in Nat /\ e.wtx_count \in Nat /\ e.abort_drain_count \in Nat
           /\ Len(e.chain) \in Nat
BY DEF Engines

\* Taking the operation leaves neither operation nor deadline.
LEMMA TakenIs ==
    ASSUME NEW e, EngineOK(e)
    PROVE  /\ EngineOK(Taken(e))
           /\ Taken(e).pending_op = None /\ Taken(e).current_deadline = None
           /\ Taken(e).chain = e.chain /\ Taken(e).card_gen = e.card_gen
           /\ Taken(e).activated = e.activated /\ Taken(e).card_present = e.card_present
BY Zenon DEF EngineOK, Engines, Taken

\* A removal deactivates the card and leaves the operation to its caller.
LEMMA RemovedIs ==
    ASSUME NEW e, EngineOK(e)
    PROVE  /\ EngineOK(Removed(e))
           /\ Removed(e).pending_op = e.pending_op
           /\ Removed(e).current_deadline = e.current_deadline
           /\ Removed(e).activated = FALSE
<1>1. e.card_gen + 1 \in Nat
  BY DEF EngineOK, Engines
<1> QED
  BY <1>1, ZenonT(60) DEF EngineOK, Engines, Removed

\* The same, unless the status says the card is present.
LEMMA RemovedUnlessIs ==
    ASSUME NEW e, EngineOK(e), NEW present \in BOOLEAN
    PROVE  /\ EngineOK(RemovedUnless(present, e))
           /\ RemovedUnless(present, e).pending_op = e.pending_op
           /\ RemovedUnless(present, e).current_deadline = e.current_deadline
           /\ ~present => RemovedUnless(present, e).activated = FALSE
           /\ present => RemovedUnless(present, e) = e
BY RemovedIs, Zenon DEF RemovedUnless

\* Asking for recovery leaves the operation.
LEMMA RecoveryIs ==
    ASSUME NEW e, EngineOK(e)
    PROVE  /\ EngineOK(Recovery(e))
           /\ Recovery(e).pending_op = e.pending_op
           /\ Recovery(e).current_deadline = e.current_deadline
BY Zenon DEF EngineOK, Engines, Recovery

\* Losing the connection leaves the operation.
LEMMA LostIs ==
    ASSUME NEW e, EngineOK(e)
    PROVE  /\ EngineOK(Lost(e))
           /\ Lost(e).pending_op = e.pending_op
           /\ Lost(e).current_deadline = e.current_deadline
<1>1. 0 \in Nat /\ 0 < MaxBlocks
  BY Consts
<1>2. Lost(e) \in Engines
  BY <1>1, Zenon DEF EngineOK, Engines, Lost
<1>3. /\ Lost(e).chain = e.chain /\ Lost(e).outgoing = 0 /\ Lost(e).wtx_count = e.wtx_count
      /\ Lost(e).abort_drain_count = e.abort_drain_count /\ Lost(e).activated = FALSE
      /\ Lost(e).pending_op = e.pending_op /\ Lost(e).current_deadline = e.current_deadline
  BY DEF EngineOK, Engines, Lost
<1> QED
  BY <1>1, <1>2, <1>3 DEF EngineOK

\* The number after a sequence number is one, at the wrap too.
LEMMA NextSeq ==
    ASSUME NEW s \in Seqs
    PROVE  (s + 1) % SeqModulus \in Seqs
BY Consts DEF Seqs

\* allocate_seq expects the number it hands out.
LEMMA AllocateIs ==
    ASSUME NEW e, EngineOK(e)
    PROVE  /\ EngineOK(allocate_seq(e))
           /\ allocate_seq(e).expected_seq = e.next_seq
           /\ allocate_seq(e).pending_op = e.pending_op
           /\ allocate_seq(e).current_deadline = e.current_deadline
           /\ allocate_seq(e).chain = e.chain /\ allocate_seq(e).outgoing = e.outgoing
           /\ allocate_seq(e).activated = e.activated /\ allocate_seq(e).wtx_count = e.wtx_count
           /\ allocate_seq(e).expected_response_type = e.expected_response_type
           /\ allocate_seq(e).card_gen = e.card_gen
<1>1. e.next_seq \in Seqs
  BY DEF EngineOK, Engines
<1>2. (e.next_seq + 1) % SeqModulus \in Seqs
  BY <1>1, NextSeq
<1> QED
  BY <1>1, <1>2, Zenon DEF EngineOK, Engines, allocate_seq

\* The buffers, counters and deadline a transition clears or sets before it ends.
LEMMA ClearedIs ==
    ASSUME NEW e, EngineOK(e)
    PROVE  /\ EngineOK([e EXCEPT !.chain = <<>>])
           /\ EngineOK([e EXCEPT !.outgoing = 0])
           /\ [e EXCEPT !.chain = <<>>].card_gen = e.card_gen
           /\ [e EXCEPT !.chain = <<>>].activated = e.activated
<1>1. <<>> \in Seq(Blocks) /\ Len(<<>>) = 0
  OBVIOUS
<1>2. 0 \in Nat /\ 0 < MaxBlocks /\ 0 <= MaxResponse
  BY Consts
<1> DEFINE c == [e EXCEPT !.chain = <<>>]
           o == [e EXCEPT !.outgoing = 0]
<1>3. c \in Engines /\ o \in Engines
  BY <1>1, <1>2, Zenon DEF EngineOK, Engines
<1>4. /\ c.chain = <<>> /\ c.outgoing = e.outgoing /\ c.wtx_count = e.wtx_count
      /\ c.abort_drain_count = e.abort_drain_count /\ c.activated = e.activated
      /\ c.card_present = e.card_present /\ c.card_gen = e.card_gen
  BY DEF EngineOK, Engines
<1>5. /\ o.chain = e.chain /\ o.outgoing = 0 /\ o.wtx_count = e.wtx_count
      /\ o.abort_drain_count = e.abort_drain_count /\ o.activated = e.activated
      /\ o.card_present = e.card_present
  BY DEF EngineOK, Engines
<1> HIDE DEF c, o
<1>6. EngineOK(c) /\ EngineOK(o)
  BY <1>1, <1>2, <1>3, <1>4, <1>5 DEF EngineOK
<1> QED
  BY <1>4, <1>6 DEF c, o

\* An operation that ended in recovery leaves neither operation nor deadline.
LEMMA EndedIs ==
    ASSUME NEW e, EngineOK(e)
    PROVE  /\ EngineOK(Recovery(Taken(e)))
           /\ Recovery(Taken(e)).pending_op = None
           /\ Recovery(Taken(e)).current_deadline = None
BY TakenIs, RecoveryIs

-----------------------------------------------------------------------------
(* An operation ends. *)

Readers == [job : Jobs \cup {None}, fifo : Seq(Frames), present : BOOLEAN, notice : BOOLEAN]

SameCard == answer' # answer /\ begun.activated => answer'.gen = begun.gen

\* What the invariant says of the types.
LEMMA EngineNow ==
    ASSUME IInv
    PROVE  EngineOK(engine) /\ reader \in Readers
BY DEF IInv, TypeOK, CardInv, EngineOK, Readers

\* An operation in progress has an identity, a transfer and a deadline.
LEMMA Pending ==
    ASSUME IInv, ~Idle
    PROVE  /\ engine.pending_op \in Operations
           /\ engine.pending_op.id \in 1 .. MaxOps /\ engine.pending_op.kind \in Kinds
           /\ transfer \in Transfers /\ engine.current_deadline \in Nat
<1>1. engine.pending_op \in Operations /\ transfer \in Transfers
  BY DEF IInv, TypeOK, Engines, Idle, WaitInv
<1>2. engine.current_deadline \in Nat
  BY DEF IInv, TypeOK, Engines, WaitInv
<1> QED
  BY <1>1, <1>2 DEF Operations

\* Only an operation in progress has a transfer.
LEMMA InFlight ==
    ASSUME IInv, transfer # None
    PROVE  ~Idle
BY DEF IInv, WaitInv

\* Counting a completion keeps the type of the counts.
LEMMA CompletedType ==
    ASSUME IInv, ~Idle, Completed(engine.pending_op.id)
    PROVE  completions' \in [1 .. MaxOps -> Nat]
<1>1. engine.pending_op.id \in 1 .. MaxOps
  BY Pending
<1>2. completions \in [1 .. MaxOps -> Nat]
  BY DEF IInv, TypeOK
<1>3. completions[engine.pending_op.id] + 1 \in Nat
  BY <1>1, <1>2
<1> QED
  BY <1>1, <1>2, <1>3 DEF Completed

\* An ended operation leaves nothing behind, whatever else the step did.
LEMMA EndsWell ==
    ASSUME IInv, ~Idle, NEW e, EngineOK(e), e.pending_op = None, e.current_deadline = None,
           EndPending(e), reader' \in Readers,
           started' \in 0 .. MaxOps, events' \in 0 .. MaxEvents, AnswerIsItsOwn'
    PROVE  IInv'
<1>1. engine' = e /\ transfer' = None /\ now' = 0 /\ begun' = NotBegun
  BY DEF EndPending
<1>2. completions' \in [1 .. MaxOps -> Nat]
  BY CompletedType DEF EndPending
<1>3. begun' \in [gen : Nat, activated : BOOLEAN]
  BY <1>1 DEF NotBegun
<1>4. TypeOK'
  BY <1>1, <1>2, <1>3 DEF TypeOK, EngineOK, Readers
<1>5. Idle'
  BY <1>1 DEF Idle
<1>6. WaitInv'
  BY <1>1, <1>5 DEF WaitInv
<1>7. CardInv'
  BY <1>1, <1>5 DEF CardInv, EngineOK
<1> QED
  BY <1>4, <1>5, <1>6, <1>7 DEF IInv

\* A step that hands out no answer keeps what is said of answers.
LEMMA Silent ==
    ASSUME IInv, UNCHANGED answer
    PROVE  AnswerIsItsOwn' /\ SameCard
BY DEF IInv, AnswerIsItsOwn, SameCard

\* What CancelTransfers and Complete leave, with or without an operation.
LEMMA CutOffWell ==
    ASSUME IInv, NEW e, EngineOK(e), e.pending_op = engine.pending_op,
           e.current_deadline = engine.current_deadline, CutOff(e), reader' \in Readers,
           started' \in 0 .. MaxOps, events' \in 0 .. MaxEvents, UNCHANGED answer
    PROVE  IInv' /\ SameCard
<1>1. AnswerIsItsOwn' /\ SameCard
  BY Silent
<1>2. CASE ~Idle
  <2>1. /\ EngineOK(Taken(e)) /\ Taken(e).pending_op = None
        /\ Taken(e).current_deadline = None /\ EndPending(Taken(e))
    BY <1>2, TakenIs DEF CutOff
  <2> QED
    BY <1>1, <1>2, <2>1, EndsWell
<1>3. CASE Idle
  <2>1. engine' = e /\ transfer' = transfer /\ now' = now /\ begun' = begun
        /\ completions' = completions
    BY <1>3 DEF CutOff, GoOn
  <2>2. transfer = None /\ e.current_deadline = None /\ begun = NotBegun /\ e.pending_op = None
    BY <1>3 DEF IInv, WaitInv, Idle
  <2>3. TypeOK'
    BY <2>1 DEF IInv, TypeOK, EngineOK, Readers
  <2>4. Idle'
    BY <2>1, <2>2 DEF Idle
  <2>5. WaitInv' /\ CardInv'
    BY <2>1, <2>2, <2>4 DEF WaitInv, CardInv, EngineOK
  <2> QED
    BY <1>1, <2>3, <2>4, <2>5 DEF IInv
<1> QED
  BY <1>2, <1>3

\* A bulk-out transfer that falls short keeps the invariant.
LEMMA ShortStep ==
    ASSUME IInv, bulk_out_falls_short
    PROVE  IInv' /\ SameCard
<1>1. ~Idle /\ EngineOK(engine)
  BY InFlight, EngineNow DEF bulk_out_falls_short
<1>2. /\ EngineOK(Recovery(Taken(engine))) /\ Recovery(Taken(engine)).pending_op = None
      /\ Recovery(Taken(engine)).current_deadline = None
  BY <1>1, EndedIs
<1>3. /\ EndPending(Recovery(Taken(engine))) /\ reader' \in Readers
      /\ started' \in 0 .. MaxOps /\ events' \in 0 .. MaxEvents /\ AnswerIsItsOwn' /\ SameCard
  BY EngineNow, Silent DEF bulk_out_falls_short, IInv, TypeOK
<1> QED
  BY <1>1, <1>2, <1>3, EndsWell

\* The deadline and the caller's cancel end the operation alike.
LEMMA StoppedIs ==
    ASSUME IInv, ~Idle
    PROVE  LET e == Recovery(Taken([engine EXCEPT !.outgoing = 0])) IN
           EngineOK(e) /\ e.pending_op = None /\ e.current_deadline = None
BY EngineNow, ClearedIs, EndedIs, Zenon

\* So does a deadline that expires.
LEMMA DeadlineStep ==
    ASSUME IInv, deadline_expired
    PROVE  IInv' /\ SameCard
<1> DEFINE e == Recovery(Taken([engine EXCEPT !.outgoing = 0]))
<1>1. EngineOK(e) /\ e.pending_op = None /\ e.current_deadline = None
  BY StoppedIs DEF deadline_expired
<1>2. /\ ~Idle /\ EndPending(e) /\ reader' \in Readers
      /\ started' \in 0 .. MaxOps /\ events' \in 0 .. MaxEvents /\ AnswerIsItsOwn' /\ SameCard
  BY EngineNow, Silent DEF deadline_expired, IInv, TypeOK
<1> HIDE DEF e
<1> QED
  BY <1>1, <1>2, EndsWell

\* The count of events stays within its bound.
LEMMA CountedEvent ==
    ASSUME IInv, events < MaxEvents
    PROVE  events + 1 \in 0 .. MaxEvents
BY Consts DEF IInv, TypeOK

\* Cancelling keeps the invariant.
LEMMA CancelStep ==
    ASSUME IInv, cancel
    PROVE  IInv' /\ SameCard
<1> DEFINE e == Recovery(Taken([engine EXCEPT !.outgoing = 0]))
<1>1. EngineOK(e) /\ e.pending_op = None /\ e.current_deadline = None
  BY StoppedIs DEF cancel
<1>2. /\ ~Idle /\ EndPending(e) /\ reader' \in Readers
      /\ started' \in 0 .. MaxOps /\ AnswerIsItsOwn' /\ SameCard
  BY EngineNow, Silent DEF cancel, IInv, TypeOK
<1>3. events' \in 0 .. MaxEvents
  BY CountedEvent DEF cancel
<1> HIDE DEF e
<1> QED
  BY <1>1, <1>2, <1>3, EndsWell

\* A failed transfer keeps the invariant.
LEMMA FailedStep ==
    ASSUME IInv, NEW error \in Failures, transfer_fails(error)
    PROVE  IInv' /\ SameCard
<1>1. ~Idle /\ EngineOK(engine)
  BY InFlight, EngineNow DEF transfer_fails
<1> DEFINE d == [Taken(engine) EXCEPT !.outgoing = 0]
           f == RemovedUnless(error # "CardRemoved", d)
<1>2. EngineOK(d) /\ d.pending_op = None /\ d.current_deadline = None
  BY <1>1, TakenIs, ClearedIs, ZenonT(60) DEF EngineOK, Engines
<1> HIDE DEF d
<1>3. EngineOK(f) /\ f.pending_op = None /\ f.current_deadline = None
  BY <1>2, RemovedUnlessIs, Zenon
<1>4. Failed(error) = IF error \in {"Timeout", "Io"} THEN Recovery(f) ELSE f
  BY DEF Failed, d, f
<1> HIDE DEF f
<1>5. /\ EngineOK(Failed(error)) /\ Failed(error).pending_op = None
      /\ Failed(error).current_deadline = None
  BY <1>3, <1>4, RecoveryIs
<1>6. /\ EndPending(Failed(error)) /\ reader' \in Readers
      /\ started' \in 0 .. MaxOps /\ events' \in 0 .. MaxEvents /\ AnswerIsItsOwn' /\ SameCard
  BY EngineNow, Silent DEF transfer_fails, IInv, TypeOK
<1> QED
  BY <1>1, <1>5, <1>6, EndsWell

\* A hardware error reported on the interrupt pipe keeps the invariant.
LEMMA HardwareStep ==
    ASSUME IInv, interrupt_hardware_error
    PROVE  IInv' /\ SameCard
<1> DEFINE e == Recovery(Removed(engine))
<1>1. /\ EngineOK(e) /\ e.pending_op = engine.pending_op
      /\ e.current_deadline = engine.current_deadline
  BY EngineNow, RemovedIs, RecoveryIs, Zenon
<1>2. CutOff(e) /\ reader' \in Readers /\ started' \in 0 .. MaxOps /\ UNCHANGED answer
  BY EngineNow DEF interrupt_hardware_error, IInv, TypeOK
<1>3. events' \in 0 .. MaxEvents
  BY CountedEvent DEF interrupt_hardware_error
<1> HIDE DEF e
<1> QED
  BY <1>1, <1>2, <1>3, CutOffWell

\* Losing the connection keeps the invariant.
LEMMA ConnectionStep ==
    ASSUME IInv, connection_lost
    PROVE  IInv' /\ SameCard
<1>1. /\ EngineOK(Lost(engine)) /\ Lost(engine).pending_op = engine.pending_op
      /\ Lost(engine).current_deadline = engine.current_deadline
  BY EngineNow, LostIs
<1>2. CutOff(Lost(engine)) /\ reader' \in Readers /\ started' \in 0 .. MaxOps /\ UNCHANGED answer
  BY EngineNow DEF connection_lost, IInv, TypeOK
<1>3. events' \in 0 .. MaxEvents
  BY CountedEvent DEF connection_lost
<1> QED
  BY <1>1, <1>2, <1>3, CutOffWell

\* RDR_to_PC_NotifySlotChange while an operation goes on: no powered card was
\* there, so the operation did not begin with one.
LEMMA SlotChangeStep ==
    ASSUME IInv, interrupt_slot_change
    PROVE  IInv' /\ SameCard
<1> DEFINE e == [engine EXCEPT !.card_present = reader.present, !.card_gen = @ + 1]
           d == [e EXCEPT !.activated = FALSE]
<1>1. EngineOK(engine) /\ reader \in Readers
  BY EngineNow
<1>2. engine.card_gen + 1 \in Nat /\ reader.present \in BOOLEAN
  BY <1>1 DEF EngineOK, Engines, Readers
<1>3. e \in Engines /\ d \in Engines
  BY <1>1, <1>2, Zenon DEF EngineOK, Engines
<1>4. /\ e.pending_op = engine.pending_op /\ e.current_deadline = engine.current_deadline
      /\ e.chain = engine.chain /\ e.outgoing = engine.outgoing
      /\ e.wtx_count = engine.wtx_count /\ e.abort_drain_count = engine.abort_drain_count
      /\ e.activated = engine.activated /\ e.card_present = reader.present
      /\ e.expected_seq = engine.expected_seq
      /\ e.expected_response_type = engine.expected_response_type
  BY <1>1 DEF EngineOK, Engines
<1>5. /\ d.pending_op = engine.pending_op /\ d.current_deadline = engine.current_deadline
      /\ d.chain = engine.chain /\ d.outgoing = engine.outgoing
      /\ d.wtx_count = engine.wtx_count /\ d.abort_drain_count = engine.abort_drain_count
      /\ d.activated = FALSE
  BY <1>1 DEF EngineOK, Engines
<1>6. reader' \in Readers /\ reader'.fifo = reader.fifo /\ reader'.job = reader.job
  BY <1>1, Zenon DEF interrupt_slot_change, Readers
<1>7. /\ started' \in 0 .. MaxOps /\ events' \in 0 .. MaxEvents /\ UNCHANGED answer
  BY DEF interrupt_slot_change, IInv, TypeOK
<1>8. CASE ends_operation(reader.present, reader.notice)
  <2>1. CutOff(d)
    BY <1>8 DEF interrupt_slot_change
  <2>2. EngineOK(d)
    BY <1>1, <1>3, <1>5 DEF EngineOK
  <2> HIDE DEF e, d
  <2> QED
    BY <1>5, <1>6, <1>7, <2>1, <2>2, CutOffWell
<1>9. CASE ~ends_operation(reader.present, reader.notice)
  <2>1. engine' = e /\ GoOn /\ UNCHANGED transfer
    BY <1>9 DEF interrupt_slot_change
  <2>2. reader.present /\ reader.present # engine.card_present
    BY <1>9 DEF interrupt_slot_change, ends_operation
  <2>3. ~engine.activated
    BY <1>1, <2>2, Zenon DEF EngineOK, Engines
  <2> HIDE DEF e, d
  <2>4. TypeOK'
    BY <1>1, <1>3, <1>4, <1>6, <1>7, <2>1 DEF IInv, TypeOK, GoOn, Readers
  <2>5. Idle' = Idle
    BY <1>4, <2>1 DEF Idle
  <2>6. WaitInv'
    BY <1>4, <2>1, <2>5 DEF IInv, WaitInv, GoOn
  <2>7. CardInv'
    BY <1>4, <2>1, <2>2, <2>3, <2>5 DEF IInv, CardInv, GoOn
  <2>8. ExpectsData' = ExpectsData
    BY <1>4, <2>1 DEF ExpectsData
  <2>9. DataInv(engine', transfer', reader') <=> DataInv(engine, transfer, reader)
    BY <1>4, <1>6, <2>1, SMTT(30) DEF DataInv, Refused, Served
  <2> QED
    BY <1>7, <2>4, <2>5, <2>6, <2>7, <2>8, <2>9, Silent DEF IInv
<1> QED
  BY <1>8, <1>9

-----------------------------------------------------------------------------
(* An operation starts. *)

\* One block more adds one timeout to the longest wait.
LEMMA OneBlockMore ==
    ASSUME NEW t \in Nat, NEW k \in Nat \ {0}
    PROVE  t * k \in Nat /\ t <= t * k /\ t * (k + 1) = t * k + t
<1>1. \A a, b \in Nat : a * b \in Nat
  OBVIOUS
<1>2. PICK j \in Nat : k = j + 1
  <2>1. k - 1 \in Nat /\ k = (k - 1) + 1
    OBVIOUS
  <2> QED
    BY <2>1
<1>3. t * (j + 1) = t * j + t
  OBVIOUS
<1>4. t * j \in Nat
  BY <1>1
<1>5. t * (k + 1) = t * k + t
  OBVIOUS
<1> QED
  BY <1>1, <1>2, <1>3, <1>4, <1>5

\* Starting an operation keeps the invariant.
LEMMA StartStep ==
    ASSUME IInv, NEW kind \in Kinds,
           NEW blocks \in 1 .. (IF kind = "TransferBlock" THEN MaxBlocks + 1 ELSE 1),
           start(kind, blocks)
    PROVE  IInv' /\ SameCard
<1> DEFINE id == started + 1
           c == [engine EXCEPT !.wtx_count = 0, !.chain = <<>>]
           a == allocate_seq(c)
           op == [id |-> id, kind |-> kind]
<1>1. EngineOK(engine) /\ reader \in Readers
  BY EngineNow
<1>2. id \in 1 .. MaxOps /\ blocks \in Nat \ {0} /\ blocks <= MaxBlocks
  <2>1. started < MaxOps /\ ~too_long(kind, blocks)
    BY DEF start, refused
  <2>2. id \in 1 .. MaxOps
    BY <2>1, Consts DEF IInv, TypeOK
  <2>3. blocks \in Nat \ {0}
    BY Consts
  <2> QED
    BY <2>1, <2>2, <2>3, Consts DEF too_long
<1>3. op \in Operations /\ op # None
  BY <1>2, NoneAssumption DEF Operations
<1>4. /\ c \in Engines /\ c.chain = <<>> /\ c.wtx_count = 0 /\ c.outgoing = engine.outgoing
      /\ c.abort_drain_count = engine.abort_drain_count /\ c.activated = engine.activated
      /\ c.card_present = engine.card_present /\ c.card_gen = engine.card_gen
  <2>1. <<>> \in Seq(Blocks) /\ 0 \in Nat
    OBVIOUS
  <2> QED
    BY <1>1, <2>1, Zenon DEF EngineOK, Engines
<1>5. EngineOK(c)
  BY <1>1, <1>4, Consts DEF EngineOK
<1> HIDE DEF c
<1>6. /\ EngineOK(a) /\ a.chain = <<>> /\ a.activated = engine.activated /\ a.wtx_count = 0
      /\ a.card_gen = engine.card_gen /\ a.expected_seq \in Seqs
  BY <1>4, <1>5, AllocateIs, EngineTypes DEF EngineOK
<1> DEFINE drained == IF kind = "Abort" THEN 0 ELSE a.abort_drain_count
           n == [a EXCEPT !.pending_op = op, !.expected_response_type = expected_response(kind),
                          !.current_deadline = DefaultTimeout, !.outgoing = blocks - 1,
                          !.abort_drain_count = drained]
<1>7. engine' = n
  BY DEF start, a, c, op, id, n, drained
<1> HIDE DEF a, op
<1>8. /\ drained \in Nat /\ drained <= MaxDrain /\ blocks - 1 \in Nat /\ blocks - 1 < MaxBlocks
      /\ expected_response(kind) \in Responses
  BY <1>2, <1>6, Consts, KindNames, EngineTypes DEF EngineOK
<1> HIDE DEF drained
<1>9. n \in Engines
  BY <1>3, <1>6, <1>8, Consts, ZenonT(60) DEF EngineOK, Engines
<1>10. /\ n.pending_op = op /\ n.current_deadline = DefaultTimeout /\ n.outgoing = blocks - 1
       /\ n.abort_drain_count = drained /\ n.chain = <<>> /\ n.wtx_count = 0
       /\ n.activated = a.activated /\ n.card_present = a.card_present
       /\ n.card_gen = a.card_gen /\ n.expected_seq = a.expected_seq
       /\ n.expected_response_type = expected_response(kind)
  BY <1>6 DEF EngineOK, Engines
<1> HIDE DEF n
<1>11. transfer' = [dir |-> IF kind = "Abort" THEN "control" ELSE "out",
                    seq |-> a.expected_seq, level |-> IF blocks > 1 THEN "begin" ELSE "none"]
  BY DEF start, a, c
<1>12. transfer' \in Transfers /\ transfer'.seq = n.expected_seq /\ transfer' # None
  <2>1. transfer' \in Transfers
    BY <1>6, <1>11 DEF Transfers, Levels
  <2> QED
    BY <1>10, <1>11, <2>1, NoneAssumption
<1>13. /\ now' = 0 /\ begun' = [gen |-> engine.card_gen, activated |-> engine.activated]
       /\ answer' = None /\ reader' = reader /\ events' = events
       /\ completions' = completions /\ started' = id /\ Idle
  BY DEF start, refused
<1>14. TypeOK'
  <2>1. EngineOK(n)
    BY <1>6, <1>8, <1>9, <1>10, Consts DEF EngineOK
  <2>2. begun' \in [gen : Nat, activated : BOOLEAN]
    BY <1>1, <1>13, EngineTypes DEF EngineOK
  <2> QED
    BY <1>2, <1>7, <1>12, <1>13, <2>1, <2>2 DEF IInv, TypeOK, EngineOK
<1>15. ~Idle'
  BY <1>3, <1>7, <1>10 DEF Idle
<1>16. WaitInv'
  <2>1. MaxBlocks - (blocks - 1) \in Nat \ {0}
    BY <1>2, Consts
  <2>2. DefaultTimeout <= DefaultTimeout * (MaxBlocks - (blocks - 1))
        /\ DefaultTimeout * (MaxBlocks - (blocks - 1)) \in Nat
    BY <2>1, OneBlockMore, Consts
  <2>3. DefaultTimeout <= WallLimit + DefaultTimeout * (MaxBlocks - (blocks - 1))
    BY <2>2, Consts
  <2>4. 0 <= DefaultTimeout /\ DefaultTimeout # None /\ 0 <= MaxTimeExtensions
    BY Consts, NoneAssumption
  <2> QED
    BY <1>7, <1>10, <1>12, <1>13, <1>15, <2>3, <2>4 DEF WaitInv, op
<1>17. CardInv'
  BY <1>6, <1>7, <1>10, <1>13 DEF CardInv, EngineOK
<1>18. ExpectsData' => DataInv(engine', transfer', reader')
  <2>1. ExpectsData' => kind # "Abort"
    BY <1>7, <1>10 DEF ExpectsData, op, expected_response
  <2>2. OwnChain(<<>>, op) /\ Len(<<>>) = 0
    BY DEF OwnChain
  <2>3. ExpectsData' => transfer'.dir = "out" /\ transfer'.level # "resume"
    BY <1>11, <2>1
  <2> QED
    BY <1>7, <1>10, <2>2, <2>3 DEF DataInv
<1>19. AnswerIsItsOwn'
  BY <1>13 DEF AnswerIsItsOwn
<1>20. SameCard
  BY <1>13 DEF SameCard, IInv, WaitInv, NotBegun
<1> QED
  BY <1>14, <1>16, <1>17, <1>18, <1>19, <1>20 DEF IInv

-----------------------------------------------------------------------------
(* The reader takes a message. *)

\* A set of numbers that is not empty has a least one.
LEMMA Least ==
    ASSUME NEW T, T \subseteq Nat, T # {}
    PROVE  \E x \in T : \A y \in T : x <= y
<1> DEFINE R == OpToRel(<, Nat)
<1>1. IsWellFoundedOn(R, Nat)
  BY NatLessThanWellFounded, Zenon
<1>2. \A x, y \in Nat : x < y => <<x, y>> \in R
  BY DEF OpToRel
<1> HIDE DEF R
<1>3. PICK x \in T : \A y \in T : ~ (<<y, x>> \in R)
  BY <1>1, WFMin, Zenon
<1>4. \A y \in T : x <= y
  <2> TAKE y \in T
  <2>1. x \in Nat /\ y \in Nat
    OBVIOUS
  <2>2. ~ (y < x)
    BY <1>2, <1>3, <2>1, Zenon
  <2> QED
    BY <2>1, <2>2
<1> QED
  BY <1>4

\* No unread answer carries the number that is used again.
LEMMA UnreadIs ==
    ASSUME IInv, NEW s
    PROVE  /\ Unread(s) \in Seq(Frames)
           /\ \A i \in 1 .. Len(Unread(s)) : Unread(s)[i].seq # s
<1> DEFINE fifo == reader.fifo
           Gone == {n \in 0 .. Len(fifo) : \A i \in n + 1 .. Len(fifo) : fifo[i].seq # s}
           n == CHOOSE n \in Gone : \A m \in Gone : n <= m
<1>1. fifo \in Seq(Frames) /\ Len(fifo) \in Nat
  BY DEF IInv, TypeOK
<1>2. Gone \subseteq Nat /\ Len(fifo) \in Gone
  BY <1>1
<1>3. \E x \in Gone : \A y \in Gone : x <= y
  <2> HIDE DEF Gone
  <2> QED
    BY <1>2, Least, Zenon
<1>4. n \in Gone
  <2> HIDE DEF Gone
  <2> QED
    BY <1>3
<1>5. Unread(s) = SubSeq(fifo, n + 1, Len(fifo))
  BY DEF Unread
<1> HIDE DEF n
<1>6. n \in 0 .. Len(fifo) /\ \A i \in n + 1 .. Len(fifo) : fifo[i].seq # s
  BY <1>4
<1> HIDE DEF fifo, Gone
<1>7. n + 1 \in 1 .. Len(fifo) + 1 /\ Len(fifo) \in n .. Len(fifo)
  BY <1>1, <1>6
<1>8. /\ Unread(s) \in Seq(Frames) /\ Len(Unread(s)) = Len(fifo) - n
      /\ \A i \in 1 .. Len(fifo) - n : Unread(s)[i] = fifo[n + i]
  <2>1. \A i \in n + 1 .. Len(fifo) : fifo[i] \in Frames
    BY <1>1, <1>6
  <2> QED
    BY <1>1, <1>5, <1>6, <1>7, <2>1
<1> QED
  <2> SUFFICES ASSUME NEW i \in 1 .. Len(Unread(s)) PROVE Unread(s)[i].seq # s
    BY <1>8
  <2>1. n + i \in n + 1 .. Len(fifo) /\ Unread(s)[i] = fifo[n + i]
    BY <1>1, <1>6, <1>8
  <2> QED
    BY <1>6, <2>1

\* A frame of the reader carries its job's number and the block's place.
LEMMA FrameIs ==
    ASSUME reader \in Readers, NEW job \in Jobs, NEW kind \in FrameKinds, NEW part \in Nat
    PROVE  /\ Frame(job, kind, part) \in Frames
           /\ Frame(job, kind, part).seq = job.seq /\ Frame(job, kind, part).kind = kind
           /\ Frame(job, kind, part).block.id = job.id
           /\ Frame(job, kind, part).block.part = part
           /\ kind \in {"complete", "end"} => Frame(job, kind, part).block.last = TRUE
           /\ kind \notin {"complete", "end"} => Frame(job, kind, part).block.last = FALSE
<1> DEFINE last == kind \in {"complete", "end"}
           block == [id |-> job.id, part |-> part, last |-> last]
<1>1. last \in BOOLEAN
  OBVIOUS
<1>2. Frame(job, kind, part) =
          [type |-> expected_response(job.kind), seq |-> job.seq, kind |-> kind,
           present |-> reader.present, multiplier |-> 0, block |-> block]
  BY DEF Frame
<1> HIDE DEF last
<1>3. block \in Blocks /\ block.id = job.id /\ block.part = part /\ block.last = last
  BY <1>1 DEF Blocks, Jobs
<1> HIDE DEF block
<1>4. /\ expected_response(job.kind) \in Responses /\ job.seq \in Seqs
      /\ reader.present \in BOOLEAN
  BY KindNames DEF Jobs, Readers
<1>5. Frame(job, kind, part) \in Frames
  BY <1>2, <1>3, <1>4, SMTT(30) DEF Frames
<1>6. /\ kind \in {"complete", "end"} => last = TRUE
      /\ kind \notin {"complete", "end"} => last = FALSE
  BY DEF last
<1> QED
  BY <1>2, <1>3, <1>5, <1>6, SMTT(30)

\* The command as the reader takes it up.
NewJob ==
    [id |-> engine.pending_op.id, kind |-> engine.pending_op.kind, seq |-> transfer.seq,
     part |-> 0, todo |-> IF transfer.level \in {"begin", "continue"} THEN "more" ELSE "answer"]

\* What the engine sends becomes a job of the reader.
LEMMA NewJobIs ==
    ASSUME IInv, ~Idle
    PROVE  NewJob \in Jobs /\ NewJob # None
<1>1. /\ engine.pending_op.id \in Nat /\ engine.pending_op.kind \in Kinds
      /\ transfer.seq \in Seqs
  BY Pending, Consts DEF Transfers
<1>2. NewJob \in Jobs
  BY <1>1 DEF NewJob, Jobs, Todos
<1> QED
  BY <1>2, NoneAssumption

\* Changing what is unread leaves the job.
LEMMA WithFifo ==
    ASSUME NEW r \in Readers, NEW fifo \in Seq(Frames)
    PROVE  /\ [r EXCEPT !.fifo = fifo] \in Readers
           /\ [r EXCEPT !.fifo = fifo].fifo = fifo
           /\ [r EXCEPT !.fifo = fifo].job = r.job
BY Zenon DEF Readers

\* What the reader has once a message of a data operation arrived.
LEMMA ReceivedIs ==
    ASSUME IInv, ~Idle, transfer.dir = "out"
    PROVE  /\ received \in Readers
           /\ ExpectsData => \/ Refused(received, transfer.seq)
                             \/ Served(received, engine.pending_op, transfer.seq, Len(engine.chain))
<1> DEFINE s == transfer.seq
           op == engine.pending_op
           n == Len(engine.chain)
<1>1. /\ Unread(s) \in Seq(Frames)
      /\ \A i \in 1 .. Len(Unread(s)) : Unread(s)[i].seq # s
  BY UnreadIs
<1>2. reader \in Readers /\ s \in Seqs /\ n \in Nat
  BY EngineNow, Pending, EngineTypes DEF Transfers, EngineOK
<1>3. NewJob \in Jobs /\ NewJob # None
  BY NewJobIs
<1>4. ExpectsData => DataInv(engine, transfer, reader)
  BY DEF IInv
<1>5. CASE transfer.level = "resume" /\ reader.job # None
  <2>1. received = [reader EXCEPT !.fifo = Unread(s), !.job.seq = s, !.job.todo = "answer"]
    BY <1>5 DEF received
  <2>2. /\ received \in Readers /\ received.fifo = Unread(s)
        /\ received.job.id = reader.job.id /\ received.job.kind = reader.job.kind
        /\ received.job.seq = s /\ received.job.part = reader.job.part
        /\ received.job.todo = "answer"
    <3> DEFINE u == Unread(s)
               job == [[reader.job EXCEPT !.seq = s] EXCEPT !.todo = "answer"]
    <3>1. u \in Seq(Frames) /\ reader.job \in Jobs
      BY <1>1, <1>2, <1>5 DEF Readers
    <3> HIDE DEF u, s
    <3>2. received = [reader EXCEPT !.fifo = u, !.job.seq = s, !.job.todo = "answer"]
      BY <2>1 DEF u
    <3>3. /\ job \in Jobs /\ job.id = reader.job.id /\ job.kind = reader.job.kind
          /\ job.seq = s /\ job.part = reader.job.part /\ job.todo = "answer"
      BY <1>2, <3>1, Zenon DEF Jobs, Todos
    <3>4. /\ received.fifo = u /\ received.job = job /\ received.present = reader.present
          /\ received.notice = reader.notice
      BY <1>2, <3>2 DEF Readers
    <3> HIDE DEF job
    <3>5. received \in Readers
      BY <1>2, <3>1, <3>2, <3>3, <3>4, Zenon DEF Readers
    <3> QED
      BY <3>3, <3>4, <3>5 DEF u
  <2>3. ExpectsData => reader.job.id = op.id /\ reader.job.kind = op.kind /\ reader.job.part = n
    BY <1>4, <1>5, Zenon DEF DataInv, Resumed
  <2>4. ExpectsData => Served(received, op, s, n)
    BY <1>1, <2>2, <2>3 DEF Served, OwnJob
  <2> QED
    BY <2>2, <2>4
<1>6. CASE transfer.level # "resume" /\ (Free \/ op.kind = "Abort")
  <2>1. received = [reader EXCEPT !.fifo = Unread(s), !.job = NewJob]
    BY <1>6 DEF received, NewJob
  <2>2. received \in Readers /\ received.fifo = Unread(s) /\ received.job = NewJob
    <3> DEFINE u == Unread(s)
    <3>1. u \in Seq(Frames) /\ NewJob \in Jobs \cup {None}
      BY <1>1, <1>3
    <3> HIDE DEF u
    <3>2. received = [reader EXCEPT !.fifo = u, !.job = NewJob]
      BY <2>1 DEF u
    <3>3. received \in Readers /\ received.fifo = u /\ received.job = NewJob
      BY <1>2, <3>1, <3>2, Zenon DEF Readers
    <3> QED
      BY <3>3 DEF u
  <2>3. ExpectsData => n = 0
    BY <1>4, <1>6 DEF DataInv
  <2>4. ExpectsData => OwnJob(NewJob, op, s, n)
    BY <2>3 DEF OwnJob, NewJob
  <2>5. ExpectsData => Served(received, op, s, n)
    BY <1>1, <2>2, <2>4, Zenon DEF Served
  <2> QED
    BY <2>2, <2>5
<1>7. CASE /\ ~(transfer.level = "resume" /\ reader.job # None)
           /\ ~(transfer.level # "resume" /\ (Free \/ op.kind = "Abort"))
  <2> DEFINE f == Frame(NewJob, "failed", 0)
             fifo == Append(Unread(s), f)
  <2>1. received = [reader EXCEPT !.fifo = fifo]
    BY <1>7 DEF received, NewJob
  <2>2. f \in Frames /\ f.seq = s /\ f.kind = "failed"
    <3>1. "failed" \in FrameKinds /\ 0 \in Nat /\ NewJob.seq = s
      BY DEF FrameKinds, NewJob
    <3>2. f \in Frames
      BY <1>2, <1>3, <3>1, FrameIs, Zenon
    <3>3. f.seq = s /\ f.kind = "failed"
      BY <3>1 DEF Frame
    <3> QED
      BY <3>2, <3>3
  <2> HIDE DEF f
  <2>3. /\ fifo \in Seq(Frames) /\ Len(fifo) = Len(Unread(s)) + 1
        /\ fifo[Len(Unread(s)) + 1] = f
        /\ \A j \in 1 .. Len(Unread(s)) : fifo[j] = Unread(s)[j]
    BY <1>1, <2>2
  <2> HIDE DEF fifo
  <2>4. received \in Readers /\ received.fifo = fifo
    BY <1>2, <2>1, <2>3, WithFifo
  <2>5. Refused(received, s)
    <3>1. Len(Unread(s)) \in Nat
      BY <1>1
    <3> DEFINE i == Len(Unread(s)) + 1
    <3>2. i \in 1 .. Len(received.fifo) /\ received.fifo[i] = f /\ i - 1 = Len(Unread(s))
      BY <2>3, <2>4, <3>1
    <3>3. \A j \in 1 .. i - 1 : received.fifo[j].seq # s
      BY <1>1, <2>3, <2>4, <3>2
    <3> HIDE DEF i
    <3> QED
      BY <2>2, <3>2, <3>3 DEF Refused
  <2> QED
    BY <2>4, <2>5
<1> QED
  BY <1>5, <1>6, <1>7

\* A step the engine does not see.
LEMMA EngineStays ==
    ASSUME IInv, UNCHANGED <<engine, started, completions, begun, answer>>,
           \/ now' = now
           \/ ~Idle /\ now' \in Nat /\ now' <= engine.current_deadline,
           events' \in 0 .. MaxEvents, reader' \in Readers,
           \/ transfer' = transfer
           \/ ~Idle /\ transfer' \in Transfers /\ transfer'.seq = transfer.seq,
           ~Idle /\ ExpectsData => DataInv(engine, transfer', reader')
    PROVE  IInv' /\ SameCard
<1>1. TypeOK'
  BY Zenon DEF IInv, TypeOK, Readers
<1>2. Idle' = Idle /\ ExpectsData' = ExpectsData
  BY DEF Idle, ExpectsData
<1>3. WaitInv'
  <2>1. CASE Idle
    BY <1>2, <2>1 DEF IInv, WaitInv
  <2>2. CASE ~Idle
    <3>1. transfer' # None /\ transfer'.seq = transfer.seq
      BY <2>2, NoneAssumption DEF IInv, WaitInv
    <3> QED
      BY <1>2, <2>2, <3>1, Zenon DEF IInv, WaitInv
  <2> QED
    BY <2>1, <2>2
<1>4. CardInv'
  BY <1>2, Zenon DEF IInv, CardInv
<1> QED
  BY <1>1, <1>2, <1>3, <1>4, Silent DEF IInv

\* What the invariant says of the data of an operation in progress.
LEMMA Now ==
    ASSUME IInv
    PROVE  /\ events \in 0 .. MaxEvents /\ started \in 0 .. MaxOps
           /\ ~Idle /\ ExpectsData => DataInv(engine, transfer, reader)
BY DEF IInv, TypeOK

\* A command that went out keeps the invariant: the reader takes up its job.
LEMMA BulkOutStep ==
    ASSUME IInv, bulk_out_completes
    PROVE  IInv' /\ SameCard
<1>1. ~Idle /\ transfer.dir = "out"
  BY InFlight DEF bulk_out_completes
<1>2. transfer \in Transfers
  BY <1>1, Pending
<1>3. /\ transfer' \in Transfers /\ transfer'.seq = transfer.seq
      /\ transfer'.dir = "in" /\ transfer'.level = transfer.level
  BY <1>2 DEF bulk_out_completes, Transfers
<1>4. reader' = received
  BY DEF bulk_out_completes
<1>5. ExpectsData => DataInv(engine, transfer', reader')
  <2>1. ExpectsData => OwnChain(engine.chain, engine.pending_op)
    BY <1>1 DEF IInv, DataInv
  <2> QED
    BY <1>1, <1>3, <1>4, <2>1, ReceivedIs DEF DataInv
<1>6. reader' \in Readers
  BY <1>1, <1>4, ReceivedIs
<1>7. UNCHANGED <<engine, started, completions, begun, answer>> /\ now' = now
      /\ events' \in 0 .. MaxEvents
  BY Now DEF bulk_out_completes
<1> QED
  BY <1>1, <1>3, <1>5, <1>6, <1>7, EngineStays

\* A control transfer that completed keeps the invariant.
LEMMA ControlStep ==
    ASSUME IInv, control_completes
    PROVE  IInv' /\ SameCard
<1>1. ~Idle /\ transfer.dir = "control"
  BY InFlight DEF control_completes
<1>2. transfer \in Transfers
  BY <1>1, Pending
<1>3. transfer' \in Transfers /\ transfer'.seq = transfer.seq
  BY <1>2 DEF control_completes, Transfers
<1>4. ~ExpectsData
  BY <1>1 DEF IInv, DataInv
<1>5. reader' \in Readers
  BY EngineNow DEF control_completes, Readers
<1>6. UNCHANGED <<engine, started, completions, begun, answer>> /\ now' = now
      /\ events' \in 0 .. MaxEvents
  BY Now DEF control_completes
<1> QED
  BY <1>1, <1>3, <1>4, <1>5, <1>6, EngineStays

\* The clock keeps the invariant.
LEMMA TickStep ==
    ASSUME IInv, Tick
    PROVE  IInv' /\ SameCard
<1>1. ~Idle /\ engine.current_deadline \in Nat
  BY Pending DEF Tick
<1>2. now' \in Nat /\ now' <= engine.current_deadline
  BY <1>1 DEF Tick, IInv, TypeOK
<1> QED
  BY <1>1, <1>2, EngineStays, EngineNow, Now DEF Tick

\* A card put in or taken out keeps the invariant.
LEMMA CardMovesStep ==
    ASSUME IInv, card_moves
    PROVE  IInv' /\ SameCard
<1>1. reader' \in Readers /\ reader'.fifo = reader.fifo /\ reader'.job = reader.job
  BY EngineNow, Zenon DEF card_moves, Readers
<1>2. events' \in 0 .. MaxEvents
  BY CountedEvent DEF card_moves
<1>3. /\ UNCHANGED <<engine, started, completions, begun, answer>>
      /\ now' = now /\ transfer' = transfer
  BY DEF card_moves
<1>4. DataInv(engine, transfer, reader) => DataInv(engine, transfer', reader')
  BY <1>1, <1>3, ZenonT(60) DEF DataInv, Refused, Served
<1>5. ~Idle /\ ExpectsData => DataInv(engine, transfer', reader')
  BY <1>4, Now
<1> QED
  BY <1>1, <1>2, <1>3, <1>5, EngineStays

\* A call that is refused changes nothing.
LEMMA RefusedStep ==
    ASSUME IInv, UNCHANGED vars
    PROVE  IInv' /\ SameCard
<1>1. /\ UNCHANGED <<engine, started, completions, begun, answer>>
      /\ now' = now /\ transfer' = transfer /\ reader' = reader /\ events' = events
  BY DEF vars
<1>2. reader' \in Readers /\ events' \in 0 .. MaxEvents
  BY <1>1, EngineNow, Now
<1>3. ~Idle /\ ExpectsData => DataInv(engine, transfer', reader')
  BY <1>1, Now
<1> QED
  BY <1>1, <1>2, <1>3, EngineStays

\* mark_deactivated keeps the invariant.
LEMMA DeactivatedStep ==
    ASSUME IInv, mark_deactivated
    PROVE  IInv' /\ SameCard
<1>1. EngineOK(engine) /\ reader \in Readers /\ Idle
  BY EngineNow DEF mark_deactivated
<1>2. engine' = [engine EXCEPT !.activated = FALSE]
  BY DEF mark_deactivated
<1>3. EngineOK(engine') /\ engine'.pending_op = None /\ engine'.current_deadline = None
  <2>1. engine' \in Engines /\ engine'.activated = FALSE
    BY <1>1, <1>2, Zenon DEF EngineOK, Engines
  <2>2. /\ engine'.pending_op = engine.pending_op
        /\ engine'.current_deadline = engine.current_deadline
        /\ engine'.chain = engine.chain /\ engine'.outgoing = engine.outgoing
        /\ engine'.wtx_count = engine.wtx_count
        /\ engine'.abort_drain_count = engine.abort_drain_count
    BY <1>1, <1>2 DEF EngineOK, Engines
  <2> QED
    BY <1>1, <2>1, <2>2 DEF EngineOK, IInv, WaitInv, Idle
<1>4. TypeOK'
  BY <1>3 DEF mark_deactivated, IInv, TypeOK, EngineOK
<1>5. Idle'
  BY <1>3 DEF Idle
<1>6. WaitInv' /\ CardInv'
  BY <1>1, <1>3, <1>5 DEF mark_deactivated, IInv, WaitInv, CardInv, EngineOK
<1> QED
  BY <1>4, <1>5, <1>6, Silent DEF IInv, mark_deactivated

-----------------------------------------------------------------------------
(* The reader answers. *)

\* What appending does to what is unread.
LEMMA Appended ==
    ASSUME NEW q \in Seq(Frames), NEW f \in Frames
    PROVE  /\ Append(q, f) \in Seq(Frames) /\ Len(Append(q, f)) = Len(q) + 1
           /\ Len(q) \in Nat /\ Append(q, f)[Len(q) + 1] = f
           /\ \A i \in 1 .. Len(q) : Append(q, f)[i] = q[i]
OBVIOUS

\* An answer behind the ones unread keeps the data operation's frames in order,
\* if it is the next one of a job in step with the operation.
LEMMA AnsweredData ==
    ASSUME IInv, ~Idle, ExpectsData, reader.job # None, reader.job.todo # "wait",
           NEW f \in Frames, NEW r, r.fifo = Append(reader.fifo, f),
           OwnJob(reader.job, engine.pending_op, transfer.seq, Len(engine.chain)) =>
               /\ OwnFrame(f, engine.pending_op, Len(engine.chain), r.job)
               /\ OwnJob(r.job, engine.pending_op, transfer.seq, Len(engine.chain))
    PROVE  DataInv(engine, transfer, r)
<1> DEFINE op == engine.pending_op
           n == Len(engine.chain)
           s == transfer.seq
           q == reader.fifo
<1>1. DataInv(engine, transfer, reader)
  BY Now, Zenon
<1>2. q \in Seq(Frames)
  BY EngineNow, Zenon DEF Readers
<1>3. /\ Len(r.fifo) = Len(q) + 1 /\ Len(q) \in Nat /\ r.fifo[Len(q) + 1] = f
      /\ \A i \in 1 .. Len(q) : r.fifo[i] = q[i]
  BY <1>2, Appended, SMTT(30)
<1>4. CASE transfer.dir = "out"
  BY <1>1, <1>4, Zenon DEF DataInv, Resumed
<1>5. CASE transfer.dir = "in" /\ Refused(reader, s)
  <2>1. PICK i \in 1 .. Len(q) :
            q[i].seq = s /\ q[i].kind = "failed" /\ \A j \in 1 .. i - 1 : q[j].seq # s
    BY <1>5, Zenon DEF Refused
  <2>2. i \in 1 .. Len(r.fifo) /\ r.fifo[i] = q[i] /\ \A j \in 1 .. i - 1 : r.fifo[j] = q[j]
    BY <1>3, <2>1, SMTT(30)
  <2>3. Refused(r, s)
    BY <2>1, <2>2, Zenon DEF Refused
  <2> QED
    BY <1>1, <1>5, <2>3, Zenon DEF DataInv
<1>6. CASE transfer.dir = "in" /\ Served(reader, op, s, n)
  <2>1. OwnFrame(f, op, n, r.job) /\ OwnJob(r.job, op, s, n)
    BY <1>6, Zenon DEF Served
  <2>2. ASSUME NEW i \in 1 .. Len(q), q[i].seq = s
        PROVE  OwnFrame(q[i], op, n, r.job)
    <3>1. OwnFrame(q[i], op, n, reader.job)
      BY <1>6, <2>2, Zenon DEF Served
    <3> QED
      BY <3>1, Zenon DEF OwnFrame
  <2>3. ASSUME NEW i \in 1 .. Len(r.fifo), r.fifo[i].seq = s
        PROVE  OwnFrame(r.fifo[i], op, n, r.job)
    <3>1. i \in 1 .. Len(q) \/ i = Len(q) + 1
      BY <1>3
    <3> QED
      BY <1>3, <2>1, <2>2, <2>3, <3>1, Zenon
  <2>4. Served(r, op, s, n)
    BY <2>1, <2>3, Zenon DEF Served
  <2> QED
    BY <1>1, <1>6, <2>4, Zenon DEF DataInv
<1> QED
  BY <1>1, <1>4, <1>5, <1>6, Zenon DEF DataInv

\* How an answer moves the reader's job on.
LEMMA AnsweredIs ==
    ASSUME reader \in Readers, reader.job # None, NEW kind, NEW todo \in Todos
    PROVE  LET job == Answered(reader.job, kind, todo) IN
           /\ job \in Jobs /\ job # None /\ job.id = reader.job.id
           /\ job.kind = reader.job.kind /\ job.seq = reader.job.seq /\ job.todo = todo
           /\ job.part = IF kind \in {"begin", "continue"} THEN reader.job.part + 1
                         ELSE reader.job.part
<1> DEFINE part == IF kind \in {"begin", "continue"} THEN reader.job.part + 1
                   ELSE reader.job.part
           job == Answered(reader.job, kind, todo)
<1>1. reader.job \in Jobs /\ todo # "done"
  BY DEF Readers, Todos
<1>2. part \in Nat
  BY <1>1 DEF Jobs
<1>3. job = [reader.job EXCEPT !.todo = todo, !.part = part]
  BY <1>1 DEF Answered
<1> HIDE DEF job, part
<1>4. /\ job \in Jobs /\ job.id = reader.job.id /\ job.kind = reader.job.kind
      /\ job.seq = reader.job.seq /\ job.todo = todo /\ job.part = part
  BY <1>1, <1>2, <1>3, Zenon DEF Jobs
<1>5. job # None
  BY <1>4, NoneAssumption
<1> QED
  BY <1>4, <1>5 DEF job, part

\* An answer of the reader keeps the invariant if it is the next of its job.
LEMMA AnswersStep ==
    ASSUME IInv, reader.job # None, reader.job.todo # "wait", NEW kind, NEW f \in Frames,
           NEW todo \in Todos \cup {"done"}, Answers(kind, f, todo),
           ~Idle /\ ExpectsData /\
               OwnJob(reader.job, engine.pending_op, transfer.seq, Len(engine.chain)) =>
               /\ OwnFrame(f, engine.pending_op, Len(engine.chain), Answered(reader.job, kind, todo))
               /\ OwnJob(Answered(reader.job, kind, todo), engine.pending_op, transfer.seq,
                         Len(engine.chain))
    PROVE  IInv' /\ SameCard
<1>1. reader \in Readers /\ reader.fifo \in Seq(Frames)
  BY EngineNow, Zenon DEF Readers
<1>2. reader' = [reader EXCEPT !.fifo = Append(reader.fifo, f),
                               !.job = Answered(reader.job, kind, todo)]
  BY DEF Answers
<1>3. Answered(reader.job, kind, todo) \in Jobs \cup {None}
  BY <1>1, AnsweredIs, Zenon DEF Answered
<1>4. Append(reader.fifo, f) \in Seq(Frames)
  BY <1>1, Appended, Zenon
<1>5. /\ reader' \in Readers /\ reader'.fifo = Append(reader.fifo, f)
      /\ reader'.job = Answered(reader.job, kind, todo)
  BY <1>1, <1>2, <1>3, <1>4, Zenon DEF Readers
<1>6. ~Idle /\ ExpectsData => DataInv(engine, transfer, reader')
  BY <1>5, AnsweredData, Zenon
<1>7. /\ UNCHANGED <<engine, started, completions, begun, answer>> /\ now' = now
      /\ transfer' = transfer /\ events' \in 0 .. MaxEvents
  BY Now DEF Answers
<1> QED
  BY <1>5, <1>6, <1>7, EngineStays, Zenon

\* The types of the reader's job.
LEMMA ReaderWorks ==
    ASSUME IInv, reader.job # None
    PROVE  /\ reader \in Readers /\ reader.job \in Jobs /\ reader.job.part \in Nat
           /\ reader.job.part + 1 \in Nat
<1>1. reader.job \in Jobs /\ reader \in Readers
  BY EngineNow DEF Readers
<1> QED
  BY <1>1 DEF Jobs

\* The last block of an answer: the job is done.
LEMMA LastBlock ==
    ASSUME IInv, reader.job # None, reader.job.todo = "answer", NEW kind \in {"end", "complete"},
           ExpectsData => expected_response(reader.job.kind) = "DataBlock" \/
                          reader.job.kind # engine.pending_op.kind,
           NEW part \in Nat,
           expected_response(reader.job.kind) = "DataBlock" => part = reader.job.part + 1,
           Answers(kind, Frame(reader.job, kind, part), "done")
    PROVE  IInv' /\ SameCard
<1> DEFINE f == Frame(reader.job, kind, part)
           op == engine.pending_op
           n == Len(engine.chain)
<1>1. /\ f \in Frames /\ f.kind = kind /\ f.block.id = reader.job.id
      /\ f.block.part = part /\ f.block.last = TRUE
  <2>1. kind \in FrameKinds /\ kind \in {"complete", "end"}
    BY DEF FrameKinds
  <2>2. reader \in Readers /\ reader.job \in Jobs
    BY ReaderWorks, Zenon
  <2>3. f \in Frames
    BY <2>1, <2>2, FrameIs, Zenon
  <2>4. /\ f.kind = kind /\ f.block.id = reader.job.id /\ f.block.part = part
        /\ f.block.last = TRUE
    BY <2>1, Zenon DEF Frame
  <2> QED
    BY <2>3, <2>4, Zenon
<1>2. f.block = [id |-> f.block.id, part |-> f.block.part, last |-> f.block.last]
  BY <1>1, Zenon DEF Frames, Blocks
<1> HIDE DEF f
<1>3. ASSUME ~Idle, ExpectsData, OwnJob(reader.job, op, transfer.seq, n)
      PROVE  OwnFrame(f, op, n, None) /\ OwnJob(None, op, transfer.seq, n)
  <2>1. reader.job.id = op.id /\ reader.job.kind = op.kind /\ reader.job.part = n
    BY <1>3 DEF OwnJob
  <2>2. part = n + 1
    BY <1>3, <2>1, Zenon
  <2> QED
    BY <1>1, <1>2, <2>1, <2>2, Zenon DEF OwnFrame, OwnJob
<1>4. Answered(reader.job, kind, "done") = None /\ Answers(kind, f, "done")
  BY DEF Answered, f
<1>5. reader.job.todo # "wait" /\ "done" \in Todos \cup {"done"}
  OBVIOUS
<1> QED
  BY <1>1, <1>3, <1>4, <1>5, AnswersStep, Zenon

\* A block that others follow: the job waits to be asked.
LEMMA FurtherBlock ==
    ASSUME IInv, reader.job # None, reader.job.todo = "answer",
           NEW kind \in {"begin", "continue"},
           Answers(kind, Frame(reader.job, kind, reader.job.part + 1), "wait")
    PROVE  IInv' /\ SameCard
<1> DEFINE f == Frame(reader.job, kind, reader.job.part + 1)
           op == engine.pending_op
           n == Len(engine.chain)
           job == Answered(reader.job, kind, "wait")
<1>1. /\ f \in Frames /\ f.kind = kind /\ f.block.id = reader.job.id
      /\ f.block.part = reader.job.part + 1 /\ f.block.last = FALSE
  <2>1. kind \in FrameKinds /\ kind \notin {"complete", "end"}
    BY DEF FrameKinds
  <2> DEFINE p == reader.job.part + 1
  <2>2. p \in Nat /\ reader \in Readers /\ reader.job \in Jobs
    BY ReaderWorks
  <2> HIDE DEF p
  <2>3. Frame(reader.job, kind, p) \in Frames
    BY <2>1, <2>2, FrameIs, Zenon
  <2>4. /\ f.kind = kind /\ f.block.id = reader.job.id
        /\ f.block.part = reader.job.part + 1
    BY Zenon DEF Frame
  <2>5. f.block.last = FALSE
    <3> DEFINE last == kind \in {"complete", "end"}
    <3>1. last = FALSE
      BY <2>1
    <3>2. f.block = [id |-> reader.job.id, part |-> reader.job.part + 1, last |-> last]
      BY Zenon DEF Frame
    <3> HIDE DEF last, f
    <3> QED
      BY <3>1, <3>2, SMTT(30)
  <2>6. f \in Frames
    BY <2>3 DEF p
  <2> QED
    BY <2>4, <2>5, <2>6, Zenon
<1>2. f.block = [id |-> f.block.id, part |-> f.block.part, last |-> f.block.last]
  BY <1>1, Zenon DEF Frames, Blocks
<1> HIDE DEF f
<1>3. "wait" \in Todos
  BY DEF Todos
<1>4. /\ job # None /\ job.id = reader.job.id /\ job.kind = reader.job.kind
      /\ job.seq = reader.job.seq /\ job.todo = "wait" /\ job.part = reader.job.part + 1
  BY <1>3, ReaderWorks, AnsweredIs, ZenonT(60)
<1> HIDE DEF job
<1>5. ASSUME ~Idle, ExpectsData, OwnJob(reader.job, op, transfer.seq, n)
      PROVE  OwnFrame(f, op, n, job) /\ OwnJob(job, op, transfer.seq, n)
  <2>1. /\ reader.job.id = op.id /\ reader.job.kind = op.kind /\ reader.job.part = n
        /\ reader.job.seq = transfer.seq
    BY <1>5, Zenon DEF OwnJob
  <2> QED
    BY <1>1, <1>2, <1>4, <2>1, Zenon DEF OwnFrame, OwnJob
<1>6. Answers(kind, f, "wait") /\ reader.job.todo # "wait"
  BY Zenon DEF f
<1> QED
  BY <1>1, <1>3, <1>5, <1>6, AnswersStep, Zenon DEF job

\* The reader's data answers keep the invariant.
LEMMA ReaderAnswersStep ==
    ASSUME IInv, reader_answers
    PROVE  IInv' /\ SameCard
<1> USE DEF reader_answers
<1>1. reader.job # None /\ reader.job.todo = "answer"
  BY Zenon
<1>2. reader.job.part \in Nat /\ 1 \in Nat /\ reader.job.part + 1 \in Nat
  BY <1>1, ReaderWorks, Zenon
<1> DEFINE data == expected_response(reader.job.kind) = "DataBlock"
<1>3. CASE ~data /\ Answers("complete", Frame(reader.job, "complete", 1), "done")
  <2>1. ExpectsData => reader.job.kind # engine.pending_op.kind
    BY <1>3, Zenon DEF ExpectsData
  <2> QED
    BY <1>1, <1>2, <1>3, <2>1, LastBlock, Zenon
<1>4. CASE data /\ reader.job.part = 0
           /\ Answers("complete", Frame(reader.job, "complete", 1), "done")
  <2>1. 1 = reader.job.part + 1
    BY <1>4, SMTT(30)
  <2> QED
    BY <1>1, <1>2, <1>4, <2>1, LastBlock, Zenon
<1>5. CASE data /\ reader.job.part = 0
           /\ Answers("begin", Frame(reader.job, "begin", 1), "wait")
  <2>1. reader.job.part + 1 = 1
    BY <1>5, SMTT(30)
  <2> QED
    BY <1>1, <1>5, <2>1, FurtherBlock, Zenon
<1>6. CASE data /\ Answers("end", Frame(reader.job, "end", reader.job.part + 1), "done")
  BY <1>1, <1>2, <1>6, LastBlock, Zenon
<1>7. CASE data /\ Answers("continue", Frame(reader.job, "continue", reader.job.part + 1), "wait")
  BY <1>1, <1>7, FurtherBlock, Zenon
<1> QED
  BY <1>3, <1>4, <1>5, <1>6, <1>7, Zenon

\* So does a failure it answers.
LEMMA ReaderFailsStep ==
    ASSUME IInv, reader_fails
    PROVE  IInv' /\ SameCard
<1> DEFINE f == Frame(reader.job, "failed", 0)
<1>1. reader.job # None /\ reader.job.todo # "wait" /\ Answers("failed", f, "done")
  BY Zenon DEF reader_fails
<1>2. f \in Frames /\ f.kind = "failed"
  <2>1. "failed" \in FrameKinds /\ 0 \in Nat
    BY DEF FrameKinds
  <2> QED
    BY <1>1, <2>1, ReaderWorks, FrameIs, ZenonT(60)
<1>3. Answered(reader.job, "failed", "done") = None
  BY DEF Answered
<1> HIDE DEF f
<1>4. \A op, n, s : OwnFrame(f, op, n, None) /\ OwnJob(None, op, s, n)
  BY <1>2 DEF OwnFrame, OwnJob
<1>5. "done" \in Todos \cup {"done"}
  OBVIOUS
<1> QED
  BY <1>1, <1>2, <1>3, <1>4, <1>5, AnswersStep, Zenon

\* So does a time extension it asks for.
LEMMA AsksForTimeStep ==
    ASSUME IInv, reader_asks_for_time
    PROVE  IInv' /\ SameCard
<1> DEFINE op == engine.pending_op
           n == Len(engine.chain)
           job == Answered(reader.job, "extension", "answer")
<1>1. reader.job # None /\ reader.job.todo = "answer"
  BY DEF reader_asks_for_time
<1>2. PICK m \in Multipliers :
          Answers("extension", [Frame(reader.job, "extension", 0) EXCEPT !.multiplier = m],
                  "answer")
  BY DEF reader_asks_for_time
<1> DEFINE f == [Frame(reader.job, "extension", 0) EXCEPT !.multiplier = m]
<1>3. f \in Frames /\ f.kind = "extension"
  <2>1. "extension" \in FrameKinds /\ 0 \in Nat /\ m \in Nat
    BY Consts DEF FrameKinds
  <2>2. /\ Frame(reader.job, "extension", 0) \in Frames
        /\ Frame(reader.job, "extension", 0).kind = "extension"
    BY <1>1, <2>1, ReaderWorks, FrameIs, ZenonT(60)
  <2> QED
    BY <2>1, <2>2 DEF Frames
<1>4. Answers("extension", f, "answer")
  BY <1>2
<1> HIDE DEF f
<1>5. "answer" \in Todos
  BY DEF Todos
<1>6. /\ job # None /\ job.id = reader.job.id /\ job.kind = reader.job.kind
      /\ job.seq = reader.job.seq /\ job.todo = "answer" /\ job.part = reader.job.part
  BY <1>1, <1>5, ReaderWorks, AnsweredIs, Zenon
<1> HIDE DEF job
<1>7. ASSUME OwnJob(reader.job, op, transfer.seq, n)
      PROVE  OwnFrame(f, op, n, job) /\ OwnJob(job, op, transfer.seq, n)
  BY <1>1, <1>3, <1>6, <1>7, Zenon DEF OwnFrame, OwnJob
<1> QED
  BY <1>1, <1>3, <1>4, <1>5, <1>7, AnswersStep, Zenon DEF job

\* So does a request for the next block of a chained command.
LEMMA AsksForMoreStep ==
    ASSUME IInv, reader_asks_for_more
    PROVE  IInv' /\ SameCard
<1> DEFINE op == engine.pending_op
           n == Len(engine.chain)
           job == Answered(reader.job, "more", "wait")
           f == Frame(reader.job, "more", 0)
<1>1. reader.job # None /\ reader.job.todo = "more" /\ Answers("more", f, "wait")
  BY DEF reader_asks_for_more
<1>2. f \in Frames /\ f.kind = "more"
  <2>1. "more" \in FrameKinds /\ 0 \in Nat
    BY DEF FrameKinds
  <2> QED
    BY <1>1, <2>1, ReaderWorks, FrameIs, ZenonT(60)
<1> HIDE DEF f
<1>3. "wait" \in Todos
  BY DEF Todos
<1>4. /\ job # None /\ job.id = reader.job.id /\ job.kind = reader.job.kind
      /\ job.seq = reader.job.seq /\ job.todo = "wait"
  BY <1>1, <1>3, ReaderWorks, AnsweredIs, Zenon
<1> HIDE DEF job
<1>5. ASSUME OwnJob(reader.job, op, transfer.seq, n)
      PROVE  OwnFrame(f, op, n, job) /\ OwnJob(job, op, transfer.seq, n)
  BY <1>1, <1>2, <1>4, <1>5, Zenon DEF OwnFrame, OwnJob
<1>6. reader.job.todo # "wait"
  BY <1>1
<1> QED
  BY <1>1, <1>2, <1>3, <1>5, <1>6, AnswersStep, Zenon DEF job

-----------------------------------------------------------------------------
(* The engine reads an answer. *)

\* A step that leaves the operation in progress.
LEMMA GoesOn ==
    ASSUME IInv, ~Idle, NEW e, engine' = e, EngineOK(e), e.pending_op = engine.pending_op,
           e.expected_response_type = engine.expected_response_type,
           e.activated = engine.activated, e.card_gen = engine.card_gen,
           e.current_deadline \in Nat, now <= e.current_deadline,
           e.wtx_count <= MaxTimeExtensions,
           e.current_deadline <= WallLimit + DefaultTimeout * (MaxBlocks - e.outgoing),
           GoOn, UNCHANGED <<answer, started, events>>, reader' \in Readers,
           transfer' \in Transfers, transfer'.seq = e.expected_seq,
           ExpectsData => DataInv(e, transfer', reader')
    PROVE  IInv' /\ SameCard
<1>1. TypeOK'
  BY Zenon DEF IInv, TypeOK, EngineOK, Readers, GoOn
<1>2. ~Idle' /\ ExpectsData' = ExpectsData
  BY Zenon DEF Idle, ExpectsData
<1>3. WaitInv'
  <2>1. transfer' # None /\ e.current_deadline # None
    BY NoneAssumption, Zenon
  <2>2. engine.expected_response_type = expected_response(engine.pending_op.kind)
    BY Zenon DEF IInv, WaitInv
  <2> QED
    BY <1>2, <2>1, <2>2, Zenon DEF WaitInv, GoOn
<1>4. CardInv'
  BY <1>2, Zenon DEF IInv, CardInv, GoOn, EngineOK
<1> QED
  BY <1>1, <1>2, <1>3, <1>4, Silent, Zenon DEF IInv

\* What a read changes whatever was read.
Reads ==
    /\ IInv /\ ~Idle /\ transfer.dir = "in" /\ reader.fifo # <<>>
    /\ reader' = [reader EXCEPT !.fifo = Tail(@)]
    /\ UNCHANGED <<started, events>>

\* What reading one frame leaves unread.
LEMMA ReadLeaves ==
    ASSUME Reads
    PROVE  /\ reader' \in Readers /\ reader'.job = reader.job
           /\ reader'.fifo = Tail(reader.fifo)
           /\ Head(reader.fifo) \in Frames /\ Head(reader.fifo) = reader.fifo[1]
           /\ started' \in 0 .. MaxOps /\ events' \in 0 .. MaxEvents
           /\ Len(reader.fifo) \in Nat /\ Len(reader.fifo) > 0
           /\ Len(Tail(reader.fifo)) = Len(reader.fifo) - 1
           /\ \A i \in 1 .. Len(Tail(reader.fifo)) : Tail(reader.fifo)[i] = reader.fifo[i + 1]
<1>1. reader \in Readers /\ reader.fifo \in Seq(Frames) /\ reader.fifo # <<>>
  BY EngineNow DEF Reads, Readers
<1>2. /\ Tail(reader.fifo) \in Seq(Frames) /\ Head(reader.fifo) \in Frames
      /\ Head(reader.fifo) = reader.fifo[1] /\ Len(reader.fifo) \in Nat /\ Len(reader.fifo) > 0
      /\ Len(Tail(reader.fifo)) = Len(reader.fifo) - 1
      /\ \A i \in 1 .. Len(Tail(reader.fifo)) : Tail(reader.fifo)[i] = reader.fifo[i + 1]
  BY <1>1
<1>3. /\ reader' \in Readers /\ reader'.job = reader.job
      /\ reader'.fifo = Tail(reader.fifo)
  BY <1>1, <1>2, Zenon DEF Reads, Readers
<1>4. started' \in 0 .. MaxOps /\ events' \in 0 .. MaxEvents
  BY Now DEF Reads
<1> QED
  BY <1>2, <1>3, <1>4

\* An operation that a read ends with an error.
LEMMA ReadEnds ==
    ASSUME Reads, NEW e, EngineOK(e), e.pending_op = None, e.current_deadline = None,
           EndPending(e), UNCHANGED answer
    PROVE  IInv' /\ SameCard
<1>1. IInv /\ ~Idle
  BY DEF Reads
<1>2. AnswerIsItsOwn' /\ SameCard
  BY <1>1, Silent
<1> QED
  BY <1>1, <1>2, ReadLeaves, EndsWell

\* An answer under the number the data operation waits for is its own, unless
\* it says that the reader did not take the command.
LEMMA OwnHead ==
    ASSUME Reads, ExpectsData, Head(reader.fifo).seq = engine.expected_seq,
           Head(reader.fifo).kind # "failed"
    PROVE  /\ Served(reader, engine.pending_op, transfer.seq, Len(engine.chain))
           /\ OwnFrame(Head(reader.fifo), engine.pending_op, Len(engine.chain), reader.job)
           /\ OwnChain(engine.chain, engine.pending_op)
           /\ Head(reader.fifo).seq = transfer.seq
<1>1. IInv /\ ~Idle /\ transfer.dir = "in"
  BY DEF Reads
<1>2. DataInv(engine, transfer, reader)
  BY <1>1, Now
<1>3. transfer.seq = engine.expected_seq
  BY <1>1 DEF IInv, WaitInv
<1>4. Head(reader.fifo) = reader.fifo[1] /\ 1 \in 1 .. Len(reader.fifo)
  BY ReadLeaves
<1>5. ~Refused(reader, transfer.seq)
  <2> SUFFICES ASSUME NEW i \in 1 .. Len(reader.fifo), reader.fifo[i].kind = "failed",
                      \A j \in 1 .. i - 1 : reader.fifo[j].seq # transfer.seq
               PROVE  FALSE
    BY DEF Refused
  <2>1. i # 1
    BY <1>4
  <2>2. 1 \in 1 .. i - 1
    BY <2>1
  <2> QED
    BY <1>3, <1>4, <2>2
<1> QED
  BY <1>1, <1>2, <1>3, <1>4, <1>5, Zenon DEF DataInv, Served

\* Reading a frame leaves the job that is being served.
LEMMA ServedOn ==
    ASSUME Reads, NEW op, NEW s, NEW n, Served(reader, op, s, n)
    PROVE  Served(reader', op, s, n)
<1>1. OwnJob(reader'.job, op, s, n)
  BY ReadLeaves DEF Served
<1>2. ASSUME NEW i \in 1 .. Len(reader'.fifo), reader'.fifo[i].seq = s
      PROVE  OwnFrame(reader'.fifo[i], op, n, reader'.job)
  <2>1. i \in 1 .. Len(Tail(reader.fifo)) /\ reader'.fifo[i] = Tail(reader.fifo)[i]
    BY ReadLeaves, Zenon
  <2>2. reader'.fifo[i] = reader.fifo[i + 1]
    BY <2>1, ReadLeaves
  <2>3. i + 1 \in 1 .. Len(reader.fifo)
    BY <2>1, ReadLeaves
  <2> QED
    BY <1>2, <2>2, <2>3, ReadLeaves, Zenon DEF Served
<1> QED
  BY <1>1, <1>2, Zenon DEF Served

\* A time extension moves the deadline within the limit.
LEMMA TimeExtensionStep ==
    ASSUME Reads, decodes(Head(reader.fifo)), Head(reader.fifo).kind = "extension",
           TimeExtension(Head(reader.fifo))
    PROVE  IInv' /\ SameCard
<1> DEFINE f == Head(reader.fifo)
           until == now + f.multiplier
           count == engine.wtx_count + 1
           c == [engine EXCEPT !.wtx_count = count]
<1>1. IInv /\ ~Idle /\ EngineOK(engine) /\ f \in Frames /\ now \in Nat
  BY EngineNow, ReadLeaves DEF Reads, IInv, TypeOK
<1>2. until \in Nat /\ count \in Nat /\ now <= until
  BY <1>1 DEF EngineOK, Engines, Frames
<1>3. CASE count > MaxTimeExtensions \/ until > WallLimit
  <2>1. EndPending(Recovery(Taken(c))) /\ UNCHANGED answer
    BY <1>3 DEF TimeExtension
  <2>2. c \in Engines /\ c.wtx_count = count /\ c.chain = engine.chain
        /\ c.outgoing = engine.outgoing /\ c.abort_drain_count = engine.abort_drain_count
        /\ c.activated = engine.activated /\ c.card_present = engine.card_present
    BY <1>1, <1>2 DEF EngineOK, Engines
  <2> HIDE DEF c
  <2>3. EngineOK(c)
    <3>1. engine.wtx_count <= MaxTimeExtensions
      BY <1>1 DEF IInv, WaitInv
    <3>2. count <= MaxTimeExtensions + 1
      BY <1>1, <3>1, Consts, EngineTypes DEF EngineOK
    <3> HIDE DEF count
    <3> QED
      BY <1>1, <2>2, <3>2 DEF EngineOK
  <2> QED
    BY <2>1, <2>3, EndedIs, ReadEnds
<1>4. CASE ~(count > MaxTimeExtensions \/ until > WallLimit)
  <2> DEFINE e == [engine EXCEPT !.wtx_count = count, !.current_deadline = until]
  <2>1. engine' = e /\ GoOn /\ UNCHANGED <<transfer, answer>>
    BY <1>4 DEF TimeExtension
  <2>2. e \in Engines
    BY <1>1, <1>2, Zenon DEF EngineOK, Engines
  <2>3. /\ e.pending_op = engine.pending_op /\ e.wtx_count = count /\ e.chain = engine.chain
        /\ e.expected_response_type = engine.expected_response_type
        /\ e.activated = engine.activated /\ e.card_gen = engine.card_gen
        /\ e.card_present = engine.card_present /\ e.expected_seq = engine.expected_seq
        /\ e.current_deadline = until /\ e.outgoing = engine.outgoing
        /\ e.abort_drain_count = engine.abort_drain_count
    BY <1>1 DEF EngineOK, Engines
  <2> HIDE DEF e
  <2>4. EngineOK(e)
    BY <1>1, <1>2, <1>4, <2>2, <2>3, Consts DEF EngineOK
  <2>5. e.current_deadline <= WallLimit + DefaultTimeout * (MaxBlocks - e.outgoing)
    <3>1. MaxBlocks - e.outgoing \in Nat \ {0}
      BY <2>4, EngineTypes, Consts DEF EngineOK
    <3>2. DefaultTimeout * (MaxBlocks - e.outgoing) \in Nat
      BY <3>1, OneBlockMore, Consts
    <3> QED
      BY <1>2, <1>4, <2>3, <3>2, Consts
  <2>6. transfer' \in Transfers /\ transfer'.seq = e.expected_seq
    BY <1>1, <2>1, <2>3, Pending, Zenon DEF IInv, WaitInv
  <2>7. ExpectsData => DataInv(e, transfer', reader')
    <3>1. f.seq = engine.expected_seq /\ f.kind # "failed"
      BY DEF decodes
    <3>2. transfer.dir = "in"
      BY DEF Reads
    <3>3. ExpectsData => /\ OwnChain(engine.chain, engine.pending_op)
                         /\ Served(reader', engine.pending_op, transfer.seq, Len(engine.chain))
      BY <3>1, OwnHead, ServedOn, Zenon
    <3> QED
      BY <2>1, <2>3, <3>2, <3>3 DEF DataInv
  <2> QED
    <3>1. e.wtx_count <= MaxTimeExtensions
      BY <1>2, <1>4, <2>3, Consts, SMTT(30)
    <3>2. UNCHANGED <<answer, started, events>> /\ reader' \in Readers
      BY <2>1, ReadLeaves DEF Reads
    <3> QED
      BY <1>1, <1>2, <2>1, <2>3, <2>4, <2>5, <2>6, <2>7, <3>1, <3>2, GoesOn, Zenon
<1> QED
  BY <1>3, <1>4

\* A frame that is not the expected answer keeps the invariant.
LEMMA UndecodableStep ==
    ASSUME Reads, Undecodable
    PROVE  IInv' /\ SameCard
<1>1. IInv /\ ~Idle /\ EngineOK(engine)
  BY EngineNow DEF Reads
<1>2. CASE engine.pending_op.kind = "Abort" /\ engine.abort_drain_count < MaxDrain
  <2> DEFINE e == [engine EXCEPT !.abort_drain_count = @ + 1]
  <2>1. engine' = e /\ GoOn /\ UNCHANGED <<transfer, answer>>
    BY <1>2 DEF Undecodable
  <2>2. engine.abort_drain_count + 1 \in Nat /\ engine.abort_drain_count + 1 <= MaxDrain
    BY <1>1, <1>2, EngineTypes, Consts DEF EngineOK
  <2>3. /\ e.pending_op = engine.pending_op /\ e.wtx_count = engine.wtx_count
        /\ e.expected_response_type = engine.expected_response_type
        /\ e.activated = engine.activated /\ e.card_gen = engine.card_gen
        /\ e.card_present = engine.card_present /\ e.expected_seq = engine.expected_seq
        /\ e.current_deadline = engine.current_deadline /\ e.outgoing = engine.outgoing
        /\ e.chain = engine.chain /\ e.abort_drain_count = engine.abort_drain_count + 1
    BY <1>1 DEF EngineOK, Engines
  <2>4. e \in Engines
    BY <1>1, <2>2, Zenon DEF EngineOK, Engines
  <2> HIDE DEF e
  <2>5. EngineOK(e)
    BY <1>1, <2>2, <2>3, <2>4 DEF EngineOK
  <2>6. ~ExpectsData
    BY <1>2 DEF ExpectsData, expected_response
  <2>7. /\ now <= e.current_deadline /\ e.wtx_count <= MaxTimeExtensions
        /\ e.current_deadline <= WallLimit + DefaultTimeout * (MaxBlocks - e.outgoing)
        /\ transfer'.seq = e.expected_seq
    BY <1>1, <2>1, <2>3, Zenon DEF IInv, WaitInv
  <2>8. e.current_deadline \in Nat /\ transfer' \in Transfers
    BY <1>1, <2>1, <2>3, Pending, Zenon
  <2>9. UNCHANGED <<answer, started, events>> /\ reader' \in Readers
    BY <2>1, ReadLeaves DEF Reads
  <2> QED
    BY <1>1, <2>1, <2>3, <2>5, <2>6, <2>7, <2>8, <2>9, GoesOn, Zenon
<1>3. CASE ~(engine.pending_op.kind = "Abort" /\ engine.abort_drain_count < MaxDrain)
  BY <1>1, <1>3, EndedIs, ReadEnds DEF Undecodable
<1> QED
  BY <1>2, <1>3

\* So does an answer with parameters, or a failure.
LEMMA ParametersStep ==
    ASSUME Reads, ParametersOrFailure(Head(reader.fifo))
    PROVE  IInv' /\ SameCard
<1> DEFINE p == Head(reader.fifo).present
           e == RemovedUnless(p, Taken(engine))
<1>1. EngineOK(engine) /\ p \in BOOLEAN
  BY EngineNow, ReadLeaves DEF Reads, Frames
<1> HIDE DEF p
<1>2. EngineOK(e) /\ e.pending_op = None /\ e.current_deadline = None
  <2> DEFINE d == Taken(engine)
  <2>1. EngineOK(d) /\ d.pending_op = None /\ d.current_deadline = None
    BY <1>1, TakenIs
  <2> HIDE DEF d
  <2> QED
    BY <1>1, <2>1, RemovedUnlessIs, Zenon DEF d
<1>3. EndPending(e) /\ UNCHANGED answer
  BY Zenon DEF ParametersOrFailure, p
<1> HIDE DEF e
<1> QED
  BY <1>2, <1>3, ReadEnds

\* A slot reported empty has no powered card in it.
LEMMA SlotStatusStep ==
    ASSUME Reads, SlotStatus(Head(reader.fifo))
    PROVE  IInv' /\ SameCard
<1> DEFINE p == Head(reader.fifo).present
           there == p \/ ~engine.card_present
           e == RemovedUnless(there, Taken(engine))
           seen == [e EXCEPT !.card_present = p]
           kind == engine.pending_op.kind
           off == [seen EXCEPT !.activated = FALSE]
           clear == [seen EXCEPT !.needs_recovery = FALSE]
<1>1. EngineOK(engine) /\ p \in BOOLEAN /\ there \in BOOLEAN
  <2>1. EngineOK(engine) /\ p \in BOOLEAN
    BY EngineNow, ReadLeaves DEF Reads, Frames
  <2> QED
    BY <2>1
<1>2. /\ EngineOK(Taken(engine)) /\ Taken(engine).activated = engine.activated
      /\ Taken(engine).card_present = engine.card_present
      /\ Taken(engine).pending_op = None /\ Taken(engine).current_deadline = None
  BY <1>1, TakenIs
<1>3. p \/ ~there \/ ~engine.card_present
  OBVIOUS
<1>4. there => p \/ ~engine.card_present
  OBVIOUS
<1>5. EndPending(CASE kind = "PowerOff" -> off [] kind = "Abort" -> clear [] OTHER -> seen)
      /\ UNCHANGED answer
  BY DEF SlotStatus
<1> HIDE DEF p, there
<1>6. /\ EngineOK(e) /\ e.pending_op = None /\ e.current_deadline = None
      /\ e.activated => p
  <2>1. EngineOK(e) /\ e.pending_op = None /\ e.current_deadline = None
    BY <1>1, <1>2, RemovedUnlessIs, Zenon
  <2>2. CASE ~there
    BY <1>1, <1>2, <2>2, RemovedUnlessIs, Zenon
  <2>3. CASE there
    <3>1. e = Taken(engine)
      BY <1>1, <1>2, <2>3, RemovedUnlessIs, Zenon
    <3>2. p \/ ~engine.card_present
      BY <1>4, <2>3
    <3>3. engine.activated => engine.card_present
      BY <1>1 DEF EngineOK
    <3> QED
      BY <1>2, <2>1, <3>1, <3>2, <3>3, Zenon
  <2> QED
    BY <2>1, <2>2, <2>3, Zenon
<1> HIDE DEF e
<1>7. seen \in Engines /\ off \in Engines /\ clear \in Engines
  <2>1. seen \in Engines
    BY <1>1, <1>6 DEF EngineOK, Engines
  <2> HIDE DEF seen
  <2> QED
    BY <2>1, ZenonT(60) DEF Engines
<1>8. /\ seen.card_present = p /\ seen.activated = e.activated /\ seen.chain = e.chain
      /\ seen.outgoing = e.outgoing /\ seen.wtx_count = e.wtx_count
      /\ seen.abort_drain_count = e.abort_drain_count
      /\ seen.pending_op = None /\ seen.current_deadline = None
  BY <1>6 DEF EngineOK, Engines
<1> HIDE DEF seen
<1>9. /\ off.activated = FALSE /\ off.chain = seen.chain
      /\ off.outgoing = seen.outgoing /\ off.wtx_count = seen.wtx_count
      /\ off.abort_drain_count = seen.abort_drain_count
      /\ off.pending_op = None /\ off.current_deadline = None
  BY <1>7, <1>8 DEF Engines
<1>10. /\ clear.activated = seen.activated /\ clear.card_present = seen.card_present
       /\ clear.chain = seen.chain
       /\ clear.outgoing = seen.outgoing /\ clear.wtx_count = seen.wtx_count
       /\ clear.abort_drain_count = seen.abort_drain_count
       /\ clear.pending_op = None /\ clear.current_deadline = None
  BY <1>7, <1>8 DEF Engines
<1> HIDE DEF off, clear
<1>11. EngineOK(seen) /\ EngineOK(off) /\ EngineOK(clear)
  BY <1>6, <1>7, <1>8, <1>9, <1>10, Zenon DEF EngineOK
<1>12. CASE kind = "PowerOff"
  BY <1>5, <1>9, <1>11, <1>12, ReadEnds
<1>13. CASE kind = "Abort"
  BY <1>5, <1>10, <1>11, <1>13, ReadEnds
<1>14. CASE kind # "PowerOff" /\ kind # "Abort"
  <2>1. EndPending(seen)
    BY <1>5, <1>14
  <2> QED
    BY <1>5, <1>8, <1>11, <2>1, ReadEnds
<1> QED
  BY <1>12, <1>13, <1>14

-----------------------------------------------------------------------------
(* RDR_to_PC_DataBlock: the chain grows, or the answer is whole. *)

\* What appending does to the chain.
LEMMA Longer ==
    ASSUME NEW q \in Seq(Blocks), NEW b \in Blocks
    PROVE  /\ Append(q, b) \in Seq(Blocks) /\ Len(Append(q, b)) = Len(q) + 1
           /\ Len(q) \in Nat /\ Append(q, b)[Len(q) + 1] = b
           /\ \A i \in 1 .. Len(q) : Append(q, b)[i] = q[i]
OBVIOUS

\* The next block is asked for or sent under a new number.
LEMMA SendStep ==
    ASSUME Reads, NEW e, EngineOK(e), e.pending_op = engine.pending_op,
           e.expected_response_type = engine.expected_response_type,
           e.activated = engine.activated, e.card_gen = engine.card_gen,
           e.current_deadline \in Nat, now <= e.current_deadline,
           e.wtx_count <= MaxTimeExtensions,
           e.current_deadline <= WallLimit + DefaultTimeout * (MaxBlocks - e.outgoing),
           NEW level \in Levels, SendBlock(e, level), OwnChain(e.chain, e.pending_op),
           level # "resume" => Len(e.chain) = 0,
           level = "resume" => Resumed(reader.job, e.pending_op, Len(e.chain))
    PROVE  IInv' /\ SameCard
<1> DEFINE a == allocate_seq(e)
<1>1. /\ IInv /\ ~Idle /\ engine' = a /\ GoOn
      /\ UNCHANGED <<answer, started, events>> /\ reader' \in Readers
      /\ transfer' = [dir |-> "out", seq |-> e.next_seq, level |-> level]
  BY ReadLeaves DEF Reads, SendBlock
<1>2. /\ EngineOK(a) /\ a.expected_seq = e.next_seq /\ a.pending_op = e.pending_op
      /\ a.current_deadline = e.current_deadline /\ a.chain = e.chain
      /\ a.outgoing = e.outgoing /\ a.activated = e.activated /\ a.wtx_count = e.wtx_count
      /\ a.expected_response_type = e.expected_response_type /\ a.card_gen = e.card_gen
  BY AllocateIs, Zenon
<1> HIDE DEF a
<1>3. transfer' \in Transfers /\ transfer'.seq = a.expected_seq
  <2>1. e.next_seq \in Seqs
    BY EngineTypes, Zenon DEF EngineOK
  <2> QED
    BY <1>1, <1>2, <2>1, Zenon DEF Transfers
<1>4. DataInv(a, transfer', reader')
  BY <1>1, <1>2, ReadLeaves, Zenon DEF DataInv
<1> QED
  BY <1>1, <1>2, <1>3, <1>4, GoesOn, Zenon

\* The last block completes the answer of the operation, from the card it
\* began with.
LEMMA WholeStep ==
    ASSUME Reads, NEW b \in Blocks, OwnChain(engine.chain, engine.pending_op),
           b = [id |-> engine.pending_op.id, part |-> Len(engine.chain) + 1, last |-> TRUE],
           Whole(Append(engine.chain, b))
    PROVE  IInv' /\ SameCard
<1> DEFINE on == engine.pending_op.kind = "PowerOn"
           q == engine.chain
           longer == Append(q, b)
           op == engine.pending_op
           c == Taken([engine EXCEPT !.chain = <<>>])
           e == [c EXCEPT !.activated = @ \/ on, !.card_present = @ \/ on]
<1>1. IInv /\ ~Idle /\ EngineOK(engine) /\ q \in Seq(Blocks)
  BY EngineNow, EngineTypes DEF Reads, EngineOK
<1>2. EngineOK(c) /\ c.pending_op = None /\ c.current_deadline = None
  BY <1>1, ClearedIs, TakenIs, Zenon
<1>3. EndPending(e)
  BY DEF Whole
<1>4. /\ answer'.blocks = longer /\ answer'.id = op.id /\ answer'.gen = engine.card_gen
  BY DEF Whole
<1> HIDE DEF c
<1>5. EngineOK(e) /\ e.pending_op = None /\ e.current_deadline = None
  <2> DEFINE x == c.activated \/ on
             y == c.card_present \/ on
  <2>1. x \in BOOLEAN /\ y \in BOOLEAN /\ (x => y)
    BY <1>2 DEF EngineOK
  <2>2. e = [c EXCEPT !.activated = x, !.card_present = y]
    BY <1>2 DEF EngineOK, Engines
  <2> HIDE DEF x, y, e
  <2>3. e \in Engines
    BY <1>2, <2>1, <2>2, ZenonT(60) DEF EngineOK, Engines
  <2>4. /\ e.activated = x /\ e.card_present = y /\ e.chain = c.chain
        /\ e.outgoing = c.outgoing /\ e.wtx_count = c.wtx_count
        /\ e.abort_drain_count = c.abort_drain_count
        /\ e.pending_op = c.pending_op /\ e.current_deadline = c.current_deadline
    BY <1>2, <2>2 DEF EngineOK, Engines
  <2> QED
    BY <1>2, <2>1, <2>3, <2>4, Zenon DEF EngineOK
<1> HIDE DEF e
<1>6. /\ Len(longer) = Len(q) + 1 /\ Len(q) \in Nat /\ longer[Len(q) + 1] = b
      /\ \A i \in 1 .. Len(q) : longer[i] = q[i]
  BY <1>1, Longer, Zenon
<1> HIDE DEF longer
<1>7. ASSUME NEW i \in 1 .. Len(longer)
      PROVE  longer[i] = [id |-> op.id, part |-> i, last |-> i = Len(longer)]
  <2>1. CASE i = Len(q) + 1
    <3> DEFINE last == i = Len(longer)
    <3>1. last = TRUE
      BY <1>6, <2>1, Zenon
    <3> HIDE DEF last
    <3> QED
      BY <1>6, <2>1, <3>1, Zenon DEF last
  <2>2. CASE i # Len(q) + 1
    <3> DEFINE last == i = Len(longer)
    <3>1. last = FALSE /\ i \in 1 .. Len(q)
      BY <1>6, <2>2, SMTT(30)
    <3> HIDE DEF last
    <3>2. q[i] = [id |-> op.id, part |-> i, last |-> FALSE]
      BY <3>1 DEF OwnChain
    <3> QED
      BY <1>6, <3>1, <3>2, Zenon DEF last
  <2> QED
    BY <2>1, <2>2, Zenon
<1>8. AnswerIsItsOwn'
  BY <1>4, <1>7, Zenon DEF AnswerIsItsOwn
<1>9. SameCard
  BY <1>1, <1>4, Zenon DEF SameCard, IInv, CardInv
<1> QED
  BY <1>1, <1>3, <1>5, <1>8, <1>9, ReadLeaves, EndsWell, Zenon

\* A number below another, one lower.
LEMMA OneLess ==
    ASSUME NEW k \in Nat, NEW m \in Nat, k < m, k # 0
    PROVE  k - 1 \in Nat /\ k - 1 < m /\ k = (k - 1) + 1
OBVIOUS

\* The command's next block, one timeout later at most.
LEMMA MoreStep ==
    ASSUME Reads, ExpectsData, engine.outgoing # 0, Len(engine.chain) = 0,
           OwnChain(engine.chain, engine.pending_op),
           SendBlock([engine EXCEPT !.outgoing = @ - 1, !.current_deadline = now + DefaultTimeout],
                     IF engine.outgoing = 1 THEN "end" ELSE "continue")
    PROVE  IInv' /\ SameCard
<1> DEFINE left == engine.outgoing - 1
           until == now + DefaultTimeout
           e == [engine EXCEPT !.outgoing = left, !.current_deadline = until]
           level == IF engine.outgoing = 1 THEN "end" ELSE "continue"
<1>1. IInv /\ ~Idle /\ EngineOK(engine) /\ now \in Nat
  BY EngineNow DEF Reads, IInv, TypeOK
<1>2. /\ left \in Nat /\ left < MaxBlocks /\ until \in Nat /\ now <= until
      /\ engine.outgoing = left + 1
  <2>1. engine.outgoing \in Nat /\ engine.outgoing < MaxBlocks
    BY <1>1, EngineTypes DEF EngineOK
  <2>2. left \in Nat /\ left < MaxBlocks /\ engine.outgoing = left + 1
    BY <2>1, OneLess, Consts, Zenon
  <2>3. until \in Nat /\ now <= until
    BY <1>1, Consts
  <2> QED
    BY <2>2, <2>3
<1>3. e \in Engines
  BY <1>1, <1>2, ZenonT(60) DEF EngineOK, Engines
<1>4. /\ e.pending_op = engine.pending_op /\ e.wtx_count = engine.wtx_count
      /\ e.expected_response_type = engine.expected_response_type
      /\ e.activated = engine.activated /\ e.card_gen = engine.card_gen
      /\ e.card_present = engine.card_present /\ e.current_deadline = until
      /\ e.outgoing = left /\ e.chain = engine.chain
      /\ e.abort_drain_count = engine.abort_drain_count
  BY <1>1 DEF EngineOK, Engines
<1>5. level \in Levels /\ level # "resume" /\ SendBlock(e, level)
  BY DEF Levels
<1> HIDE DEF e, level
<1>6. EngineOK(e)
  BY <1>1, <1>2, <1>3, <1>4 DEF EngineOK
<1>7. until <= WallLimit + DefaultTimeout * (MaxBlocks - left)
  <2> DEFINE k == MaxBlocks - engine.outgoing
  <2>1. k \in Nat \ {0} /\ MaxBlocks - left = k + 1
    <3>1. engine.outgoing \in Nat /\ engine.outgoing < MaxBlocks
      BY <1>1, EngineTypes DEF EngineOK
    <3> QED
      BY <3>1, Consts, SMTT(30)
  <2>2. /\ now <= engine.current_deadline /\ engine.current_deadline \in Nat
        /\ engine.current_deadline <= WallLimit + DefaultTimeout * k
    BY <1>1, Pending DEF IInv, WaitInv
  <2> HIDE DEF k
  <2>3. DefaultTimeout * (k + 1) = DefaultTimeout * k + DefaultTimeout
        /\ DefaultTimeout * k \in Nat
    BY <2>1, OneBlockMore, Consts, Zenon
  <2> HIDE DEF left
  <2> DEFINE t == DefaultTimeout * k
  <2>4. DefaultTimeout * (MaxBlocks - left) = t + DefaultTimeout /\ t \in Nat
    BY <2>1, <2>3
  <2>5. engine.current_deadline <= WallLimit + t
    BY <2>2
  <2> HIDE DEF t
  <2> QED
    BY <1>1, <2>2, <2>4, <2>5, Consts, SMTT(30)
<1>8. e.wtx_count <= MaxTimeExtensions
  BY <1>1, <1>4 DEF IInv, WaitInv
<1> HIDE DEF until, left
<1> QED
  BY <1>2, <1>4, <1>5, <1>6, <1>7, <1>8, SendStep

\* One block more of the answer, and the next one is asked for.
LEMMA GrowStep ==
    ASSUME Reads, ExpectsData, NEW b \in Blocks, OwnChain(engine.chain, engine.pending_op),
           b = [id |-> engine.pending_op.id, part |-> Len(engine.chain) + 1, last |-> FALSE],
           Len(Append(engine.chain, b)) <= MaxResponse,
           Resumed(reader.job, engine.pending_op, Len(engine.chain) + 1),
           SendBlock([engine EXCEPT !.chain = Append(engine.chain, b)], "resume")
    PROVE  IInv' /\ SameCard
<1> DEFINE q == engine.chain
           longer == Append(q, b)
           e == [engine EXCEPT !.chain = longer]
           op == engine.pending_op
<1>1. IInv /\ ~Idle /\ EngineOK(engine) /\ q \in Seq(Blocks)
  BY EngineNow, EngineTypes DEF Reads, EngineOK
<1>2. /\ longer \in Seq(Blocks) /\ Len(longer) = Len(q) + 1 /\ Len(q) \in Nat
      /\ longer[Len(q) + 1] = b /\ \A i \in 1 .. Len(q) : longer[i] = q[i]
  BY <1>1, Longer
<1>3. SendBlock(e, "resume") /\ Len(longer) <= MaxResponse
  OBVIOUS
<1> HIDE DEF longer
<1>4. e \in Engines
  BY <1>1, <1>2, Zenon DEF EngineOK, Engines
<1>5. /\ e.pending_op = engine.pending_op /\ e.wtx_count = engine.wtx_count
      /\ e.expected_response_type = engine.expected_response_type
      /\ e.activated = engine.activated /\ e.card_gen = engine.card_gen
      /\ e.card_present = engine.card_present
      /\ e.current_deadline = engine.current_deadline
      /\ e.outgoing = engine.outgoing /\ e.chain = longer
      /\ e.abort_drain_count = engine.abort_drain_count
  BY <1>1 DEF EngineOK, Engines
<1> HIDE DEF e
<1>6. EngineOK(e)
  BY <1>1, <1>3, <1>4, <1>5 DEF EngineOK
<1>7. OwnChain(longer, op)
  <2> SUFFICES ASSUME NEW i \in 1 .. Len(longer)
               PROVE  longer[i] = [id |-> op.id, part |-> i, last |-> FALSE]
    BY DEF OwnChain
  <2>1. i \in 1 .. Len(q) \/ i = Len(q) + 1
    BY <1>2
  <2> QED
    BY <1>2, <2>1, Zenon DEF OwnChain
<1>8. /\ now <= e.current_deadline /\ e.current_deadline \in Nat
      /\ e.wtx_count <= MaxTimeExtensions
      /\ e.current_deadline <= WallLimit + DefaultTimeout * (MaxBlocks - e.outgoing)
  BY <1>1, <1>5, Pending DEF IInv, WaitInv
<1>9. "resume" \in Levels
  BY DEF Levels
<1> QED
  BY <1>2, <1>3, <1>5, <1>6, <1>7, <1>8, <1>9, SendStep

\* A chain that does not fit together, or too long, ends the operation.
LEMMA BrokenStep ==
    ASSUME Reads,
           \/ ChainBroken(engine) \/ ChainBroken([engine EXCEPT !.chain = <<>>]) \/ TooLong
           \/ EndPending(Removed(Taken(engine))) /\ UNCHANGED answer
           \/ EndPending(Taken(engine)) /\ UNCHANGED answer
    PROVE  IInv' /\ SameCard
<1> DEFINE c == [engine EXCEPT !.chain = <<>>]
<1>1. EngineOK(engine) /\ EngineOK(c)
  BY EngineNow, ClearedIs, Zenon DEF Reads
<1>2. CASE ChainBroken(engine)
  BY <1>1, <1>2, EndedIs, ReadEnds DEF ChainBroken
<1>3. CASE ChainBroken(c)
  <2> HIDE DEF c
  <2> QED
    BY <1>1, <1>3, EndedIs, ReadEnds DEF ChainBroken
<1>4. CASE TooLong
  <2>1. EndPending(Taken(c)) /\ UNCHANGED answer
    BY <1>4 DEF TooLong
  <2> HIDE DEF c
  <2> QED
    BY <1>1, <2>1, TakenIs, ReadEnds
<1>5. CASE EndPending(Removed(Taken(engine))) /\ UNCHANGED answer
  <2> DEFINE d == Taken(engine)
  <2>1. EngineOK(d) /\ d.pending_op = None /\ d.current_deadline = None
    BY <1>1, TakenIs
  <2> HIDE DEF d
  <2>2. EngineOK(Removed(d)) /\ Removed(d).pending_op = None /\ Removed(d).current_deadline = None
    BY <2>1, RemovedIs, Zenon
  <2>3. EndPending(Removed(d)) /\ UNCHANGED answer
    BY <1>5 DEF d
  <2> QED
    BY <2>2, <2>3, ReadEnds
<1>6. CASE EndPending(Taken(engine)) /\ UNCHANGED answer
  BY <1>1, <1>6, TakenIs, ReadEnds
<1> QED
  BY <1>2, <1>3, <1>4, <1>5, <1>6

\* A data block, alone or in a chain, keeps the invariant (handle_data_block).
LEMMA DataBlockStep ==
    ASSUME Reads, decodes(Head(reader.fifo)), Head(reader.fifo).type = "DataBlock",
           Head(reader.fifo).kind \notin {"extension", "failed"}, DataBlock(Head(reader.fifo))
    PROVE  IInv' /\ SameCard
<1> DEFINE f == Head(reader.fifo)
           q == engine.chain
           op == engine.pending_op
           longer == Append(q, f.block)
<1>1. IInv /\ ~Idle /\ EngineOK(engine) /\ f \in Frames
  BY EngineNow, ReadLeaves DEF Reads
<1>2. ExpectsData
  BY <1>1, Zenon DEF decodes, ExpectsData, IInv, WaitInv
<1>3. /\ OwnFrame(f, op, Len(q), reader.job) /\ OwnChain(q, op)
  BY <1>2, OwnHead, Zenon DEF decodes
<1>4. f.block \in Blocks /\ f.present \in BOOLEAN
      /\ f.kind \in {"begin", "continue", "end", "complete", "more"}
  BY <1>1 DEF Frames, FrameKinds
<1>5. Len(q) \in Nat /\ (q = <<>> => Len(q) = 0) /\ Len(longer) \in Nat
  <2>1. q \in Seq(Blocks)
    BY <1>1, EngineTypes DEF EngineOK
  <2> QED
    BY <1>4, <2>1, Longer
<1>6. CASE ~f.present
  <2>1. EndPending(Removed(Taken(engine))) /\ UNCHANGED answer
    BY <1>6, Zenon DEF DataBlock
  <2> QED
    BY <2>1, BrokenStep
<1>7. CASE f.present /\ f.kind \in {"begin", "continue"}
  <2>1. \/ ChainBroken(engine) \/ ChainBroken([engine EXCEPT !.chain = <<>>]) \/ TooLong
        \/ /\ ~(Len(longer) > MaxResponse)
           /\ SendBlock([engine EXCEPT !.chain = longer], "resume")
    <3>1. CASE f.kind = "begin"
      BY <1>7, <3>1, Zenon DEF DataBlock
    <3>2. CASE f.kind = "continue"
      BY <1>7, <3>2, Zenon DEF DataBlock
    <3> QED
      BY <1>7, <3>1, <3>2
  <2>2. /\ f.block = [id |-> op.id, part |-> Len(q) + 1, last |-> FALSE]
        /\ Resumed(reader.job, op, Len(q) + 1)
    BY <1>3, <1>7, Zenon DEF OwnFrame, Resumed
  <2>3. CASE /\ ~(Len(longer) > MaxResponse)
             /\ SendBlock([engine EXCEPT !.chain = longer], "resume")
    <3> DEFINE b == f.block
    <3>1. /\ b \in Blocks /\ b = [id |-> op.id, part |-> Len(q) + 1, last |-> FALSE]
          /\ Len(Append(q, b)) <= MaxResponse
          /\ SendBlock([engine EXCEPT !.chain = Append(engine.chain, b)], "resume")
      BY <1>4, <1>5, <2>2, <2>3, Consts
    <3> HIDE DEF b
    <3> QED
      BY <1>2, <1>3, <2>2, <3>1, GrowStep
  <2> QED
    BY <2>1, <2>3, BrokenStep
<1>8. CASE f.present /\ f.kind \in {"end", "complete"}
  <2>1. \/ ChainBroken(engine) \/ ChainBroken([engine EXCEPT !.chain = <<>>]) \/ TooLong
        \/ Whole(longer)
    <3>1. CASE f.kind = "end"
      BY <1>8, <3>1, Zenon DEF DataBlock
    <3>2. CASE f.kind = "complete"
      BY <1>8, <3>2, Zenon DEF DataBlock
    <3> QED
      BY <1>8, <3>1, <3>2
  <2>2. CASE Whole(longer)
    <3> DEFINE b == f.block
    <3>1. b \in Blocks /\ b = [id |-> op.id, part |-> Len(q) + 1, last |-> TRUE]
          /\ Whole(Append(q, b))
      BY <1>3, <1>4, <1>8, <2>2, Zenon DEF OwnFrame
    <3> HIDE DEF b
    <3> QED
      BY <1>3, <3>1, WholeStep
  <2> QED
    BY <2>1, <2>2, BrokenStep
<1>9. CASE f.present /\ f.kind = "more"
  <2>1. Len(q) = 0
    BY <1>3, <1>9, Zenon DEF OwnFrame
  <2>2. CASE engine.outgoing = 0
    <3>1. EndPending(Taken(engine)) /\ UNCHANGED answer
      BY <1>9, <2>2, Zenon DEF DataBlock
    <3> QED
      BY <3>1, BrokenStep
  <2>3. CASE engine.outgoing # 0
    <3>1. SendBlock([engine EXCEPT !.outgoing = @ - 1, !.current_deadline = now + DefaultTimeout],
                    IF engine.outgoing = 1 THEN "end" ELSE "continue")
      BY <1>9, <2>3, Zenon DEF DataBlock
    <3> QED
      BY <1>2, <1>3, <2>1, <2>3, <3>1, MoreStep
  <2> QED
    BY <2>2, <2>3
<1> QED
  BY <1>4, <1>6, <1>7, <1>8, <1>9

\* A bulk-in transfer that completed keeps the invariant.
LEMMA BulkInStep ==
    ASSUME IInv, bulk_in_completes
    PROVE  IInv' /\ SameCard
<1> DEFINE f == Head(reader.fifo)
<1>1. Reads
  BY InFlight DEF Reads, bulk_in_completes
<1>2. f \in Frames
  BY <1>1, ReadLeaves
<1>3. CASE ~decodes(f)
  <2>1. Undecodable
    BY <1>3, Zenon DEF bulk_in_completes
  <2> QED
    BY <1>1, <2>1, UndecodableStep
<1>4. CASE decodes(f) /\ f.kind = "extension"
  <2>1. TimeExtension(f)
    BY <1>4, Zenon DEF bulk_in_completes
  <2> QED
    BY <1>1, <1>4, <2>1, TimeExtensionStep
<1>5. CASE decodes(f) /\ f.kind = "failed"
  <2>1. ParametersOrFailure(f)
    BY <1>5, Zenon DEF bulk_in_completes
  <2> QED
    BY <1>1, <2>1, ParametersStep
<1>6. CASE decodes(f) /\ f.kind \notin {"extension", "failed"}
  <2>1. CASE f.type = "DataBlock"
    <3>1. DataBlock(f)
      BY <1>6, <2>1, Zenon DEF bulk_in_completes
    <3> QED
      BY <1>1, <1>6, <2>1, <3>1, DataBlockStep
  <2>2. CASE f.type = "SlotStatus"
    <3>1. SlotStatus(f)
      BY <1>6, <2>2, Zenon DEF bulk_in_completes
    <3> QED
      BY <1>1, <3>1, SlotStatusStep
  <2>3. CASE f.type = "Parameters"
    <3>1. ParametersOrFailure(f)
      BY <1>6, <2>3, Zenon DEF bulk_in_completes
    <3> QED
      BY <1>1, <3>1, ParametersStep
  <2> QED
    BY <1>2, <2>1, <2>2, <2>3 DEF Frames, Responses
<1> QED
  BY <1>3, <1>4, <1>5, <1>6

-----------------------------------------------------------------------------
(* The theorems. *)

\* The invariant holds of a reader just attached.
LEMMA Initial ==
    ASSUME Init
    PROVE  IInv
<1>1. engine \in Engines /\ engine.pending_op = None /\ engine.current_deadline = None
  <2>1. <<>> \in Seq(Blocks) /\ 0 \in Nat /\ 1 \in Nat
    OBVIOUS
  <2>2. 0 \in Seqs
    BY Consts DEF Seqs
  <2> QED
    BY <2>1, <2>2, Zenon DEF Init, Engines
<1>2. /\ engine.chain = <<>> /\ engine.outgoing = 0 /\ engine.wtx_count = 0
      /\ engine.abort_drain_count = 0 /\ engine.activated = FALSE
  BY Zenon DEF Init
<1>3. reader \in Readers
  <2>1. <<>> \in Seq(Frames)
    OBVIOUS
  <2> QED
    BY <2>1, SMTT(30) DEF Init, Readers
<1>4. TypeOK
  <2>1. /\ Len(engine.chain) <= MaxResponse /\ engine.outgoing < MaxBlocks
        /\ engine.wtx_count <= MaxTimeExtensions + 1 /\ engine.abort_drain_count <= MaxDrain
    BY <1>2, Consts
  <2>2. transfer = None /\ now = 0 /\ started \in 0 .. MaxOps /\ events \in 0 .. MaxEvents
    BY Consts, SMTT(30) DEF Init
  <2>3. completions \in [1 .. MaxOps -> Nat] /\ begun \in [gen : Nat, activated : BOOLEAN]
    BY Zenon DEF Init, NotBegun
  <2> QED
    BY <1>1, <1>3, <2>1, <2>2, <2>3, Zenon DEF TypeOK, Readers
<1>5. Idle
  BY <1>1 DEF Idle
<1>6. WaitInv /\ CardInv
  BY <1>1, <1>2, <1>5, Zenon DEF Init, WaitInv, CardInv
<1>7. AnswerIsItsOwn
  BY Zenon DEF Init, AnswerIsItsOwn
<1> QED
  BY <1>4, <1>5, <1>6, <1>7 DEF IInv

\* Every step keeps the invariant, and an answer comes from one card.
LEMMA Step ==
    ASSUME IInv, [Next]_vars
    PROVE  IInv' /\ SameCard
<1>1. CASE UNCHANGED vars
  BY <1>1, RefusedStep
<1>2. ASSUME NEW kind \in Kinds,
             NEW blocks \in 1 .. (IF kind = "TransferBlock" THEN MaxBlocks + 1 ELSE 1),
             start_refused(kind, blocks) \/ start(kind, blocks)
      PROVE  IInv' /\ SameCard
  <2>1. CASE start_refused(kind, blocks)
    BY <2>1, RefusedStep DEF start_refused
  <2>2. CASE start(kind, blocks)
    BY <2>2, StartStep
  <2> QED
    BY <1>2, <2>1, <2>2
<1>3. CASE ExecutorStep
  BY <1>3, BulkOutStep, ShortStep, ControlStep, BulkInStep, FailedStep, DeadlineStep
     DEF ExecutorStep
<1>4. CASE reader_answers \/ reader_fails \/ reader_asks_for_time \/ reader_asks_for_more
  BY <1>4, ReaderAnswersStep, ReaderFailsStep, AsksForTimeStep, AsksForMoreStep
<1>5. CASE interrupt_slot_change \/ interrupt_hardware_error \/ cancel \/ connection_lost
  BY <1>5, SlotChangeStep, HardwareStep, CancelStep, ConnectionStep
<1>6. CASE mark_deactivated \/ card_moves \/ Tick
  BY <1>6, DeactivatedStep, CardMovesStep, TickStep
<1> QED
  BY <1>1, <1>2, <1>3, <1>4, <1>5, <1>6 DEF Next

\* The engine, the transfer in flight and the reader keep in step, whatever
\* fails, is cancelled or comes late (CcidEngine::step, execute_op).
THEOREM Invariant == Spec => []IInv
<1>1. Init => IInv
  BY Initial
<1>2. IInv /\ [Next]_vars => IInv'
  BY Step
<1> QED
  BY <1>1, <1>2, PTL DEF Spec

\* Every variable keeps its type and its bound.
THEOREM TypeCorrect == Spec => []TypeOK
<1>1. IInv => TypeOK
  BY DEF IInv
<1> QED
  BY <1>1, Invariant, PTL

\* The data handed out as an operation's answer is all of what the reader
\* answered to that operation, in its order, and nothing of an earlier one
\* (decode_response, handle_data_block).
THEOREM OwnAnswer == Spec => []AnswerIsItsOwn
<1>1. IInv => AnswerIsItsOwn
  BY DEF IInv
<1> QED
  BY <1>1, Invariant, PTL

\* An operation in progress has a transfer and a deadline within the limit on
\* time extensions and one timeout per block; an idle engine has neither.
THEOREM BoundedWait == Spec => []WaitIsBounded
<1>1. IInv => WaitIsBounded
  <2> SUFFICES ASSUME IInv PROVE WaitIsBounded
    OBVIOUS
  <2>1. CASE Idle
    BY <2>1 DEF IInv, WaitInv, WaitIsBounded
  <2>2. CASE ~Idle
    <3>1. /\ engine.current_deadline \in Nat /\ transfer # None /\ engine.current_deadline # None
          /\ engine.current_deadline <= WallLimit + DefaultTimeout * (MaxBlocks - engine.outgoing)
      BY <2>2, Pending, Zenon DEF IInv, WaitInv
    <3>2. engine.outgoing \in Nat /\ engine.outgoing < MaxBlocks
      BY EngineNow, EngineTypes, Zenon DEF EngineOK
    <3>3. DefaultTimeout * (MaxBlocks - engine.outgoing) <= DefaultTimeout * MaxBlocks
      <4>1. \A t, a, b \in Nat : t * (a + b) = t * a + t * b /\ t * a \in Nat /\ t * b \in Nat
        OBVIOUS
      <4>2. MaxBlocks - engine.outgoing \in Nat
            /\ MaxBlocks = (MaxBlocks - engine.outgoing) + engine.outgoing
        BY <3>2, Consts
      <4> DEFINE k == MaxBlocks - engine.outgoing
      <4>3. k \in Nat /\ MaxBlocks = k + engine.outgoing
        BY <4>2
      <4> HIDE DEF k
      <4>4. /\ DefaultTimeout * MaxBlocks = DefaultTimeout * k + DefaultTimeout * engine.outgoing
            /\ DefaultTimeout * k \in Nat /\ DefaultTimeout * engine.outgoing \in Nat
        BY <3>2, <4>1, <4>3, Consts
      <4>5. DefaultTimeout * k <= DefaultTimeout * MaxBlocks
        BY <4>4
      <4> QED
        BY <4>5 DEF k
    <3>4. /\ DefaultTimeout * (MaxBlocks - engine.outgoing) \in Nat
          /\ DefaultTimeout * MaxBlocks \in Nat
      <4>1. MaxBlocks - engine.outgoing \in Nat \ {0} /\ MaxBlocks \in Nat \ {0}
        BY <3>2, Consts
      <4> QED
        BY <4>1, OneBlockMore, Consts
    <3> DEFINE a == DefaultTimeout * (MaxBlocks - engine.outgoing)
               b == DefaultTimeout * MaxBlocks
    <3>5. engine.current_deadline <= WallLimit + a /\ a <= b /\ a \in Nat /\ b \in Nat
      BY <3>1, <3>3, <3>4
    <3>6. LongestWait = WallLimit + b
      BY DEF LongestWait
    <3> HIDE DEF a, b
    <3>7. engine.current_deadline <= LongestWait
      BY <3>1, <3>5, <3>6, Consts
    <3> QED
      BY <2>2, <3>1, <3>7 DEF WaitIsBounded
  <2> QED
    BY <2>1, <2>2
<1> QED
  BY <1>1, Invariant, PTL

\* An answer to a command sent to a powered card comes from that card: none
\* was removed or exchanged since (card_gen, interrupt_slot_change).
THEOREM SameCardAnswers == Spec => OneCardPerAnswer
<1>1. IInv /\ [Next]_vars =>
          [answer' # answer /\ begun.activated => answer'.gen = begun.gen]_vars
  BY Step DEF SameCard
<1> QED
  BY <1>1, Invariant, PTL DEF Spec, OneCardPerAnswer

=============================================================================
