----------------------------- MODULE CcidEngine -----------------------------
(* The CCID protocol engine of one slot (ccid/engine.rs, CcidEngine::step),  *)
(* driven as CcidCardTransport::execute_op drives it: every action of a      *)
(* transition is carried out before the next event, and at most one USB      *)
(* transfer is in flight.  The reader, its queue of Bulk-IN answers and the  *)
(* card are external.  Time is counted from the start of the operation, as   *)
(* execute_op counts it.                                                     *)
EXTENDS Naturals, Sequences

CONSTANTS None,
          SeqModulus,           \* numbers of bSeq (256 in the code)
          DefaultTimeout,       \* DEFAULT_ENGINE_TIMEOUT_MS
          MaxTimeExtensions,    \* MAX_TIME_EXTENSIONS
          WallLimit,            \* MAX_TIME_EXTENSION_WALL_MS
          Multipliers,          \* waiting-time multipliers a reader may ask for
          MaxDrain,             \* MAX_ABORT_DRAIN_ATTEMPTS
          MaxResponse,          \* MAX_RESPONSE_PAYLOAD_SIZE, in blocks
          ExtendedApdu,         \* CcidExchangeLevel::ShortAndExtendedApdu
          MaxBlocks,            \* blocks of the longest command
          Kinds,                \* operations the platform starts
          MaxParts,             \* bound: blocks of an answer
          MaxOps,               \* bound: operations started
          MaxEvents,            \* bound: card moves, cancels and losses
          MaxFifo               \* bound: answers the reader keeps unread

Seqs == 0 .. SeqModulus - 1
Responses == {"DataBlock", "SlotStatus", "Parameters"}
Operations == [id : 1 .. MaxOps, kind : Kinds]
Levels == {"none", "begin", "continue", "end", "resume"}
Transfers == [dir : {"control", "out", "in"}, seq : Seqs, level : Levels]
Blocks == [id : Nat, part : Nat, last : BOOLEAN]
FrameKinds == {"begin", "continue", "end", "complete", "more", "extension", "failed"}
Frames == [type : Responses, seq : Seqs, kind : FrameKinds, present : BOOLEAN,
           multiplier : Nat, block : Blocks]
Todos == {"answer", "more", "wait"}
Jobs == [id : Nat, kind : Kinds, seq : Seqs, part : Nat, todo : Todos]

ASSUME NoneAssumption == /\ None \notin Nat /\ None \notin Operations
                         /\ None \notin Transfers /\ None \notin Jobs
ASSUME BoundAssumption ==
    /\ {SeqModulus, MaxBlocks} \subseteq Nat \ {0}
    /\ {DefaultTimeout, MaxTimeExtensions, WallLimit, MaxDrain, MaxResponse,
        MaxParts, MaxOps, MaxEvents, MaxFifo} \cup Multipliers \subseteq Nat
    /\ ExtendedApdu \in BOOLEAN
    /\ Kinds \subseteq {"PowerOn", "PowerOff", "GetSlotStatus", "GetParameters",
                        "SetParametersT0", "TransferBlock", "Secure", "Abort"}

VARIABLES
    engine,      \* CcidEngine
    transfer,    \* the USB transfer in flight
    reader,      \* the command it works on, its unread answers, the card
    now,         \* time since the operation started
    started,     \* operations started; their ids are 1 .. started
    events,      \* events of the world so far
    completions, \* history: Complete actions per operation
    begun,       \* history: the card generation the last operation began with
    answer,      \* history: the last data answer handed out, with its blocks
    cut          \* history: a card change cut an operation off, no abort since

vars == <<engine, transfer, reader, now, started, events, completions, begun, answer, cut>>

-----------------------------------------------------------------------------
(* The engine's own state changes. *)

expected_response(kind) ==
    CASE kind \in {"PowerOn", "TransferBlock", "Secure"} -> "DataBlock"
      [] kind \in {"PowerOff", "GetSlotStatus", "Abort"} -> "SlotStatus"
      [] kind \in {"GetParameters", "SetParametersT0"} -> "Parameters"

allocate_seq(e) ==
    [e EXCEPT !.expected_seq = e.next_seq, !.next_seq = (@ + 1) % SeqModulus]

\* An operation ends: nothing is pending and no deadline is armed.
Taken(e) == [e EXCEPT !.pending_op = None, !.current_deadline = None]

\* The card left, or another one may be in its place.
Removed(e) ==
    [e EXCEPT !.card_present = FALSE, !.activated = FALSE, !.card_gen = @ + 1]

RemovedUnless(present, e) == IF present THEN e ELSE Removed(e)

Recovery(e) == [e EXCEPT !.needs_recovery = TRUE]

Completed(id) == completions' = [completions EXCEPT ![id] = @ + 1]

NotBegun == [gen |-> 0, activated |-> FALSE]

\* The operation in progress ends and its transfer is cancelled.
EndPending(e) ==
    /\ engine' = e
    /\ transfer' = None
    /\ now' = 0
    /\ begun' = NotBegun
    /\ Completed(engine.pending_op.id)

\* The operation in progress goes on.
GoOn == UNCHANGED <<now, begun, completions>>

Idle == engine.pending_op = None

-----------------------------------------------------------------------------
(* InputEvent::Start. *)

\* A transfer longer than one block needs extended APDUs.
too_long(kind, blocks) ==
    blocks > (IF kind = "TransferBlock" /\ ExtendedApdu THEN MaxBlocks ELSE 1)

refused(kind, blocks) ==
    \/ ~engine.connected
    \/ engine.needs_recovery /\ kind # "Abort"
    \/ ~Idle
    \/ too_long(kind, blocks)

\* A refused operation is completed with its error at once, and nothing moves.
start_refused(kind, blocks) ==
    /\ refused(kind, blocks)
    /\ UNCHANGED vars

\* The command goes out as one block, the first of several, or, for an abort,
\* as a control transfer that names its number.
start(kind, blocks) ==
    LET id == started + 1
        e == allocate_seq([engine EXCEPT !.wtx_count = 0, !.chain = <<>>])
    IN
    /\ started < MaxOps
    /\ ~refused(kind, blocks)
    /\ started' = id
    /\ now' = 0
    /\ engine' = [e EXCEPT !.pending_op = [id |-> id, kind |-> kind],
                           !.expected_response_type = expected_response(kind),
                           !.current_deadline = DefaultTimeout,
                           !.outgoing = blocks - 1,
                           !.abort_drain_count = IF kind = "Abort" THEN 0 ELSE @]
    /\ transfer' = [dir |-> IF kind = "Abort" THEN "control" ELSE "out", seq |-> e.expected_seq,
                    level |-> IF blocks > 1 THEN "begin" ELSE "none"]
    /\ begun' = [gen |-> engine.card_gen, activated |-> engine.activated]
    /\ answer' = None
    /\ UNCHANGED <<reader, events, completions, cut>>

-----------------------------------------------------------------------------
(* The reader. *)

\* No command is being worked on; one that waits for the host gives way.
Free == IF reader.job = None THEN TRUE ELSE reader.job.todo = "wait"

\* An unread answer is lost by the time its number comes round again, and so is
\* every older one.
Unread(seq) ==
    LET fifo == reader.fifo
        Gone == {n \in 0 .. Len(fifo) : \A i \in n + 1 .. Len(fifo) : fifo[i].seq # seq}
        n == CHOOSE n \in Gone : \A m \in Gone : n <= m
    IN  SubSeq(fifo, n + 1, Len(fifo))

Frame(job, kind, part) ==
    [type |-> expected_response(job.kind), seq |-> job.seq, kind |-> kind,
     present |-> reader.present, multiplier |-> 0,
     block |-> [id |-> job.id, part |-> part, last |-> kind \in {"complete", "end"}]]

\* A Bulk-OUT message arrives: a command, a further block of one, or the
\* request for the next block of an answer.
received ==
    LET op == engine.pending_op
        new == [id |-> op.id, kind |-> op.kind, seq |-> transfer.seq, part |-> 0,
                todo |-> IF transfer.level \in {"begin", "continue"} THEN "more" ELSE "answer"]
    IN
    CASE transfer.level = "resume" /\ reader.job # None ->
             [reader EXCEPT !.fifo = Unread(transfer.seq),
                            !.job.seq = transfer.seq, !.job.todo = "answer"]
      [] transfer.level # "resume" /\ (Free \/ op.kind = "Abort") ->
             [reader EXCEPT !.fifo = Unread(transfer.seq), !.job = new]
      [] OTHER ->
             [reader EXCEPT !.fifo = Append(Unread(transfer.seq), Frame(new, "failed", 0))]

\* What is left of a job once it answered.
Answered(job, kind, todo) ==
    IF todo = "done" THEN None
    ELSE [job EXCEPT !.todo = todo, !.part = IF kind \in {"begin", "continue"} THEN @ + 1 ELSE @]

Answers(kind, frame, todo) ==
    /\ Len(reader.fifo) < MaxFifo
    /\ reader' = [reader EXCEPT !.fifo = Append(@, frame), !.job = Answered(@, kind, todo)]
    /\ UNCHANGED <<engine, transfer, now, started, events, completions, begun, answer, cut>>

reader_answers ==
    LET job == reader.job IN
    /\ job # None /\ job.todo = "answer"
    /\ \/ expected_response(job.kind) # "DataBlock"
          /\ Answers("complete", Frame(job, "complete", 1), "done")
       \/ expected_response(job.kind) = "DataBlock"
          /\ \/ job.part = 0 /\ Answers("complete", Frame(job, "complete", 1), "done")
             \/ job.part = 0 /\ MaxParts > 1 /\ Answers("begin", Frame(job, "begin", 1), "wait")
             \/ job.part > 0 /\ Answers("end", Frame(job, "end", job.part + 1), "done")
             \/ /\ job.part > 0 /\ job.part + 1 < MaxParts
                /\ Answers("continue", Frame(job, "continue", job.part + 1), "wait")

reader_fails ==
    /\ reader.job # None /\ reader.job.todo # "wait" /\ reader.job.kind # "Abort"
    /\ Answers("failed", Frame(reader.job, "failed", 0), "done")

reader_asks_for_time ==
    /\ reader.job # None /\ reader.job.todo = "answer"
    /\ \E m \in Multipliers :
          Answers("extension",
                  [Frame(reader.job, "extension", 0) EXCEPT !.multiplier = m], "answer")

reader_asks_for_more ==
    /\ reader.job # None /\ reader.job.todo = "more"
    /\ Answers("more", Frame(reader.job, "more", 0), "wait")

-----------------------------------------------------------------------------
(* InputEvent::IoCompleted. *)

bulk_out_completes ==
    /\ transfer # None /\ transfer.dir = "out"
    /\ transfer' = [transfer EXCEPT !.dir = "in"]
    /\ reader' = received
    /\ UNCHANGED <<engine, now, started, events, completions, begun, answer, cut>>

bulk_out_falls_short ==
    /\ transfer # None /\ transfer.dir = "out"
    /\ EndPending(Recovery(Taken(engine)))
    /\ UNCHANGED <<reader, started, events, answer, cut>>

\* The reader stops what it does; the abort message follows on Bulk-OUT.
control_completes ==
    /\ transfer # None /\ transfer.dir = "control"
    /\ transfer' = [transfer EXCEPT !.dir = "out"]
    /\ reader' = [reader EXCEPT !.job = None]
    /\ UNCHANGED <<engine, now, started, events, completions, begun, answer, cut>>

Failures == {"Timeout", "Io", "CardRemoved", "Other"}

Failed(error) ==
    LET e == [Taken(engine) EXCEPT !.outgoing = 0]
        f == RemovedUnless(error # "CardRemoved", e)
    IN IF error \in {"Timeout", "Io"} THEN Recovery(f) ELSE f

transfer_fails(error) ==
    /\ transfer # None
    /\ EndPending(Failed(error))
    /\ cut' = (cut \/ error \in {"CardRemoved", "Other"})
    /\ UNCHANGED <<reader, started, events, answer>>

-----------------------------------------------------------------------------
(* InputEvent::IoCompleted(BulkIn): decode_response, then by its kind. *)

\* Mutant: an answer is taken whatever number it carries.
decodes_AnySequence(frame) == frame.type = engine.expected_response_type

decodes(frame) ==
    /\ frame.type = engine.expected_response_type
    /\ frame.seq = engine.expected_seq

\* The next block goes out under a new number.
SendBlock(e, level) ==
    /\ engine' = allocate_seq(e)
    /\ transfer' = [dir |-> "out", seq |-> e.next_seq, level |-> level]
    /\ GoOn /\ UNCHANGED answer

\* Mutant: the reader gets all the time it asks for.
TimeExtension_NoLimit(frame) ==
    /\ engine' = [engine EXCEPT !.current_deadline = now + frame.multiplier]
    /\ GoOn /\ UNCHANGED <<transfer, answer>>

\* The reader asked for time: the deadline moves, within two limits.
TimeExtension(frame) ==
    LET until == now + frame.multiplier
        count == engine.wtx_count + 1
    IN
    IF count > MaxTimeExtensions \/ until > WallLimit
    THEN /\ EndPending(Recovery(Taken([engine EXCEPT !.wtx_count = count])))
         /\ UNCHANGED answer
    ELSE /\ engine' = [engine EXCEPT !.wtx_count = count, !.current_deadline = until]
         /\ GoOn /\ UNCHANGED <<transfer, answer>>

\* A chain that does not fit together closes the slot for an abort; one that
\* grows too long only ends the operation.
ChainBroken(e) ==
    /\ EndPending(Recovery(Taken(e)))
    /\ UNCHANGED answer

TooLong ==
    /\ EndPending(Taken([engine EXCEPT !.chain = <<>>]))
    /\ UNCHANGED answer

\* The whole answer; of a power-on it is the ATR.
Whole(blocks) ==
    LET e == Taken([engine EXCEPT !.chain = <<>>])
        on == engine.pending_op.kind = "PowerOn"
    IN
    /\ EndPending([e EXCEPT !.activated = @ \/ on, !.card_present = @ \/ on])
    /\ answer' = [id |-> engine.pending_op.id, kind |-> engine.pending_op.kind,
                  blocks |-> blocks, gen |-> engine.card_gen]

DataBlock(frame) ==
    LET chain == engine.chain
        longer == Append(chain, frame.block)
    IN
    CASE ~frame.present ->
             EndPending(Removed(Taken(engine))) /\ UNCHANGED answer
      [] frame.present /\ frame.kind = "begin" ->
             IF chain # <<>> THEN ChainBroken([engine EXCEPT !.chain = <<>>])
             ELSE IF Len(longer) > MaxResponse THEN TooLong
             ELSE SendBlock([engine EXCEPT !.chain = longer], "resume")
      [] frame.present /\ frame.kind = "continue" ->
             IF chain = <<>> THEN ChainBroken(engine)
             ELSE IF Len(longer) > MaxResponse THEN TooLong
             ELSE SendBlock([engine EXCEPT !.chain = longer], "resume")
      [] frame.present /\ frame.kind = "end" ->
             IF chain = <<>> THEN ChainBroken(engine)
             ELSE IF Len(longer) > MaxResponse THEN TooLong ELSE Whole(longer)
      [] frame.present /\ frame.kind = "complete" ->
             IF chain # <<>> THEN ChainBroken([engine EXCEPT !.chain = <<>>])
             ELSE IF Len(longer) > MaxResponse THEN TooLong ELSE Whole(longer)
      [] frame.present /\ frame.kind = "more" ->
             IF engine.outgoing = 0
             THEN EndPending(Taken(engine)) /\ UNCHANGED answer
             ELSE SendBlock([engine EXCEPT !.outgoing = @ - 1,
                                           !.current_deadline = now + DefaultTimeout],
                            IF engine.outgoing = 1 THEN "end" ELSE "continue")

\* An abort that was answered ends the recovery.
SlotStatus(frame) ==
    LET e == Taken(engine)
        kind == engine.pending_op.kind
        seen == [RemovedUnless(frame.present \/ ~engine.card_present, e)
                    EXCEPT !.card_present = frame.present]
    IN
    /\ EndPending(CASE kind = "PowerOff" -> [seen EXCEPT !.activated = FALSE]
                    [] kind = "Abort" -> [seen EXCEPT !.needs_recovery = FALSE]
                    [] OTHER -> seen)
    /\ UNCHANGED answer

\* Parameters, or a command the reader says it failed.
ParametersOrFailure(frame) ==
    EndPending(RemovedUnless(frame.present, Taken(engine))) /\ UNCHANGED answer

\* An answer that is not this operation's: an abort reads on, within a limit.
Undecodable ==
    IF engine.pending_op.kind = "Abort" /\ engine.abort_drain_count < MaxDrain
    THEN /\ engine' = [engine EXCEPT !.abort_drain_count = @ + 1]
         /\ GoOn /\ UNCHANGED <<transfer, answer>>
    ELSE EndPending(Recovery(Taken(engine))) /\ UNCHANGED answer

bulk_in_completes ==
    LET frame == Head(reader.fifo) IN
    /\ transfer # None /\ transfer.dir = "in" /\ reader.fifo # <<>>
    /\ CASE ~decodes(frame) -> Undecodable
         [] decodes(frame) /\ frame.kind = "extension" -> TimeExtension(frame)
         [] decodes(frame) /\ frame.kind = "failed" -> ParametersOrFailure(frame)
         [] decodes(frame) /\ frame.kind \notin {"extension", "failed"} ->
                CASE frame.type = "DataBlock" -> DataBlock(frame)
                  [] frame.type = "SlotStatus" -> SlotStatus(frame)
                  [] frame.type = "Parameters" -> ParametersOrFailure(frame)
    /\ reader' = [reader EXCEPT !.fifo = Tail(@)]
    /\ cut' = (cut /\ engine'.needs_recovery = engine.needs_recovery)
    /\ UNCHANGED <<started, events>>

-----------------------------------------------------------------------------
(* The other events of step. *)

\* What CancelTransfers and Complete do, when an operation is in progress.
CutOff(e) ==
    IF Idle
    THEN engine' = e /\ GoOn /\ UNCHANGED transfer
    ELSE EndPending(Taken(e))

\* Mutant: only a slot reported empty ends the operation in progress.
ends_operation_OnlyAbsent(present, changed) == ~present

ends_operation(present, changed) == changed \/ ~present

\* RDR_to_PC_NotifySlotChange: presence and the change bit of this slot.
interrupt_slot_change ==
    LET present == reader.present
        changed == reader.notice
        e == [engine EXCEPT !.card_present = present, !.card_gen = @ + 1]
    IN
    /\ changed \/ present # engine.card_present
    /\ IF ends_operation(present, changed)
       THEN /\ CutOff([e EXCEPT !.activated = FALSE])
            /\ cut' = (cut \/ ~Idle)
       ELSE /\ engine' = e
            /\ GoOn /\ UNCHANGED <<transfer, cut>>
    /\ reader' = [reader EXCEPT !.notice = FALSE]
    /\ UNCHANGED <<started, events, answer>>

interrupt_hardware_error ==
    /\ events < MaxEvents
    /\ CutOff(Recovery(Removed(engine)))
    /\ events' = events + 1
    /\ UNCHANGED <<reader, started, answer, cut>>

\* The executor reports the deadline of the transition it carried out last.
deadline_expired ==
    /\ ~Idle /\ now >= engine.current_deadline
    /\ EndPending(Recovery(Taken([engine EXCEPT !.outgoing = 0])))
    /\ UNCHANGED <<reader, started, events, answer, cut>>

cancel ==
    /\ ~Idle /\ events < MaxEvents
    /\ EndPending(Recovery(Taken([engine EXCEPT !.outgoing = 0])))
    /\ events' = events + 1
    /\ UNCHANGED <<reader, started, answer, cut>>

Lost(e) ==
    [e EXCEPT !.outgoing = 0, !.connected = FALSE, !.card_present = FALSE, !.activated = FALSE]

connection_lost ==
    /\ engine.connected /\ events < MaxEvents
    /\ CutOff(Lost(engine))
    /\ events' = events + 1
    /\ UNCHANGED <<reader, started, answer, cut>>

\* CcidCardTransport::reset could not read the ATR it got.
mark_deactivated ==
    /\ Idle /\ engine.activated
    /\ engine' = [engine EXCEPT !.activated = FALSE]
    /\ UNCHANGED <<transfer, reader, now, started, events, completions, begun, answer, cut>>

-----------------------------------------------------------------------------
(* The world. *)

\* A card is put in or taken out.
card_moves ==
    /\ events < MaxEvents
    /\ reader' = [reader EXCEPT !.present = ~@, !.notice = TRUE]
    /\ events' = events + 1
    /\ UNCHANGED <<engine, transfer, now, started, completions, begun, answer, cut>>

\* A deadline does not go by unnoticed.
Tick ==
    /\ ~Idle /\ now < engine.current_deadline
    /\ now' = now + 1
    /\ UNCHANGED <<engine, transfer, reader, started, events, completions, begun, answer, cut>>

Init ==
    /\ engine = [card_gen |-> 1, next_seq |-> 0, card_present |-> FALSE, activated |-> FALSE,
                 connected |-> TRUE, needs_recovery |-> FALSE, pending_op |-> None,
                 expected_response_type |-> "none", expected_seq |-> 0,
                 current_deadline |-> None, chain |-> <<>>, outgoing |-> 0,
                 wtx_count |-> 0, abort_drain_count |-> 0]
    /\ transfer = None
    /\ \E p \in BOOLEAN : reader = [job |-> None, fifo |-> <<>>, present |-> p, notice |-> FALSE]
    /\ now = 0 /\ started = 0 /\ events = 0
    /\ completions = [id \in 1 .. MaxOps |-> 0]
    /\ begun = NotBegun
    /\ answer = None
    /\ cut = FALSE

\* What the executor does for the operation it drives.
ExecutorStep ==
    \/ bulk_out_completes \/ bulk_out_falls_short \/ control_completes \/ bulk_in_completes
    \/ \E error \in Failures : transfer_fails(error)
    \/ deadline_expired

Next ==
    \/ \E kind \in Kinds : \E blocks \in 1 .. (IF kind = "TransferBlock" THEN MaxBlocks + 1 ELSE 1) :
          start_refused(kind, blocks) \/ start(kind, blocks)
    \/ ExecutorStep
    \/ reader_answers \/ reader_fails \/ reader_asks_for_time \/ reader_asks_for_more
    \/ interrupt_slot_change \/ interrupt_hardware_error \/ cancel \/ connection_lost
    \/ mark_deactivated \/ card_moves \/ Tick

Spec == Init /\ [][Next]_vars

-----------------------------------------------------------------------------
(* Properties. *)

Engines ==
    [card_gen : Nat, next_seq : Seqs, card_present : BOOLEAN, activated : BOOLEAN,
     connected : BOOLEAN, needs_recovery : BOOLEAN, pending_op : Operations \cup {None},
     expected_response_type : Responses \cup {"none"}, expected_seq : Seqs,
     current_deadline : Nat \cup {None}, chain : Seq(Blocks), outgoing : Nat,
     wtx_count : Nat, abort_drain_count : Nat]

TypeOK ==
    /\ engine \in Engines /\ Len(engine.chain) <= MaxResponse
    /\ engine.outgoing < MaxBlocks
    /\ engine.wtx_count <= MaxTimeExtensions + 1 /\ engine.abort_drain_count <= MaxDrain
    /\ transfer \in Transfers \cup {None}
    /\ reader \in [job : Jobs \cup {None}, fifo : Seq(Frames), present : BOOLEAN, notice : BOOLEAN]
    /\ now \in Nat /\ started \in 0 .. MaxOps /\ events \in 0 .. MaxEvents
    /\ completions \in [1 .. MaxOps -> Nat]
    /\ begun \in [gen : Nat, activated : BOOLEAN]

\* The data handed out as an operation's answer is what the reader answered to
\* that operation: all its blocks in their order and none of an operation that
\* timed out, was cancelled or was cut off before (bSeq, chain_buffer).
AnswerIsItsOwn ==
    answer # None =>
        LET n == Len(answer.blocks) IN
        \A i \in 1 .. n :
            answer.blocks[i] = [id |-> answer.id, part |-> i, last |-> i = n]

\* An answer to a command sent to a powered card comes from that card: no
\* removal or exchange was reported since the command began.
OneCardPerAnswer ==
    [][answer' # answer /\ begun.activated => answer'.gen = begun.gen]_vars

\* No operation waits for ever: one in progress, also in the middle of a chain,
\* has a USB transfer to wait for and a deadline, never further from its start
\* than the limit on time extensions and one timeout per block sent, whatever
\* the reader asks for; without one, no transfer or deadline is left over for
\* the next operation (MAX_TIME_EXTENSIONS, MAX_TIME_EXTENSION_WALL_MS).
LongestWait == WallLimit + DefaultTimeout * MaxBlocks

WaitIsBounded ==
    IF Idle THEN transfer = None /\ engine.current_deadline = None
    ELSE transfer # None /\ engine.current_deadline # None /\ engine.current_deadline <= LongestWait

=============================================================================
