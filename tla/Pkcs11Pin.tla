----------------------------- MODULE Pkcs11Pin -----------------------------
(***************************************************************************)
(* The PIN 1 of one local slot of the PKCS#11 module: C_Login verifies a    *)
(* value on the card and keeps it, each C_Sign takes it out, presents it    *)
(* to the card and settles it by the card's answer, and C_Logout, closing   *)
(* the last session, C_Finalize and a slot refresh that sees the card gone  *)
(* destroy it.  Calls run on several threads: the module lock is held only  *)
(* for the bookkeeping at the start and the end of a call, the reader's     *)
(* card lane from before the value is taken until it is settled, and the    *)
(* PC/SC transaction over the card exchanges.                               *)
(*                                                                         *)
(* Token objects, mechanisms and the slot table belong to other parts; a    *)
(* slot is here its card presence, the reader's insertion count last acted  *)
(* on, and its PIN cache.                                                   *)
(***************************************************************************)
EXTENDS Naturals, FiniteSets

CONSTANTS Threads, Cards, Pins, \* callers, cards by serial, PIN 1 values
          None,                 \* no card, no value, nobody
          MaxHandle,            \* bound: session handles handed out per C_Initialize
          MaxEpoch,             \* bound: C_Initialize calls
          Instances             \* the worlds the module is put in, see Worlds

ASSUME NoneAssumption == None \notin Threads \cup Cards \cup Pins

\* A world: who calls and which cards come, whether the build has the feature
\* "pin-change", and the bounds on card insertions and removals, on generations
\* of the PIN cache and on steps of other applications.
Worlds == [callers : SUBSET Threads, cards : SUBSET Cards, pin_change : BOOLEAN,
           events : Nat, generations : Nat, others : Nat]

ASSUME BoundAssumption ==
    /\ {MaxHandle, MaxEpoch} \subseteq Nat
    /\ Instances \subseteq Worlds

VARIABLES
    module,   \* MODULE: live, open sessions (with an active sign?), next handle, slot
    epoch,    \* C_Initialize calls so far
    cache,    \* the slot's PinSafetyCache, kept for the process's life
    lane,     \* the thread in the reader's card lane
    reader,   \* the card in the reader, its event count, the transaction's thread
    card,     \* per card: PIN 1, tries left, who left it verified
    thread,   \* per thread: the call it is in
    world,    \* what is left of the world's bounds, see Worlds
    era,      \* history: endings and logins of the slot so far, see Ended
    refused   \* history: values whose refusal by a card reached the module

vars == <<module, epoch, cache, lane, reader, card, thread, world, era, refused>>

-----------------------------------------------------------------------------
(* Retry counters. *)

RETRIES_PRISTINE == 5
RETRIES_FLOOR == 3

\* What the counter-safe probe reports: verified hides the count, zero is blocked.
PinStatus(c) == [verified |-> card[c].verified # "no", tries |-> card[c].tries]

\* Mutant: the floor serves two tries left.
check_retry_floor_Two(status) ==
    status.verified \/ status.tries \in (RETRIES_FLOOR - 1) .. RETRIES_PRISTINE

\* The counts are the ones that may still be spent: five, four or three.
check_retry_floor(status) ==
    status.verified \/ status.tries \in RETRIES_FLOOR .. RETRIES_PRISTINE

pin1_status_permits_reusable_cache(status) ==
    status.verified \/ status.tries = RETRIES_PRISTINE

-----------------------------------------------------------------------------
(* The PIN cache of the slot. *)

\* since and stay are history: the era and the card stay the card accepted the value in.
Entries == [card : Cards, events : Nat, pin : Pins, generation : Nat, held : BOOLEAN,
            open : BOOLEAN, since : Nat, stay : Nat]

next_generation(c) ==
    [c EXCEPT !.generation = @ + 1, !.outstanding = None]

clear_positive(c) ==
    [next_generation(c) EXCEPT !.positive = None]

\* Mutant: only the held value is dropped, the refusal is not remembered.
record_rejected_Forgets(c, serial, pin) == clear_positive(c)

record_rejected(c, serial, pin) ==
    [clear_positive(c) EXCEPT !.rejected = @ \cup {<<serial, pin>>}]

is_rejected(c, serial, pin) == <<serial, pin>> \in c.rejected

put_positive(c, entry) ==
    [next_generation(c) EXCEPT
        !.positive = [entry EXCEPT !.generation = c.generation + 1]]

\* Mutant: the insertion count is not compared.
usable_AnyStay(entry, serial, events, pristine) ==
    /\ entry.card = serial
    /\ pristine
    /\ entry.held \/ entry.open

\* A value is handed out for this card, this stay and a full counter only.
usable(entry, serial, events, pristine) ==
    /\ entry.card = serial
    /\ entry.events = events
    /\ pristine
    /\ entry.held \/ entry.open

\* Mutant: a value comes back although the cache was cleared while it was out.
restore_AnyGeneration(c, entry) ==
    IF entry.held /\ c.positive = None THEN [c EXCEPT !.positive = entry] ELSE c

\* Only a held value of the current generation comes back.
restore(c, entry) ==
    IF entry.held /\ c.generation = entry.generation /\ c.positive = None
    THEN [c EXCEPT !.positive = entry]
    ELSE c

\* The checkout is dropped, and with it the lease the cache watches.
drop_lease(c, t) ==
    [c EXCEPT !.outstanding = IF @ = t THEN None ELSE @]

\* An expired bridge is destroyed by the question.
holds_pin1(c) ==
    c.outstanding # None \/ (c.positive # None /\ (c.positive.held \/ c.positive.open))

asked(c) ==
    IF c.outstanding = None /\ c.positive # None /\ ~holds_pin1(c)
    THEN clear_positive(c) ELSE c

\* History.  now counts the times the cache was cleared or given a value; firm is
\* the last clearing that no accepted C_Login crossed: one whose value the card
\* has accepted and settle_login has yet to store.
Crossed == \E t \in Threads : /\ thread[t].op = "login" /\ thread[t].pc = "settle"
                             /\ thread[t].answer = "ok"

Ended == [now |-> era.now + 1, firm |-> IF Crossed THEN era.firm ELSE era.now + 1]
Stored == [era EXCEPT !.now = @ + 1]

is_logged_in == module.bound /\ holds_pin1(cache)

\* What the question leaves of the cache, and of the history.
AskLogin ==
    /\ cache' = IF module.bound THEN asked(cache) ELSE cache
    /\ era' = IF cache'.generation # cache.generation THEN Ended ELSE era

-----------------------------------------------------------------------------
Handles == 1 .. MaxHandle
Open == DOMAIN module.sessions

Idle == [op |-> "idle", pc |-> "idle", pin |-> None,
         stay |-> 0, serial |-> None, pristine |-> FALSE, events |-> 0,
         entry |-> None, answer |-> "none", since |-> 0]

Busy == {t \in Threads : thread[t].op # "idle"}

\* Every call in progress and the next one can still move the generation.
Room == cache.generation + Cardinality(Busy) < world.generations

Without(f, h) == [x \in DOMAIN f \ {h} |-> f[x]]

NoModule == [live |-> FALSE, sessions |-> [h \in {} |-> FALSE], next |-> 1,
             known |-> FALSE, present |-> FALSE, seen |-> 0, bound |-> FALSE]

\* The card of a live handle: the one the transaction was begun on.
Alive(t) == reader.card # None /\ thread[t].stay = reader.events

\* No transaction holds the card that is now in the reader.
CardFree == IF reader.txn = None THEN TRUE ELSE ~Alive(reader.txn)

Goto(t, pc) == thread' = [thread EXCEPT ![t].pc = pc]

Init ==
    /\ module = NoModule
    /\ epoch = 0
    /\ cache = [positive |-> None, outstanding |-> None, generation |-> 0, rejected |-> {}]
    /\ lane = None
    /\ world \in Instances
    /\ \E c \in world.cards : reader = [card |-> c, events |-> 1, txn |-> None]
    /\ card \in [Cards -> {[pin |-> p, tries |-> RETRIES_PRISTINE, verified |-> "no"] : p \in Pins}]
    /\ thread = [t \in Threads |-> Idle]
    /\ era = [now |-> 0, firm |-> 0]
    /\ refused = {}

-----------------------------------------------------------------------------
(* Calls that finish under the module lock. *)

\* The slot's PIN 1 and login are dropped.
Logout == /\ cache' = IF module.bound THEN clear_positive(cache) ELSE cache
          /\ era' = IF module.bound THEN Ended ELSE era

\* What one slot-table refresh does to the slot m for the reader as it stands.
\* A busy reader proves nothing, a card that does not answer as FINEID counts as
\* absent, and one that is there is raised only with its objects read.
\* Each element is the slot after it and whether the PIN cache was cleared.
refresh_slots_with(m) ==
    LET gone == m.known /\ m.seen # reader.events /\ m.present
        was == m.present /\ ~gone
        seen == [m EXCEPT !.seen = reader.events, !.present = was]
        raised == [seen EXCEPT !.present = TRUE, !.known = TRUE]
    IN  {<<m, FALSE>>}
        \cup (IF m.known THEN {<<[seen EXCEPT !.present = FALSE], gone \/ was>>} ELSE {})
        \cup (IF reader.card = None THEN {}
              ELSE {IF was THEN <<seen, FALSE>> ELSE <<raised, m.known>>})

\* C_GetSlotList and C_WaitForSlotEvent begin with a refresh.  When the
\* readers cannot be listed every held value goes.
c_get_slot_list ==
    /\ module.live /\ Room
    /\ \/ Logout /\ UNCHANGED module
       \/ \E r \in refresh_slots_with(module) :
            /\ module' = r[1]
            /\ IF r[2] THEN Logout ELSE UNCHANGED <<cache, era>>
    /\ UNCHANGED <<epoch, lane, reader, card, thread, world, refused>>

c_initialize ==
    /\ ~module.live /\ epoch < MaxEpoch
    /\ \E r \in refresh_slots_with([NoModule EXCEPT !.live = TRUE]) : module' = r[1]
    /\ epoch' = epoch + 1
    /\ UNCHANGED <<cache, lane, reader, card, thread, world, era, refused>>

c_finalize ==
    /\ module.live /\ Room
    /\ Logout
    /\ module' = NoModule
    /\ UNCHANGED <<epoch, lane, reader, card, thread, world, refused>>

c_open_session ==
    /\ module.live /\ module.present
    /\ module.next \in Handles
    /\ module' = [module EXCEPT !.next = @ + 1,
                                !.sessions = [h \in Open \cup {module.next} |->
                                                  h \in Open /\ module.sessions[h]]]
    /\ UNCHANGED <<epoch, cache, lane, reader, card, thread, world, era, refused>>

\* Closing the last session of the slot ends its login.
c_close_session(h) ==
    /\ module.live /\ h \in Open /\ Room
    /\ module' = [module EXCEPT !.sessions = Without(@, h)]
    /\ IF Open = {h} THEN Logout ELSE UNCHANGED <<cache, era>>
    /\ UNCHANGED <<epoch, lane, reader, card, thread, world, refused>>

c_close_all_sessions ==
    /\ module.live /\ module.known /\ Room
    /\ module' = [module EXCEPT !.sessions = NoModule.sessions]
    /\ Logout
    /\ UNCHANGED <<epoch, lane, reader, card, thread, world, refused>>

c_logout(h) ==
    /\ module.live /\ h \in Open /\ Room
    /\ IF is_logged_in THEN Logout ELSE AskLogin
    /\ UNCHANGED <<module, epoch, lane, reader, card, thread, world, refused>>

c_get_session_info(h) ==
    /\ module.live /\ h \in Open /\ Room
    /\ AskLogin
    /\ UNCHANGED <<module, epoch, lane, reader, card, thread, world, refused>>

\* The token's objects must be readable; a second init is refused.
c_sign_init(h) ==
    /\ module.live /\ h \in Open /\ ~module.sessions[h]
    /\ module' = [module EXCEPT !.sessions[h] = TRUE]
    /\ UNCHANGED <<epoch, cache, lane, reader, card, thread, world, era, refused>>

-----------------------------------------------------------------------------
(* Calls that leave the module lock for the card. *)

c_login(t, h, p) ==
    /\ thread[t].op = "idle" /\ module.live /\ h \in Open /\ Room
    /\ AskLogin
    /\ IF is_logged_in
       THEN UNCHANGED <<module, thread>>
       ELSE /\ module' = [module EXCEPT !.bound = TRUE]
            /\ thread' = [thread EXCEPT ![t] =
                  [Idle EXCEPT !.op = "login", !.pc = "lane", !.pin = p]]
    /\ UNCHANGED <<epoch, lane, reader, card, world, refused>>

\* The sign operation ends here, before the card is asked.
c_sign(t, h) ==
    /\ thread[t].op = "idle" /\ module.live /\ h \in Open /\ Room
    /\ module.sessions[h]
    /\ module' = [module EXCEPT !.bound = TRUE, !.sessions[h] = FALSE]
    /\ thread' = [thread EXCEPT ![t] =
          [Idle EXCEPT !.op = "sign", !.pc = "lane"]]
    /\ UNCHANGED <<epoch, cache, lane, reader, card, world, era, refused>>

\* C_SetPIN drops the login first, then changes PIN 1 without the lane.
c_set_pin(t, h, p) ==
    /\ world.pin_change
    /\ thread[t].op = "idle" /\ module.live /\ h \in Open /\ Room
    /\ Logout
    /\ thread' = [thread EXCEPT ![t] =
          [Idle EXCEPT !.op = "change", !.pc = "open", !.pin = p]]
    /\ UNCHANGED <<module, epoch, lane, reader, card, world, refused>>

-----------------------------------------------------------------------------
(* The steps of a call on the card. *)

card_lane(t) ==
    /\ thread[t].pc = "lane" /\ lane = None
    /\ lane' = t
    /\ Goto(t, "open")
    /\ UNCHANGED <<module, epoch, cache, reader, card, world, era, refused>>

\* Mutant: an early return keeps the lane.
Leave_KeepsLane(t) ==
    /\ thread' = [thread EXCEPT ![t] = Idle]
    /\ UNCHANGED lane

\* The call is over and its turn in the lane with it.
Leave(t) ==
    /\ thread' = [thread EXCEPT ![t] = Idle]
    /\ lane' = IF lane = t THEN None ELSE lane

\* Connect and begin the transaction, or fail.
open_session(t) ==
    /\ thread[t].pc = "open"
    /\ \/ /\ reader.card # None /\ CardFree
          /\ reader' = [reader EXCEPT !.txn = t]
          /\ thread' = [thread EXCEPT ![t].pc = "probe", ![t].stay = reader.events]
          /\ UNCHANGED lane
       \/ Leave(t) /\ UNCHANGED reader
    /\ UNCHANGED <<module, epoch, cache, card, world, era, refused>>

\* SELECT, the serial and the retry state of the card, and the floor.  A
\* failed read or a refused floor destroys a held value; a failed SELECT
\* and a PIN change do not.
probe(t) ==
    /\ thread[t].pc = "probe"
    /\ \/ /\ Alive(t) /\ check_retry_floor(PinStatus(reader.card))
          /\ thread' = [thread EXCEPT
                ![t].pc = IF thread[t].op = "change" THEN "verify" ELSE "events",
                ![t].serial = reader.card,
                ![t].pristine = pin1_status_permits_reusable_cache(PinStatus(reader.card))]
          /\ UNCHANGED <<cache, era>>
       \/ /\ Goto(t, "end")
          /\ UNCHANGED <<cache, era>>
       \/ /\ Goto(t, "end")
          /\ thread[t].op # "change"
          /\ cache' = clear_positive(cache)
          /\ era' = Ended
    /\ UNCHANGED <<module, epoch, lane, reader, card, world, refused>>

\* The insertion count, read while the transaction holds the card.
card_events(t) ==
    /\ thread[t].pc = "events"
    /\ \/ /\ thread' = [thread EXCEPT ![t].pc = "take", ![t].events = reader.events]
          /\ UNCHANGED <<cache, era>>
       \/ /\ Goto(t, "end")
          /\ IF thread[t].op = "sign"
             THEN cache' = clear_positive(cache) /\ era' = Ended
             ELSE UNCHANGED <<cache, era>>
    /\ UNCHANGED <<module, epoch, lane, reader, card, world, refused>>

\* A signature takes the value out, whatever comes of it.
checkout_pin1(t) ==
    LET entry == cache.positive
        me == thread[t]
        good == entry # None /\ usable(entry, me.serial, me.events, me.pristine)
    IN
    /\ me.pc = "take" /\ me.op = "sign"
    /\ cache' = [cache EXCEPT !.positive = None,
                              !.outstanding = IF good THEN t ELSE @]
    /\ thread' = [thread EXCEPT ![t].pc = IF good THEN "verify" ELSE "end",
                                ![t].entry = IF good THEN entry ELSE None,
                                ![t].pin = IF good THEN entry.pin ELSE None]
    /\ UNCHANGED <<module, epoch, lane, reader, card, world, era, refused>>

\* A login asks the rejection memory before it spends a try.
check_rejected(t) ==
    /\ thread[t].pc = "take" /\ thread[t].op = "login"
    /\ Goto(t, IF is_rejected(cache, thread[t].serial, thread[t].pin) THEN "end" ELSE "verify")
    /\ UNCHANGED <<module, epoch, cache, lane, reader, card, world, era, refused>>

\* The card compares a value: a match fills the counter, a mismatch spends a try.
present_pin(c, p) ==
    IF card[c].pin = p
    THEN [card[c] EXCEPT !.tries = RETRIES_PRISTINE, !.verified = "module"]
    ELSE [card[c] EXCEPT !.tries = @ - 1, !.verified = "no"]

Matches(t) == card[reader.card].pin = thread[t].pin

\* The VERIFY (or CHANGE REFERENCE DATA) goes out once.  The answer can be lost
\* with or without the card having acted, and a card that is gone can show as
\* gone or as no answer.
verify_pin1(t) ==
    /\ thread[t].pc = "verify"
    /\ \/ /\ Alive(t) /\ thread[t].op # "change"
          /\ card' = [card EXCEPT ![reader.card] = present_pin(reader.card, thread[t].pin)]
          /\ \E a \in {IF Matches(t) THEN "ok" ELSE "wrong", "unanswered"} :
                thread' = [thread EXCEPT ![t].pc = "settle", ![t].answer = a, ![t].since = era.now]
       \/ /\ Alive(t) /\ thread[t].op = "change"
          /\ \E q \in Pins :
                card' = [card EXCEPT ![reader.card] =
                    IF Matches(t) THEN [pin |-> q, tries |-> RETRIES_PRISTINE, verified |-> "no"]
                    ELSE present_pin(reader.card, thread[t].pin)]
          /\ Goto(t, "end")
       \/ /\ \E a \in {"unanswered", "other"} \cup (IF Alive(t) THEN {} ELSE {"left"}) :
                thread' = [thread EXCEPT ![t].pc = IF thread[t].op = "change" THEN "end" ELSE "settle",
                                         ![t].answer = a]
          /\ UNCHANGED card
    /\ UNCHANGED <<module, epoch, cache, lane, reader, world, era, refused>>

\* An accepted login value is held under a full counter, else staged for one use.
settle_login(t) ==
    LET me == thread[t]
        entry == [card |-> me.serial, events |-> me.events, pin |-> me.pin, generation |-> 0,
                  held |-> me.pristine, open |-> TRUE, since |-> me.since, stay |-> me.stay]
    IN
    /\ me.pc = "settle" /\ me.op = "login"
    /\ \/ /\ me.answer = "ok" /\ ~is_rejected(cache, me.serial, me.pin)
          /\ cache' = put_positive(cache, entry)
          /\ era' = Stored
          /\ UNCHANGED refused
       \/ /\ me.answer = "wrong"
          /\ cache' = record_rejected(cache, me.serial, me.pin)
          /\ era' = Ended
          /\ refused' = refused \cup {<<me.serial, me.pin>>}
       \/ /\ me.answer \notin {"ok", "wrong"} \/ (me.answer = "ok" /\ is_rejected(cache, me.serial, me.pin))
          /\ UNCHANGED <<cache, era, refused>>
    /\ Goto(t, "end")
    /\ UNCHANGED <<module, epoch, lane, reader, card, world>>

\* A taken value goes on to the signature it authorises, comes back when the
\* VERIFY went unanswered, or is destroyed.
settle_verify(t) ==
    LET me == thread[t] IN
    /\ me.pc = "settle" /\ me.op = "sign"
    /\ \/ /\ me.answer = "ok"
          /\ Goto(t, "operate")
          /\ UNCHANGED <<cache, era, refused>>
       \/ /\ me.answer = "wrong"
          /\ cache' = record_rejected(cache, me.serial, me.pin)
          /\ era' = Ended
          /\ refused' = refused \cup {<<me.serial, me.pin>>}
          /\ thread' = [thread EXCEPT ![t].pc = "end", ![t].entry = None]
       \/ /\ me.answer \in {"unanswered", "other", "left"}
          /\ cache' = drop_lease(IF me.answer = "unanswered" THEN restore(cache, me.entry) ELSE cache, t)
          /\ thread' = [thread EXCEPT ![t].pc = "end", ![t].entry = None]
          /\ UNCHANGED <<era, refused>>
    /\ UNCHANGED <<module, epoch, lane, reader, card, world>>

\* The signature; the card drops its verification with it.
sign_with_card(t) ==
    /\ thread[t].pc = "operate"
    /\ \E a \in {"unanswered", "other"} \cup (IF Alive(t) THEN {"ok"} ELSE {"left"}) :
          /\ thread' = [thread EXCEPT ![t].pc = "finish", ![t].answer = a]
          /\ IF Alive(t) /\ a = "ok" THEN card' = [card EXCEPT ![reader.card].verified = "no"]
             ELSE UNCHANGED card
    /\ UNCHANGED <<module, epoch, cache, lane, reader, world, era, refused>>

\* An accepted value comes back unless the card left.
settle_operation(t) ==
    LET me == thread[t] IN
    /\ me.pc = "finish"
    /\ cache' = drop_lease(IF me.answer = "left" THEN cache ELSE restore(cache, me.entry), t)
    /\ thread' = [thread EXCEPT ![t].pc = "end", ![t].entry = None]
    /\ UNCHANGED <<module, epoch, lane, reader, card, world, era, refused>>

\* The transaction ends with a card reset, and the lane with the call.
pin_sequence_end(t) ==
    /\ thread[t].pc = "end"
    /\ card' = IF Alive(t) THEN [card EXCEPT ![reader.card].verified = "no"] ELSE card
    /\ reader' = [reader EXCEPT !.txn = IF @ = t THEN None ELSE @]
    /\ lane' = IF lane = t THEN None ELSE lane
    /\ thread' = [thread EXCEPT ![t] = Idle]
    /\ UNCHANGED <<module, epoch, cache, world, era, refused>>

-----------------------------------------------------------------------------
(* The world around the module. *)

remove_card ==
    /\ reader.card # None /\ reader.events < world.events
    /\ card' = [card EXCEPT ![reader.card].verified = "no"]
    /\ reader' = [reader EXCEPT !.card = None, !.events = @ + 1]
    /\ UNCHANGED <<module, epoch, cache, lane, thread, world, era, refused>>

insert_card(c) ==
    /\ reader.card = None /\ reader.events < world.events
    /\ reader' = [reader EXCEPT !.card = c, !.events = @ + 1]
    /\ UNCHANGED <<module, epoch, cache, lane, card, thread, world, era, refused>>

\* Another application presents PIN 1, rightly or not, or changes it.
other_application ==
    /\ reader.card # None /\ CardFree /\ world.others > 0
    /\ world' = [world EXCEPT !.others = @ - 1]
    /\ LET was == card[reader.card]
           right == [was EXCEPT !.tries = RETRIES_PRISTINE, !.verified = "other"]
           wrong == [was EXCEPT !.tries = IF @ = 0 THEN 0 ELSE @ - 1, !.verified = "no"]
           changed == {[pin |-> q, tries |-> RETRIES_PRISTINE, verified |-> "no"] : q \in Pins}
       IN \E new \in {right, wrong} \cup changed : card' = [card EXCEPT ![reader.card] = new]
    /\ UNCHANGED <<module, epoch, cache, lane, reader, thread, era, refused>>

\* The 30 seconds of a login bridge pass.
bridge_runs_out ==
    /\ cache.positive # None
    /\ ~cache.positive.held /\ cache.positive.open
    /\ cache' = [cache EXCEPT !.positive.open = FALSE]
    /\ UNCHANGED <<module, epoch, lane, reader, card, thread, world, era, refused>>

-----------------------------------------------------------------------------
CardStep(t) ==
    \/ card_lane(t) \/ open_session(t) \/ probe(t) \/ card_events(t)
    \/ checkout_pin1(t) \/ check_rejected(t) \/ verify_pin1(t)
    \/ settle_login(t) \/ settle_verify(t) \/ sign_with_card(t) \/ settle_operation(t)
    \/ pin_sequence_end(t)

Next ==
    \/ c_initialize \/ c_finalize \/ c_get_slot_list
    \/ c_open_session \/ c_close_all_sessions
    \/ \E h \in Handles : c_close_session(h) \/ c_logout(h) \/ c_get_session_info(h) \/ c_sign_init(h)
    \/ \E t \in world.callers, h \in Handles :
          c_sign(t, h) \/ \E p \in Pins : c_login(t, h, p) \/ c_set_pin(t, h, p)
    \/ \E t \in Threads : CardStep(t)
    \/ remove_card \/ (\E c \in world.cards : insert_card(c)) \/ other_application
    \/ bridge_runs_out

Spec == Init /\ [][Next]_vars

\* A call that reached the card goes on: the steps are the thread's own.
FairSpec == Spec /\ \A t \in Threads : WF_vars(CardStep(t))

-----------------------------------------------------------------------------
(* Properties. *)

\* A call: what it is, its step, and what it has learnt of the card.
Operations == {"idle", "login", "sign", "change"}
Steps == {"idle", "lane", "open", "probe", "events", "take", "verify", "settle",
          "operate", "finish", "end"}
Answers == {"none", "ok", "wrong", "unanswered", "other", "left"}
Calls == [op : Operations, pc : Steps, pin : Pins \cup {None}, stay : Nat,
          serial : Cards \cup {None}, pristine : BOOLEAN, events : Nat,
          entry : Entries \cup {None}, answer : Answers, since : Nat]

TypeOK ==
    /\ module \in [live : BOOLEAN, sessions : UNION {[S -> BOOLEAN] : S \in SUBSET Handles},
                   next : Nat, known : BOOLEAN, present : BOOLEAN, seen : Nat, bound : BOOLEAN]
    /\ epoch \in Nat /\ world \in Worlds /\ era \in [now : Nat, firm : Nat]
    /\ cache \in [positive : Entries \cup {None}, outstanding : Threads \cup {None},
                  generation : Nat, rejected : SUBSET (Cards \X Pins)]
    /\ lane \in Threads \cup {None}
    /\ reader \in [card : Cards \cup {None}, events : Nat, txn : Threads \cup {None}]
    /\ card \in [Cards -> [pin : Pins, tries : 0 .. RETRIES_PRISTINE,
                           verified : {"no", "module", "other"}]]
    /\ thread \in [Threads -> Calls]
    /\ refused \subseteq Cards \X Pins

\* Whether thread t presents a PIN to the card in this step.
Presents(t) == thread[t].pc = "verify" /\ thread'[t].pc # "verify" /\ card' # card

\* A value a card refused, and whose refusal arrived, is not presented to that
\* card again in the life of the process, by a login or a signature.
RejectedNotPresentedAgain ==
    [][\A t \in Threads : Presents(t) /\ thread[t].op # "change" =>
          <<reader.card, thread[t].pin>> \notin refused]_vars

\* A login that ended does not come back, also when a signature had its value out
\* at that moment: what the slot holds was accepted by a card after the last
\* logout, closing, removal or rejection (clear_positive, restore).  The one
\* ending that does not bind is one that crosses a C_Login between the card's
\* acceptance and settle_login, which stores what it has without looking.
EndedLoginStaysEnded ==
    cache.positive # None => cache.positive.since >= era.firm

\* "When a slot loses its last session, its PIN1 login is dropped" (state.rs
\* close_session): a slot without a session holds no PIN 1.
LoginEndsWithSessions ==
    module.live /\ Open = {} => cache.positive = None

\* A signature presents a held value only to the card that accepted it, in the
\* same stay in the reader.
PresentedInTheSameStay ==
    [][\A t \in Threads : Presents(t) /\ thread[t].op = "sign" =>
          /\ thread[t].entry.card = reader.card
          /\ thread[t].entry.stay = reader.events]_vars

\* No call of the module spends one of the last two tries of a card.
LastTriesNotSpent ==
    [][\A t \in Threads, c \in Cards :
          Presents(t) /\ card'[c].tries < card[c].tries => card[c].tries > 2]_vars

\* No call keeps the reader's card lane: whatever the card, the reader and the
\* other callers do, the operation in the lane settles its value and leaves.
LaneIsReleased == \A t \in Threads : lane = t ~> lane # t

=============================================================================
