-------------------------- MODULE Pkcs11Pin_proof --------------------------
(***************************************************************************)
(* Proofs about Pkcs11Pin for every set of callers, cards and PIN values,   *)
(* every world and every bound: what the slot holds belongs to the login    *)
(* that is not over, a refused value is not presented again, a value goes   *)
(* only to the card stay that accepted it, and no call of the module spends *)
(* one of a card's last two tries.                                          *)
(*                                                                         *)
(* None of the four is inductive.  They rest on what the code's two locks   *)
(* give: the card lane keeps the rejection memory still between a call's    *)
(* look at it and the VERIFY (LaneInv), and the transaction keeps the card  *)
(* and its counter still between the probe and the VERIFY (StayInv).        *)
(* That an ended login stays ended needs more (EraInv): an entry out with a  *)
(* call is of the current generation only while no ending came after it.    *)
(***************************************************************************)
EXTENDS Pkcs11Pin, TLAPS

-----------------------------------------------------------------------------
(* The invariant. *)

\* A call past the connect, past the probe, and past the insertion count.
Connected == {"probe", "events", "take", "verify", "settle", "operate", "finish", "end"}
Probed == {"events", "take", "verify", "settle", "operate", "finish"}
Counted == {"take", "verify", "settle", "operate", "finish"}
Taken == {"verify", "settle", "operate", "finish"}

\* What the call's step says of the call, and what it knows there.
CallOf(t) ==
    /\ thread[t].op = "idle" <=> thread[t].pc = "idle"
    /\ thread[t].pc \in {"lane", "events", "take", "settle"} => thread[t].op \in {"login", "sign"}
    /\ thread[t].pc \in {"operate", "finish"} => thread[t].op = "sign"
    /\ thread[t].op \in {"login", "change"} => thread[t].pin \in Pins
    /\ thread[t].pc \in Probed => thread[t].serial \in Cards

\* A login or a signature that reached the reader has the lane.
LaneOf(t) ==
    thread[t].op \in {"login", "sign"} /\ thread[t].pc \in Connected \cup {"open"} => lane = t

\* While the card the call connected to stays, the transaction is the call's,
\* the card is the one it probed, and the counter is above the floor.
StayOf(t) ==
    /\ thread[t].pc \in Connected => thread[t].stay <= reader.events
    /\ thread[t].pc \in Connected /\ Alive(t) => reader.txn = t
    /\ thread[t].pc \in Probed /\ Alive(t) => thread[t].serial = reader.card
    /\ thread[t].pc \in {"events", "take", "verify"} /\ Alive(t) =>
          card[reader.card].tries >= RETRIES_FLOOR

\* The insertion count was read after the connect, and an accepted login saw
\* no insertion between the two.
CountOf(t) ==
    /\ thread[t].pc \in Counted /\ thread[t].op # "change" =>
          thread[t].stay <= thread[t].events /\ thread[t].events <= reader.events
    /\ thread[t].op = "login" /\ thread[t].pc = "settle" /\ thread[t].answer = "ok" =>
          thread[t].events = thread[t].stay

\* An accepted value: of one stay, and refused by no card.
Good(e) ==
    /\ e.events = e.stay
    /\ <<e.card, e.pin>> \notin cache.rejected

\* The value a signature has taken out is the one it presents, and a login
\* that is about to present one has seen that it was not refused.
EntryOf(t) ==
    /\ thread[t].entry # None =>
          /\ Good(thread[t].entry)
          /\ thread[t].op = "sign" /\ thread[t].pc \in Taken
    /\ thread[t].op = "sign" /\ thread[t].pc \in Taken =>
          /\ thread[t].entry # None
          /\ thread[t].entry.card = thread[t].serial
          /\ thread[t].entry.events = thread[t].events
          /\ thread[t].entry.pin = thread[t].pin
    /\ thread[t].op = "login" /\ thread[t].pc = "verify" =>
          <<thread[t].serial, thread[t].pin>> \notin cache.rejected

ThreadInv(t) == CallOf(t) /\ LaneOf(t) /\ StayOf(t) /\ CountOf(t) /\ EntryOf(t)

\* The value the slot holds, and the history that follows the cache.
SlotInv ==
    /\ cache.positive # None => Good(cache.positive)
    /\ era.now = cache.generation
    /\ refused = cache.rejected

\* A verified card has all its tries.
CardInv == \A c \in Cards : card[c].verified # "no" => card[c].tries = RETRIES_PRISTINE

IInv == TypeOK /\ (\A t \in Threads : ThreadInv(t)) /\ SlotInv /\ CardInv

-----------------------------------------------------------------------------
(* Types. *)

Modules == [live : BOOLEAN, sessions : UNION {[S -> BOOLEAN] : S \in SUBSET Handles},
            next : Nat, known : BOOLEAN, present : BOOLEAN, seen : Nat, bound : BOOLEAN]
Caches == [positive : Entries \cup {None}, outstanding : Threads \cup {None},
           generation : Nat, rejected : SUBSET (Cards \X Pins)]
Readers == [card : Cards \cup {None}, events : Nat, txn : Threads \cup {None}]
CardStates == [pin : Pins, tries : 0 .. RETRIES_PRISTINE, verified : {"no", "module", "other"}]
Eras == [now : Nat, firm : Nat]

\* The type invariant over the named sets of this module.
LEMMA TypeIs ==
    TypeOK <=>
        /\ module \in Modules /\ epoch \in Nat /\ world \in Worlds /\ era \in Eras
        /\ cache \in Caches /\ lane \in Threads \cup {None} /\ reader \in Readers
        /\ card \in [Cards -> CardStates] /\ thread \in [Threads -> Calls]
        /\ refused \subseteq Cards \X Pins
  BY DEF TypeOK, Modules, Caches, Readers, CardStates, Eras

\* next_generation counts one up and touches nothing else.
LEMMA NextType ==
    ASSUME NEW c \in Caches
    PROVE  /\ next_generation(c) \in Caches
           /\ next_generation(c).positive = c.positive
           /\ next_generation(c).generation = c.generation + 1
           /\ next_generation(c).rejected = c.rejected
  <1>1. c.generation + 1 \in Nat
    BY DEF Caches
  <1>2. QED
    BY <1>1, Zenon DEF Caches, next_generation

\* clear_positive empties the slot and starts a generation.
LEMMA ClearType ==
    ASSUME NEW c \in Caches
    PROVE  /\ clear_positive(c) \in Caches
           /\ clear_positive(c).positive = None
           /\ clear_positive(c).generation = c.generation + 1
           /\ clear_positive(c).rejected = c.rejected
  BY NextType DEF Caches, clear_positive

\* record_rejected empties the slot, starts a generation and remembers the value.
LEMMA RejectType ==
    ASSUME NEW c \in Caches, NEW serial \in Cards, NEW p \in Pins
    PROVE  /\ record_rejected(c, serial, p) \in Caches
           /\ record_rejected(c, serial, p).positive = None
           /\ record_rejected(c, serial, p).generation = c.generation + 1
           /\ record_rejected(c, serial, p).rejected = c.rejected \cup {<<serial, p>>}
  <1>1. clear_positive(c) \in Caches
    BY ClearType
  <1>2. QED
    BY <1>1, ClearType DEF Caches, record_rejected

\* An ending counts the era up, and so does a stored value.
LEMMA EraType ==
    ASSUME era \in Eras
    PROVE  /\ Ended \in Eras /\ Ended.now = era.now + 1
           /\ Stored \in Eras /\ Stored.now = era.now + 1
  BY DEF Eras, Ended, Stored

\* A refused value leaves a slot that holds none, in an era of its own.
LEMMA RejectKeeps ==
    ASSUME TypeOK, SlotInv, NEW serial \in Cards, NEW pin \in Pins,
           cache' = record_rejected(cache, serial, pin), era' = Ended,
           refused' = refused \cup {<<serial, pin>>}
    PROVE  SlotInv' /\ cache' \in Caches /\ era' \in Eras /\ refused' \subseteq Cards \X Pins
  <1>1. cache \in Caches /\ era \in Eras /\ refused \subseteq Cards \X Pins
    BY TypeIs, Zenon
  <1>2. /\ cache' \in Caches /\ cache'.positive = None /\ cache'.generation = cache.generation + 1
        /\ cache'.rejected = cache.rejected \cup {<<serial, pin>>}
    BY <1>1, RejectType, ZenonT(60)
  <1>3. SlotInv'
    BY <1>1, <1>2, EraType, Zenon DEF SlotInv
  <1>4. era' \in Eras /\ refused' \subseteq Cards \X Pins
    BY <1>1, EraType
  <1>5. QED
    BY <1>2, <1>3, <1>4, Zenon

\* The value an accepted login hands to the slot.
LEMMA EntryType ==
    ASSUME NEW c \in Calls, c.serial \in Cards, c.pin \in Pins
    PROVE  [card |-> c.serial, events |-> c.events, pin |-> c.pin, generation |-> 0,
            held |-> c.pristine, open |-> TRUE, since |-> c.since, stay |-> c.stay] \in Entries
  BY DEF Entries, Calls

\* put_positive holds the value under a generation of its own.
LEMMA PutType ==
    ASSUME NEW c \in Caches, NEW e \in Entries
    PROVE  LET put == put_positive(c, e)
           IN  /\ put \in Caches
               /\ put.positive = [e EXCEPT !.generation = c.generation + 1]
               /\ put.positive \in Entries
               /\ put.generation = c.generation + 1
               /\ put.rejected = c.rejected
  <1>1. [e EXCEPT !.generation = c.generation + 1] \in Entries
    BY DEF Caches, Entries
  <1>2. next_generation(c) \in Caches
    BY NextType
  <1>3. QED
    BY <1>1, <1>2, NextType DEF Caches, put_positive

\* restore puts a value back only into the generation it was taken from.
LEMMA RestoreType ==
    ASSUME NEW c \in Caches, NEW e \in Entries
    PROVE  LET back == restore(c, e)
           IN  /\ back \in Caches
               /\ back.positive = c.positive \/ (back.positive = e /\ e.generation = c.generation)
               /\ back.generation = c.generation
               /\ back.rejected = c.rejected
  BY DEF Caches, restore

\* Dropping a lease leaves slot, generation and rejections.
LEMMA DropType ==
    ASSUME NEW c \in Caches, NEW t \in Threads
    PROVE  LET left == drop_lease(c, t)
           IN  /\ left \in Caches
               /\ left.positive = c.positive
               /\ left.generation = c.generation
               /\ left.rejected = c.rejected
  BY DEF Caches, drop_lease

\* The steps of a call that the proofs name.
LEMMA StepNames ==
    /\ "take" \in Steps /\ "verify" \in Steps /\ "settle" \in Steps /\ "operate" \in Steps
    /\ "finish" \in Steps /\ "end" \in Steps
  BY DEF Steps

\* The answers a call can have got.
LEMMA AnswerNames ==
    /\ "ok" \in Answers /\ "wrong" \in Answers /\ "unanswered" \in Answers
    /\ "other" \in Answers /\ "left" \in Answers
  BY DEF Answers

\* The call went on.
At(c, pc) == [c EXCEPT !.pc = pc]

\* At moves a call to a step.
LEMMA AtType ==
    ASSUME NEW c \in Calls, NEW pc \in Steps
    PROVE  /\ At(c, pc) \in Calls
           /\ At(c, pc).op = c.op /\ At(c, pc).pc = pc
           /\ At(c, pc).pin = c.pin /\ At(c, pc).stay = c.stay
           /\ At(c, pc).serial = c.serial /\ At(c, pc).pristine = c.pristine
           /\ At(c, pc).events = c.events /\ At(c, pc).entry = c.entry
           /\ At(c, pc).answer = c.answer
  BY DEF At, Calls

\* The card answered.
Told(c, pc, a) == [c EXCEPT !.pc = pc, !.answer = a]

\* Told moves a call to a step with the card's answer.
LEMMA ToldType ==
    ASSUME NEW c \in Calls, NEW pc \in Steps, NEW a \in Answers
    PROVE  /\ Told(c, pc, a) \in Calls
           /\ Told(c, pc, a).op = c.op /\ Told(c, pc, a).pc = pc
           /\ Told(c, pc, a).pin = c.pin /\ Told(c, pc, a).stay = c.stay
           /\ Told(c, pc, a).serial = c.serial /\ Told(c, pc, a).pristine = c.pristine
           /\ Told(c, pc, a).events = c.events /\ Told(c, pc, a).entry = c.entry
           /\ Told(c, pc, a).answer = a
  <1>1. [c EXCEPT !.pc = pc] \in Calls
    BY DEF Calls
  <1>2. QED
    BY <1>1, Zenon DEF Told, Calls

\* The card compared a value, and the call knows when.
Compared(c, pc, a, n) == [c EXCEPT !.pc = pc, !.answer = a, !.since = n]

\* Compared moves a call to a step with the card's answer and its era.
LEMMA ComparedType ==
    ASSUME NEW c \in Calls, NEW pc \in Steps, NEW a \in Answers, NEW n \in Nat
    PROVE  /\ Compared(c, pc, a, n) \in Calls
           /\ Compared(c, pc, a, n).op = c.op /\ Compared(c, pc, a, n).pc = pc
           /\ Compared(c, pc, a, n).pin = c.pin /\ Compared(c, pc, a, n).stay = c.stay
           /\ Compared(c, pc, a, n).serial = c.serial /\ Compared(c, pc, a, n).pristine = c.pristine
           /\ Compared(c, pc, a, n).events = c.events /\ Compared(c, pc, a, n).entry = c.entry
           /\ Compared(c, pc, a, n).answer = a /\ Compared(c, pc, a, n).since = n
  <1>1. [c EXCEPT !.pc = pc] \in Calls
    BY DEF Calls
  <1>2. [c EXCEPT !.pc = pc, !.answer = a] \in Calls
    BY <1>1, Zenon DEF Calls
  <1>3. QED
    BY <1>2, Zenon DEF Compared, Calls

\* The insertion count was read.
CountRead(c, pc, n) == [c EXCEPT !.pc = pc, !.events = n]

\* CountRead moves a call to a step with the insertion count it read.
LEMMA CountReadType ==
    ASSUME NEW c \in Calls, NEW pc \in Steps, NEW n \in Nat
    PROVE  /\ CountRead(c, pc, n) \in Calls
           /\ CountRead(c, pc, n).op = c.op /\ CountRead(c, pc, n).pc = pc
           /\ CountRead(c, pc, n).pin = c.pin /\ CountRead(c, pc, n).stay = c.stay
           /\ CountRead(c, pc, n).serial = c.serial /\ CountRead(c, pc, n).pristine = c.pristine
           /\ CountRead(c, pc, n).events = n /\ CountRead(c, pc, n).entry = c.entry
           /\ CountRead(c, pc, n).answer = c.answer
  <1>1. [c EXCEPT !.pc = pc] \in Calls
    BY DEF Calls
  <1>2. QED
    BY <1>1, Zenon DEF CountRead, Calls

\* The value taken out was settled.
Settled(c, pc, e) == [c EXCEPT !.pc = pc, !.entry = e]

\* Settled moves a call to a step with the entry it still holds.
LEMMA SettledType ==
    ASSUME NEW c \in Calls, NEW pc \in Steps, NEW e \in Entries \cup {None}
    PROVE  /\ Settled(c, pc, e) \in Calls
           /\ Settled(c, pc, e).op = c.op /\ Settled(c, pc, e).pc = pc
           /\ Settled(c, pc, e).pin = c.pin /\ Settled(c, pc, e).stay = c.stay
           /\ Settled(c, pc, e).serial = c.serial /\ Settled(c, pc, e).pristine = c.pristine
           /\ Settled(c, pc, e).events = c.events /\ Settled(c, pc, e).entry = e
           /\ Settled(c, pc, e).answer = c.answer
  <1>1. [c EXCEPT !.pc = pc] \in Calls
    BY DEF Calls
  <1>2. QED
    BY <1>1, Zenon DEF Settled, Calls

\* The card was probed.
CardRead(c, pc, s, b) == [c EXCEPT !.pc = pc, !.serial = s, !.pristine = b]

\* CardRead moves a call to a step with the serial it read.
LEMMA CardReadType ==
    ASSUME NEW c \in Calls, NEW pc \in Steps, NEW s \in Cards \cup {None}, NEW b \in BOOLEAN
    PROVE  /\ CardRead(c, pc, s, b) \in Calls
           /\ CardRead(c, pc, s, b).op = c.op /\ CardRead(c, pc, s, b).pc = pc
           /\ CardRead(c, pc, s, b).pin = c.pin /\ CardRead(c, pc, s, b).stay = c.stay
           /\ CardRead(c, pc, s, b).serial = s /\ CardRead(c, pc, s, b).pristine = b
           /\ CardRead(c, pc, s, b).events = c.events /\ CardRead(c, pc, s, b).entry = c.entry
           /\ CardRead(c, pc, s, b).answer = c.answer
  <1>1. [c EXCEPT !.pc = pc] \in Calls
    BY DEF Calls
  <1>2. [c EXCEPT !.pc = pc, !.serial = s] \in Calls
    BY <1>1, Zenon DEF Calls
  <1>3. QED
    BY <1>2, ZenonT(60) DEF CardRead, Calls

\* A value was taken out, or none.
ValueTaken(c, pc, e, p) == [c EXCEPT !.pc = pc, !.entry = e, !.pin = p]

\* ValueTaken moves a call to a step with the value it took.
LEMMA ValueTakenType ==
    ASSUME NEW c \in Calls, NEW pc \in Steps, NEW e \in Entries \cup {None}, NEW p \in Pins \cup {None}
    PROVE  /\ ValueTaken(c, pc, e, p) \in Calls
           /\ ValueTaken(c, pc, e, p).op = c.op /\ ValueTaken(c, pc, e, p).pc = pc
           /\ ValueTaken(c, pc, e, p).pin = p /\ ValueTaken(c, pc, e, p).stay = c.stay
           /\ ValueTaken(c, pc, e, p).serial = c.serial /\ ValueTaken(c, pc, e, p).pristine = c.pristine
           /\ ValueTaken(c, pc, e, p).events = c.events /\ ValueTaken(c, pc, e, p).entry = e
           /\ ValueTaken(c, pc, e, p).answer = c.answer
  <1>1. [c EXCEPT !.pc = pc] \in Calls
    BY DEF Calls
  <1>2. [c EXCEPT !.pc = pc, !.entry = e] \in Calls
    BY <1>1, Zenon DEF Calls
  <1>3. QED
    BY <1>2, Zenon DEF ValueTaken, Calls

\* A call of one thread leaves the others alone.
LEMMA CallSet ==
    ASSUME thread \in [Threads -> Calls], NEW t \in Threads, NEW call \in Calls,
           thread' = [thread EXCEPT ![t] = call]
    PROVE  /\ thread' \in [Threads -> Calls] /\ thread'[t] = call
           /\ \A u \in Threads \ {t} : thread'[u] = thread[u]
  OBVIOUS

\* What a call does to the cache that neither accepts nor refuses a value.
CacheKept ==
    /\ cache' \in Caches /\ era' \in Eras
    /\ cache'.rejected = cache.rejected
    /\ era.now = cache.generation => era'.now = cache'.generation
    /\ \/ cache'.positive = None
       \/ /\ cache.positive # None /\ cache'.positive # None
          /\ cache'.positive.card = cache.positive.card
          /\ cache'.positive.pin = cache.positive.pin
          /\ cache'.positive.events = cache.positive.events
          /\ cache'.positive.stay = cache.positive.stay

\* An untouched cache is kept.
LEMMA SameCacheKept ==
    ASSUME TypeOK, UNCHANGED <<cache, era>>
    PROVE  CacheKept
  BY TypeIs DEF CacheKept

\* Ending a login keeps what the invariant needs of the cache.
LEMMA ClearKept ==
    ASSUME TypeOK, cache' = clear_positive(cache), era' = Ended
    PROVE  CacheKept
  BY TypeIs, ClearType, EraType DEF CacheKept

\* So does a logout, by the caller or because the last session closed.
LEMMA LogoutKept ==
    ASSUME TypeOK, Logout
    PROVE  CacheKept
  BY SameCacheKept, ClearKept DEF Logout

\* So does asking whether the slot is logged in.
LEMMA AskKept ==
    ASSUME TypeOK, AskLogin
    PROVE  CacheKept
  <1>1. CASE cache' = cache
    BY <1>1, SameCacheKept DEF AskLogin
  <1>2. CASE cache' = clear_positive(cache)
    <2>1. cache \in Caches /\ cache.generation \in Nat
      BY TypeIs DEF Caches
    <2>2. cache'.generation # cache.generation
      BY <1>2, <2>1, ClearType
    <2>3. QED
      BY <1>2, <2>2, ClearKept DEF AskLogin
  <1>3. QED
    BY <1>1, <1>2 DEF AskLogin, asked

\* Refreshing the slots gives a module state.
LEMMA RefreshType ==
    ASSUME TypeOK, NEW m \in Modules, NEW r \in refresh_slots_with(m)
    PROVE  r[1] \in Modules
  <1>1. reader.events \in Nat
    BY TypeIs DEF Readers
  <1> DEFINE gone == m.known /\ m.seen # reader.events /\ m.present
             was == m.present /\ ~gone
             seen == [m EXCEPT !.seen = reader.events, !.present = was]
             raised == [seen EXCEPT !.present = TRUE, !.known = TRUE]
             lost == [seen EXCEPT !.present = FALSE]
  <1>2. was \in BOOLEAN
    OBVIOUS
  <1>3. seen \in Modules
    BY <1>1, <1>2, Zenon DEF Modules
  <1>4. raised \in Modules /\ lost \in Modules
    BY <1>3, ZenonT(60) DEF Modules
  <1>5. r[1] \in {m, lost, seen, raised}
    <2> HIDE DEF gone
    <2>1. r \in {<<m, FALSE>>} \cup (IF m.known THEN {<<lost, gone \/ was>>} ELSE {})
              \cup (IF reader.card = None THEN {}
                    ELSE {IF was THEN <<seen, FALSE>> ELSE <<raised, m.known>>})
      BY Zenon DEF refresh_slots_with, gone
    <2> DEFINE ask == gone \/ was
               known == m.known
    <2> HIDE DEF was, seen, raised, lost, ask, known
    <2>2. r = <<m, FALSE>> \/ r = <<lost, ask>> \/ r = <<seen, FALSE>> \/ r = <<raised, known>>
      BY <2>1, Zenon DEF ask, known
    <2>3. ASSUME NEW a, NEW b PROVE <<a, b>>[1] = a
      OBVIOUS
    <2>4. QED
      BY <2>2, <2>3, Zenon
  <1>6. QED
    BY <1>3, <1>4, <1>5

-----------------------------------------------------------------------------
(* Type correctness. *)

\* The types hold before C_Initialize.
LEMMA TypeInit == Init => TypeOK
  <1> SUFFICES ASSUME Init PROVE TypeOK
    OBVIOUS
  <1>1. module \in Modules
    <2>1. [h \in {} |-> FALSE] \in [{} -> BOOLEAN]
      OBVIOUS
    <2>2. QED
      BY <2>1, Zenon DEF Init, NoModule, Modules
  <1>2. cache \in Caches
    BY DEF Init, Caches
  <1>3. world \in Worlds
    BY BoundAssumption DEF Init
  <1>4. reader \in Readers
    <2>1. PICK c \in world.cards : reader = [card |-> c, events |-> 1, txn |-> None]
      BY DEF Init
    <2>2. c \in Cards
      BY <1>3 DEF Worlds
    <2>3. QED
      BY <2>1, <2>2 DEF Readers
  <1>5. card \in [Cards -> CardStates]
    BY DEF Init, CardStates, RETRIES_PRISTINE
  <1>6. thread \in [Threads -> Calls]
    BY DEF Init, Calls, Operations, Steps, Answers, Idle
  <1>7. QED
    BY <1>1, <1>2, <1>3, <1>4, <1>5, <1>6, TypeIs DEF Init, Eras

\* The calls that finish under the module lock.
LEMMA LockTypes ==
    ASSUME TypeOK,
           c_initialize \/ c_finalize \/ c_get_slot_list \/ c_open_session \/ c_close_all_sessions
              \/ (\E h \in Handles : c_close_session(h) \/ c_logout(h) \/ c_get_session_info(h)
                                     \/ c_sign_init(h))
    PROVE  TypeOK' /\ CacheKept /\ UNCHANGED <<lane, reader, card, thread, refused>>
  <1>1. NoModule \in Modules /\ [NoModule EXCEPT !.live = TRUE] \in Modules
    <2>1. [h \in {} |-> FALSE] \in [{} -> BOOLEAN]
      OBVIOUS
    <2>2. NoModule \in Modules
      BY <2>1, Zenon DEF NoModule, Modules
    <2>3. QED
      BY <2>2, Zenon DEF Modules
  <1>2. module \in Modules
    BY TypeIs
  <1>3. SUFFICES module' \in Modules /\ epoch' \in Nat /\ world' = world /\ CacheKept
                 /\ UNCHANGED <<lane, reader, card, thread, refused>>
    BY TypeIs DEF TypeOK, CacheKept, Caches, Eras, Modules
  <1>4. CASE c_initialize
    <2>1. module' \in Modules
      BY <1>1, <1>4, RefreshType DEF c_initialize
    <2>2. QED
      BY <1>4, <2>1, SameCacheKept, TypeIs DEF c_initialize
  <1>5. CASE c_finalize
    BY <1>1, <1>5, LogoutKept, TypeIs DEF c_finalize
  <1>6. CASE c_get_slot_list
    <2>1. CASE Logout /\ UNCHANGED module
      BY <1>2, <1>6, <2>1, LogoutKept, TypeIs DEF c_get_slot_list
    <2>2. CASE \E r \in refresh_slots_with(module) :
                  /\ module' = r[1]
                  /\ IF r[2] THEN Logout ELSE UNCHANGED <<cache, era>>
      <3>1. PICK r \in refresh_slots_with(module) :
                  /\ module' = r[1]
                  /\ IF r[2] THEN Logout ELSE UNCHANGED <<cache, era>>
        BY <2>2
      <3>2. module' \in Modules
        BY <1>2, <3>1, RefreshType
      <3>3. CacheKept
        BY <3>1, LogoutKept, SameCacheKept
      <3>4. QED
        BY <1>6, <3>2, <3>3, TypeIs DEF c_get_slot_list
    <2>3. QED
      BY <1>6, <2>1, <2>2 DEF c_get_slot_list
  <1>7. CASE c_open_session
    <2>1. module' \in Modules
      <3>1. PICK S \in SUBSET Handles : module.sessions \in [S -> BOOLEAN]
        BY <1>2 DEF Modules
      <3>2. Open = S
        BY <3>1 DEF Open
      <3> DEFINE new == [h \in Open \cup {module.next} |-> h \in Open /\ module.sessions[h]]
      <3>3. new \in [Open \cup {module.next} -> BOOLEAN]
        BY <3>1, <3>2
      <3>4. Open \cup {module.next} \in SUBSET Handles
        BY <1>7, <3>2 DEF c_open_session
      <3>5. module.next + 1 \in Nat
        BY <1>2 DEF Modules
      <3>6. module' = [module EXCEPT !.next = @ + 1, !.sessions = new]
        BY <1>7 DEF c_open_session
      <3> HIDE DEF new
      <3>7. new \in UNION {[T -> BOOLEAN] : T \in SUBSET Handles}
        BY <3>3, <3>4
      <3>8. QED
        BY <1>2, <3>5, <3>6, <3>7, Zenon DEF Modules
    <2>2. QED
      BY <1>7, <2>1, SameCacheKept, TypeIs DEF c_open_session
  <1>8. CASE c_close_all_sessions
    <2>1. module' \in Modules
      BY <1>1, <1>2, <1>8 DEF c_close_all_sessions, Modules
    <2>2. QED
      BY <1>8, <2>1, LogoutKept, TypeIs DEF c_close_all_sessions
  <1>9. ASSUME NEW h \in Handles, c_close_session(h)
        PROVE  module' \in Modules /\ epoch' \in Nat /\ world' = world /\ CacheKept
                 /\ UNCHANGED <<lane, reader, card, thread, refused>>
    <2>1. module' \in Modules
      <3>1. PICK S \in SUBSET Handles : module.sessions \in [S -> BOOLEAN]
        BY <1>2 DEF Modules
      <3> DEFINE new == Without(module.sessions, h)
      <3>2. new \in [S \ {h} -> BOOLEAN]
        BY <3>1 DEF Without
      <3>3. module' = [module EXCEPT !.sessions = new]
        BY <1>9 DEF c_close_session
      <3> HIDE DEF new
      <3>4. QED
        BY <1>2, <3>2, <3>3 DEF Modules
    <2>2. CacheKept
      BY <1>9, LogoutKept, SameCacheKept DEF c_close_session
    <2>3. QED
      BY <1>9, <2>1, <2>2, TypeIs DEF c_close_session
  <1>10. ASSUME NEW h \in Handles, c_logout(h) \/ c_get_session_info(h)
         PROVE  module' \in Modules /\ epoch' \in Nat /\ world' = world /\ CacheKept
                 /\ UNCHANGED <<lane, reader, card, thread, refused>>
    BY <1>2, <1>10, LogoutKept, AskKept, TypeIs DEF c_logout, c_get_session_info
  <1>11. ASSUME NEW h \in Handles, c_sign_init(h)
         PROVE  module' \in Modules /\ epoch' \in Nat /\ world' = world /\ CacheKept
                 /\ UNCHANGED <<lane, reader, card, thread, refused>>
    <2>1. module' \in Modules
      <3>1. PICK S \in SUBSET Handles : module.sessions \in [S -> BOOLEAN]
        BY <1>2 DEF Modules
      <3>2. [module.sessions EXCEPT ![h] = TRUE] \in [S -> BOOLEAN]
        BY <3>1, Zenon
      <3>3. QED
        BY <1>2, <1>11, <3>2, ZenonT(60) DEF c_sign_init, Modules
    <2>2. QED
      BY <1>11, <2>1, SameCacheKept, TypeIs DEF c_sign_init
  <1>12. QED
    BY <1>4, <1>5, <1>6, <1>7, <1>8, <1>9, <1>10, <1>11

-----------------------------------------------------------------------------
(* Steps that are not the call's own. *)

\* What a step may do around the call of u without disturbing it.
Around(u) ==
    /\ thread'[u] = thread[u]
    /\ lane = u => lane' = u
    /\ reader.events <= reader'.events
    /\ reader'.card # None /\ thread[u].stay = reader'.events /\ thread[u].pc \in Connected =>
          /\ reader'.card = reader.card /\ reader'.events = reader.events
          /\ reader'.txn = reader.txn
          /\ card'[reader.card].tries >= card[reader.card].tries
    /\ cache'.rejected = cache.rejected \/ lane # u

\* What a call knows survives the steps of the others (Around says which).
LEMMA Bystander ==
    ASSUME TypeOK, TypeOK', NEW u \in Threads, ThreadInv(u), Around(u)
    PROVE  ThreadInv(u)'
  <1>1. CallOf(u)'
    BY DEF ThreadInv, Around, CallOf
  <1>2. LaneOf(u)'
    BY DEF ThreadInv, Around, LaneOf
  <1>3. reader.events \in Nat /\ reader'.events \in Nat /\ thread[u].stay \in Nat /\ thread[u].events \in Nat
    BY TypeIs, Zenon DEF TypeOK, Readers, Calls
  <1>4. StayOf(u)'
    <2>1. ASSUME Alive(u)', thread[u].pc \in Connected
          PROVE  /\ Alive(u) /\ reader'.card = reader.card /\ reader'.txn = reader.txn
                 /\ reader.card \in Cards
                 /\ card'[reader.card].tries >= card[reader.card].tries
      BY <2>1, TypeIs DEF Around, Alive, Readers
    <2>2. thread[u].pc \in Connected => thread[u].stay <= reader'.events
      BY <1>3 DEF ThreadInv, StayOf, Around
    <2>3. ASSUME NEW c \in Cards
          PROVE  card[c].tries \in Nat /\ card'[c].tries \in Nat
      BY TypeIs DEF TypeOK, CardStates
    <2>4. {"events", "take", "verify"} \subseteq Probed /\ Probed \subseteq Connected
      BY DEF Probed, Connected
    <2>5. QED
      BY <2>1, <2>2, <2>3, <2>4, SMTT(30) DEF ThreadInv, StayOf, Around, RETRIES_FLOOR
  <1>5. CountOf(u)'
    BY <1>3 DEF ThreadInv, Around, CountOf
  <1>6. EntryOf(u)'
    <2>1. CASE cache'.rejected = cache.rejected
      BY <2>1, Zenon DEF ThreadInv, Around, EntryOf, Good
    <2>2. CASE lane # u
      <3>1. thread[u].entry = None /\ ~(thread[u].op \in {"login", "sign"} /\ thread[u].pc \in Taken)
        BY <2>2 DEF ThreadInv, LaneOf, EntryOf, Taken, Connected
      <3>2. QED
        BY <3>1 DEF Around, EntryOf, Taken
    <2>3. QED
      BY <2>1, <2>2 DEF Around
  <1>7. QED
    BY <1>1, <1>2, <1>4, <1>5, <1>6 DEF ThreadInv

\* Nothing but the cache and the module's own records changes.
LEMMA Quiet ==
    ASSUME IInv, TypeOK', CacheKept, UNCHANGED <<lane, reader, card, thread, refused>>
    PROVE  IInv'
  <1>1. ASSUME NEW u \in Threads PROVE Around(u)
    <2>1. reader.events \in Nat
      BY TypeIs DEF IInv, Readers
    <2>2. reader.card # None => card[reader.card].tries \in Nat
      BY TypeIs DEF IInv, Readers, CardStates
    <2>3. QED
      BY <2>1, <2>2 DEF Around, CacheKept
  <1>2. \A u \in Threads : ThreadInv(u)'
    BY <1>1, Bystander DEF IInv
  <1>3. SlotInv'
    BY DEF IInv, SlotInv, CacheKept, Good
  <1>4. CardInv'
    BY DEF IInv, CardInv
  <1>5. QED
    BY <1>2, <1>3, <1>4 DEF IInv

\* So does what is known of the slot, when the cache is kept.
LEMMA KeptSlot ==
    ASSUME SlotInv, CacheKept, refused' = refused
    PROVE  SlotInv'
  BY DEF SlotInv, CacheKept, Good

\* A call that sets out for the card.
LEMMA Begun ==
    ASSUME IInv, TypeOK', CacheKept, UNCHANGED <<lane, reader, card, refused>>,
           NEW t \in Threads, NEW call \in Calls, thread' = [thread EXCEPT ![t] = call],
           call.entry = None,
           \/ call.pc = "lane" /\ call.op = "sign"
           \/ call.pc = "lane" /\ call.op = "login" /\ call.pin \in Pins
           \/ call.pc = "open" /\ call.op = "change" /\ call.pin \in Pins
    PROVE  IInv'
  <1>1. ASSUME NEW u \in Threads \ {t} PROVE ThreadInv(u)'
    <2>1. reader.events \in Nat
      BY TypeIs DEF IInv, Readers
    <2>2. reader.card # None => card[reader.card].tries \in Nat
      BY TypeIs DEF IInv, Readers, CardStates
    <2>3. thread'[u] = thread[u]
      BY TypeIs DEF IInv
    <2>4. Around(u)
      BY <2>1, <2>2, <2>3 DEF Around, CacheKept
    <2>5. QED
      BY <2>4, Bystander DEF IInv
  <1>2. thread'[t] = call
    BY TypeIs DEF IInv
  <1>3. ThreadInv(t)'
    BY <1>2 DEF ThreadInv, CallOf, LaneOf, StayOf, CountOf, EntryOf, Probed, Connected, Counted, Taken
  <1>4. SlotInv' /\ CardInv'
    BY KeptSlot DEF IInv, CardInv
  <1>5. QED
    BY <1>1, <1>3, <1>4 DEF IInv

\* A call's own step, on the card it connected to or on no card.
LEMMA Others ==
    ASSUME IInv, TypeOK', NEW t \in Threads,
           \A u \in Threads \ {t} : thread'[u] = thread[u],
           UNCHANGED <<lane, reader>>,
           \/ card' = card
           \/ thread[t].pc \in Connected /\ Alive(t),
           cache'.rejected = cache.rejected \/ lane = t
    PROVE  \A u \in Threads \ {t} : ThreadInv(u)'
  <1> SUFFICES ASSUME NEW u \in Threads \ {t} PROVE ThreadInv(u)'
    OBVIOUS
  <1>1. reader.events \in Nat
    BY TypeIs DEF IInv, Readers
  <1>2. reader.card # None => card[reader.card].tries \in Nat
    BY TypeIs DEF IInv, Readers, CardStates
  <1>3. ~(thread[t].pc \in Connected /\ Alive(t) /\ thread[u].pc \in Connected /\ Alive(u))
    BY DEF IInv, ThreadInv, StayOf
  <1>4. Around(u)
    <2>1. CASE card' = card
      BY <1>1, <1>2, <2>1 DEF Around
    <2>2. CASE thread[t].pc \in Connected /\ Alive(t)
      BY <1>1, <1>3, <2>2 DEF Around, Alive
    <2>3. QED
      BY <2>1, <2>2
  <1>5. QED
    BY <1>4, Bystander DEF IInv

-----------------------------------------------------------------------------
(* The steps of a call on the card. *)

\* Taking the reader's lane keeps the invariant.
LEMMA LaneKeeps ==
    ASSUME IInv, NEW t \in Threads, card_lane(t)
    PROVE  IInv'
  <1>1. thread' = [thread EXCEPT ![t].pc = "open"] /\ thread \in [Threads -> Calls]
    BY TypeIs DEF IInv, card_lane, Goto
  <1>2. thread' \in [Threads -> Calls] /\ \A u \in Threads \ {t} : thread'[u] = thread[u]
    BY <1>1 DEF Calls, Steps
  <1>3. TypeOK'
    BY <1>2 DEF IInv, TypeOK, card_lane
  <1>4. ASSUME NEW u \in Threads \ {t} PROVE ThreadInv(u)'
    <2>1. reader.events \in Nat
      BY TypeIs DEF IInv, Readers
    <2>2. reader.card # None => card[reader.card].tries \in Nat
      BY TypeIs DEF IInv, Readers, CardStates
    <2>3. Around(u)
      BY <1>2, <2>1, <2>2, NoneAssumption DEF Around, card_lane
    <2>4. QED
      BY <1>3, <2>3, Bystander DEF IInv
  <1>5. ThreadInv(t)'
    <2>1. thread'[t] = [thread[t] EXCEPT !.pc = "open"] /\ thread[t] \in Calls
      BY <1>1
    <2>2. /\ thread'[t].pc = "open" /\ thread'[t].op = thread[t].op
          /\ thread'[t].pin = thread[t].pin /\ thread'[t].entry = thread[t].entry
      BY <2>1 DEF Calls
    <2>3. thread[t].pc = "lane" /\ lane' = t
      BY DEF card_lane
    <2>4. QED
      BY <2>2, <2>3, Zenon DEF IInv, ThreadInv, CallOf, LaneOf, StayOf, CountOf, EntryOf,
                        Probed, Connected, Counted, Taken
  <1>6. SlotInv' /\ CardInv'
    BY DEF IInv, SlotInv, Good, CardInv, card_lane
  <1>7. QED
    BY <1>3, <1>4, <1>5, <1>6 DEF IInv

\* A call that is over is owed nothing.
LEMMA IdleKeeps ==
    ASSUME NEW t \in Threads, thread'[t] = Idle
    PROVE  ThreadInv(t)'
  BY DEF ThreadInv, CallOf, LaneOf, StayOf, CountOf, EntryOf, Probed, Connected, Counted, Taken, Idle

\* Opening the transaction keeps the invariant.
LEMMA OpenKeeps ==
    ASSUME IInv, NEW t \in Threads, open_session(t)
    PROVE  IInv'
  <1>1. thread \in [Threads -> Calls] /\ reader \in Readers /\ reader.events \in Nat
    BY TypeIs DEF IInv, Readers
  <1>2. reader.card # None => card[reader.card].tries \in Nat
    BY TypeIs DEF IInv, Readers, CardStates
  <1>3. SlotInv' /\ CardInv'
    BY DEF IInv, SlotInv, Good, CardInv, open_session
  <1>4. CASE Leave(t) /\ UNCHANGED reader
    <2>1. thread' \in [Threads -> Calls] /\ \A u \in Threads \ {t} : thread'[u] = thread[u]
      BY <1>1, <1>4 DEF Leave, Calls, Operations, Steps, Answers, Idle
    <2>2. TypeOK'
      BY <1>4, <2>1 DEF IInv, TypeOK, open_session, Leave
    <2>3. ASSUME NEW u \in Threads \ {t} PROVE ThreadInv(u)'
      <3>1. Around(u)
        BY <1>1, <1>2, <1>4, <2>1 DEF Around, open_session, Leave
      <3>2. QED
        BY <2>2, <3>1, Bystander DEF IInv
    <2>4. ThreadInv(t)'
      BY <1>1, <1>4, IdleKeeps DEF Leave
    <2>5. QED
      BY <1>3, <2>2, <2>3, <2>4 DEF IInv
  <1>5. CASE /\ reader.card # None /\ CardFree
             /\ reader' = [reader EXCEPT !.txn = t]
             /\ thread' = [thread EXCEPT ![t].pc = "probe", ![t].stay = reader.events]
             /\ UNCHANGED lane
    <2>1. thread' \in [Threads -> Calls] /\ \A u \in Threads \ {t} : thread'[u] = thread[u]
      <3> DEFINE call == [thread[t] EXCEPT !.pc = "probe", !.stay = reader.events]
      <3>1. call \in Calls
        <4>1. [thread[t] EXCEPT !.pc = "probe"] \in Calls
          BY <1>1 DEF Calls, Steps
        <4>2. QED
          BY <1>1, <4>1, Zenon DEF Calls
      <3>2. thread' = [thread EXCEPT ![t] = call]
        BY <1>1, <1>5, Zenon
      <3> HIDE DEF call
      <3>3. QED
        BY <1>1, <3>1, <3>2
    <2>2. reader' \in Readers /\ reader'.card = reader.card /\ reader'.events = reader.events /\ reader'.txn = t
      BY <1>1, <1>5 DEF Readers
    <2>3. TypeOK'
      BY <1>5, <2>1, <2>2, TypeIs DEF IInv, TypeOK, open_session, Readers
    <2>4. ASSUME NEW u \in Threads \ {t} PROVE ThreadInv(u)'
      <3>1. ~(thread[u].pc \in Connected /\ Alive(u))
        BY <1>5, NoneAssumption DEF IInv, ThreadInv, StayOf, CardFree
      <3>2. Around(u)
        BY <1>1, <1>2, <1>5, <2>1, <2>2, <3>1 DEF Around, open_session, Alive
      <3>3. QED
        BY <2>3, <3>2, Bystander DEF IInv
    <2>5. ThreadInv(t)'
      <3>1. thread[t] \in Calls /\ thread'[t] = [thread[t] EXCEPT !.pc = "probe", !.stay = reader.events]
        BY <1>1, <1>5
      <3>2. /\ thread'[t].pc = "probe" /\ thread'[t].stay = reader.events /\ thread'[t].op = thread[t].op
            /\ thread'[t].pin = thread[t].pin /\ thread'[t].entry = thread[t].entry
        BY <3>1 DEF Calls
      <3>3. thread[t].pc = "open" /\ lane' = lane
        BY <1>5 DEF open_session
      <3>4. CallOf(t)' /\ LaneOf(t)' /\ CountOf(t)' /\ EntryOf(t)'
        BY <3>2, <3>3, Zenon DEF IInv, ThreadInv, CallOf, LaneOf, CountOf, EntryOf,
                        Probed, Connected, Counted, Taken
      <3>5. StayOf(t)'
        BY <1>1, <2>2, <3>2 DEF StayOf, Probed
      <3>6. QED
        BY <3>4, <3>5 DEF ThreadInv
    <2>6. QED
      BY <1>3, <2>3, <2>4, <2>5 DEF IInv
  <1>6. QED
    BY <1>4, <1>5 DEF open_session

\* A call whose exchange is over and that has only to leave.
LEMMA EndKeeps ==
    ASSUME IInv, NEW t \in Threads, UNCHANGED <<lane, reader>>, thread[t].pc \in Connected,
           thread'[t].pc = "end", thread'[t].op = thread[t].op, thread'[t].stay = thread[t].stay,
           thread'[t].entry = None, thread'[t].pin = thread[t].pin \/ thread[t].op = "sign"
    PROVE  ThreadInv(t)'
  <1>1. CallOf(t)' /\ LaneOf(t)' /\ CountOf(t)' /\ EntryOf(t)'
    BY Zenon DEF IInv, ThreadInv, CallOf, LaneOf, CountOf, EntryOf, Connected, Probed, Counted, Taken
  <1>2. StayOf(t)'
    BY DEF IInv, ThreadInv, StayOf, Alive, Connected, Probed
  <1>3. QED
    BY <1>1, <1>2 DEF ThreadInv

\* The probe, which reads serial and counter, keeps the invariant.
LEMMA ProbeKeeps ==
    ASSUME IInv, NEW t \in Threads, probe(t)
    PROVE  IInv'
  <1>1. thread \in [Threads -> Calls] /\ thread[t] \in Calls /\ reader \in Readers
    BY TypeIs DEF IInv
  <1>2. thread[t].pc = "probe" /\ thread[t].pc \in Connected /\ thread[t].entry = None
    BY Zenon DEF probe, Connected, IInv, ThreadInv, EntryOf, Taken
  <1>3. CacheKept /\ UNCHANGED <<lane, reader, card, refused>>
    BY SameCacheKept, ClearKept DEF IInv, probe
  <1>4. SlotInv' /\ CardInv'
    BY <1>3, KeptSlot DEF IInv, CardInv
  <1>5. ASSUME thread' \in [Threads -> Calls], \A u \in Threads \ {t} : thread'[u] = thread[u],
               ThreadInv(t)'
        PROVE  IInv'
    <2>1. TypeOK'
      BY <1>3, <1>5, TypeIs DEF IInv, TypeOK, probe, CacheKept, Caches, Eras
    <2>2. \A u \in Threads \ {t} : ThreadInv(u)'
      BY <1>3, <1>5, <2>1, Others, Zenon DEF CacheKept
    <2>3. QED
      BY <1>4, <1>5, <2>1, <2>2 DEF IInv
  <1>6. CASE Goto(t, "end")
    <2> DEFINE call == At(thread[t], "end")
    <2>1. /\ call \in Calls /\ call.pc = "end" /\ call.op = thread[t].op /\ call.stay = thread[t].stay
          /\ call.entry = None /\ call.pin = thread[t].pin
      BY <1>1, <1>2, AtType, StepNames, ZenonT(60)
    <2>2. thread' = [thread EXCEPT ![t] = call]
      BY <1>1, <1>6 DEF Goto, At
    <2> HIDE DEF call
    <2>3. /\ thread' \in [Threads -> Calls] /\ thread'[t] = call
          /\ \A u \in Threads \ {t} : thread'[u] = thread[u]
      BY <1>1, <2>1, <2>2, CallSet
    <2>4. ThreadInv(t)'
      BY <1>2, <1>3, <2>1, <2>3, EndKeeps
    <2>5. QED
      BY <1>5, <2>3, <2>4
  <1>7. CASE /\ Alive(t) /\ check_retry_floor(PinStatus(reader.card))
             /\ thread' = [thread EXCEPT
                   ![t].pc = IF thread[t].op = "change" THEN "verify" ELSE "events",
                   ![t].serial = reader.card,
                   ![t].pristine = pin1_status_permits_reusable_cache(PinStatus(reader.card))]
    <2> DEFINE pc == IF thread[t].op = "change" THEN "verify" ELSE "events"
               b == pin1_status_permits_reusable_cache(PinStatus(reader.card))
               call == CardRead(thread[t], pc, reader.card, b)
    <2>1. pc \in Steps /\ b \in BOOLEAN /\ reader.card \in Cards
      <3>1. b \in BOOLEAN
        BY DEF pin1_status_permits_reusable_cache
      <3>2. QED
        BY <1>1, <1>7, <3>1 DEF Steps, Readers, Alive
    <2>2. thread' = [thread EXCEPT ![t] = call]
      BY <1>1, <1>7, Zenon DEF CardRead
    <2>3. card[reader.card].tries >= RETRIES_FLOOR
      <3>1. card[reader.card] \in CardStates
        BY <2>1, TypeIs DEF IInv
      <3>2. card[reader.card].verified # "no" => card[reader.card].tries = RETRIES_PRISTINE
        BY <2>1 DEF IInv, CardInv
      <3>3. QED
        <4>1. card[reader.card].verified # "no" \/ card[reader.card].tries \in RETRIES_FLOOR .. RETRIES_PRISTINE
          BY <1>7, Zenon DEF check_retry_floor, PinStatus
        <4>2. QED
          BY <3>1, <3>2, <4>1 DEF CardStates, RETRIES_FLOOR, RETRIES_PRISTINE
    <2>4. (pc = "verify" /\ thread[t].op = "change") \/ (pc = "events" /\ thread[t].op # "change")
      OBVIOUS
    <2> HIDE DEF pc, b
    <2>5. /\ call \in Calls /\ call.op = thread[t].op /\ call.pc = pc /\ call.pin = thread[t].pin
          /\ call.stay = thread[t].stay /\ call.serial = reader.card /\ call.entry = None
      BY <1>1, <1>2, <2>1, CardReadType, SMTT(30)
    <2> HIDE DEF call
    <2>6. /\ thread' \in [Threads -> Calls] /\ thread'[t] = call
          /\ \A u \in Threads \ {t} : thread'[u] = thread[u]
      BY <1>1, <2>2, <2>5, CallSet
    <2>7. ThreadInv(t)'
      <3>1. CallOf(t)'
        BY <1>1, <1>2, <2>1, <2>4, <2>5, <2>6 DEF IInv, ThreadInv, CallOf, Calls, Operations
      <3>2. LaneOf(t)' /\ CountOf(t)' /\ EntryOf(t)'
        BY <1>2, <1>3, <2>4, <2>5, <2>6, Zenon DEF IInv, ThreadInv, LaneOf, CountOf, EntryOf, Connected, Counted, Taken
      <3>3. StayOf(t)'
        BY <1>2, <1>3, <1>7, <2>3, <2>4, <2>5, <2>6 DEF IInv, ThreadInv, StayOf, Alive
      <3>4. QED
        BY <3>1, <3>2, <3>3 DEF ThreadInv
    <2>8. QED
      BY <1>5, <2>6, <2>7
  <1>8. QED
    BY <1>6, <1>7 DEF probe

\* Reading the insertion count keeps the invariant.
LEMMA EventsKeeps ==
    ASSUME IInv, NEW t \in Threads, card_events(t)
    PROVE  IInv'
  <1>1. thread \in [Threads -> Calls] /\ thread[t] \in Calls /\ reader \in Readers
    BY TypeIs DEF IInv
  <1>2. thread[t].pc = "events" /\ thread[t].pc \in Connected /\ thread[t].entry = None
    BY Zenon DEF card_events, Connected, IInv, ThreadInv, EntryOf, Taken
  <1>3. CacheKept /\ UNCHANGED <<lane, reader, card, refused>>
    BY SameCacheKept, ClearKept DEF IInv, card_events
  <1>4. SlotInv' /\ CardInv'
    BY <1>3, KeptSlot DEF IInv, CardInv
  <1>5. ASSUME thread' \in [Threads -> Calls], \A u \in Threads \ {t} : thread'[u] = thread[u],
               ThreadInv(t)'
        PROVE  IInv'
    <2>1. TypeOK'
      BY <1>3, <1>5, TypeIs DEF IInv, TypeOK, card_events, CacheKept, Caches, Eras
    <2>2. \A u \in Threads \ {t} : ThreadInv(u)'
      BY <1>3, <1>5, <2>1, Others DEF CacheKept
    <2>3. QED
      BY <1>4, <1>5, <2>1, <2>2 DEF IInv
  <1>6. CASE Goto(t, "end")
    <2> DEFINE call == At(thread[t], "end")
    <2>1. /\ call \in Calls /\ call.pc = "end" /\ call.op = thread[t].op /\ call.stay = thread[t].stay
          /\ call.entry = None /\ call.pin = thread[t].pin
      BY <1>1, <1>2, AtType, StepNames, ZenonT(60)
    <2>2. thread' = [thread EXCEPT ![t] = call]
      BY <1>1, <1>6 DEF Goto, At
    <2> HIDE DEF call
    <2>3. /\ thread' \in [Threads -> Calls] /\ thread'[t] = call
          /\ \A u \in Threads \ {t} : thread'[u] = thread[u]
      BY <1>1, <2>1, <2>2, CallSet
    <2>4. ThreadInv(t)'
      BY <1>2, <1>3, <2>1, <2>3, EndKeeps, Zenon
    <2>5. QED
      BY <1>5, <2>3, <2>4
  <1>7. CASE thread' = [thread EXCEPT ![t].pc = "take", ![t].events = reader.events]
    <2> DEFINE n == reader.events
               pc == "take"
               call == CountRead(thread[t], pc, n)
    <2>1. n = reader.events /\ n \in Nat /\ thread[t].stay \in Nat /\ pc = "take" /\ pc \in Steps
      BY <1>1, StepNames DEF Readers, Calls
    <2>2. thread' = [thread EXCEPT ![t] = call]
      BY <1>1, <1>7, Zenon DEF CountRead
    <2> HIDE DEF n, pc
    <2>3. /\ call \in Calls /\ call.op = thread[t].op /\ call.pc = "take" /\ call.pin = thread[t].pin
          /\ call.stay = thread[t].stay /\ call.serial = thread[t].serial /\ call.entry = None
          /\ call.events = reader.events
      BY <1>1, <1>2, <2>1, CountReadType
    <2> HIDE DEF call
    <2>4. /\ thread' \in [Threads -> Calls] /\ thread'[t] = call
          /\ \A u \in Threads \ {t} : thread'[u] = thread[u]
      BY <1>1, <2>2, <2>3, CallSet
    <2>5. ThreadInv(t)'
      <3>1. CallOf(t)' /\ LaneOf(t)' /\ EntryOf(t)'
        BY <1>2, <1>3, <2>3, <2>4, Zenon DEF IInv, ThreadInv, CallOf, LaneOf, EntryOf, Connected, Probed, Taken
      <3>2. StayOf(t)' /\ CountOf(t)'
        <4>1. StayOf(t)'
          BY <1>2, <1>3, <2>3, <2>4, Zenon DEF IInv, ThreadInv, StayOf, Alive, Connected, Probed
        <4>2. thread[t].stay <= reader.events
          BY <1>2, <1>3, Zenon DEF IInv, ThreadInv, StayOf, Connected
        <4>3. CountOf(t)'
          BY <1>2, <1>3, <2>1, <2>3, <2>4, <4>2 DEF CountOf
        <4>4. QED
          BY <4>1, <4>3, Zenon
      <3>3. QED
        BY <3>1, <3>2 DEF ThreadInv
    <2>6. QED
      BY <1>5, <2>4, <2>5
  <1>8. QED
    BY <1>6, <1>7 DEF card_events

\* Taking the held value out of the slot keeps the invariant.
LEMMA CheckoutKeeps ==
    ASSUME IInv, NEW t \in Threads, checkout_pin1(t)
    PROVE  IInv'
  <1> DEFINE entry == cache.positive
             good == entry # None /\ usable(entry, thread[t].serial, thread[t].events, thread[t].pristine)
             pc == IF good THEN "verify" ELSE "end"
             e == IF good THEN entry ELSE None
             p == IF good THEN entry.pin ELSE None
             call == ValueTaken(thread[t], pc, e, p)
  <1>1. thread \in [Threads -> Calls] /\ thread[t] \in Calls /\ cache \in Caches
    BY TypeIs DEF IInv
  <1>2. /\ thread[t].pc = "take" /\ thread[t].op = "sign" /\ thread[t].pc \in Connected
        /\ UNCHANGED <<module, epoch, lane, reader, card, world, era, refused>>
    BY DEF checkout_pin1, Connected
  <1>3. /\ cache' \in Caches /\ cache'.positive = None /\ cache'.rejected = cache.rejected
        /\ cache'.generation = cache.generation
    <2>1. PICK o \in Threads \cup {None} : cache' = [cache EXCEPT !.positive = None, !.outstanding = o]
      BY <1>1, Zenon DEF checkout_pin1, Caches
    <2>2. QED
      BY <1>1, <2>1, Zenon DEF Caches
  <1>4. SlotInv' /\ CardInv'
    BY <1>2, <1>3 DEF IInv, SlotInv, CardInv
  <1>5. pc \in Steps /\ e \in Entries \cup {None} /\ p \in Pins \cup {None}
    BY <1>1, StepNames DEF Caches, Entries
  <1>6. thread' = [thread EXCEPT ![t] = call]
    <2>1. thread' = [thread EXCEPT ![t].pc = pc, ![t].entry = e, ![t].pin = p]
      BY DEF checkout_pin1
    <2> HIDE DEF pc, e, p
    <2>2. QED
      BY <1>1, <2>1, Zenon DEF ValueTaken
  <1>7. \/ /\ pc = "verify" /\ e = cache.positive /\ e # None /\ p = e.pin
           /\ e.card = thread[t].serial /\ e.events = thread[t].events
        \/ pc = "end" /\ e = None
    BY Zenon DEF usable
  <1> HIDE DEF pc, e, p
  <1>8. /\ call \in Calls /\ call.op = thread[t].op /\ call.pc = pc /\ call.pin = p
        /\ call.stay = thread[t].stay /\ call.serial = thread[t].serial /\ call.entry = e
        /\ call.events = thread[t].events
    BY <1>1, <1>5, ValueTakenType, SMTT(30)
  <1> HIDE DEF call
  <1>9. /\ thread' \in [Threads -> Calls] /\ thread'[t] = call
        /\ \A u \in Threads \ {t} : thread'[u] = thread[u]
    BY <1>1, <1>6, <1>8, CallSet
  <1>10. TypeOK'
    BY <1>2, <1>3, <1>9, TypeIs, Zenon DEF IInv, TypeOK, Caches
  <1>11. \A u \in Threads \ {t} : ThreadInv(u)'
    BY <1>2, <1>3, <1>9, <1>10, Others, Zenon
  <1>12. ThreadInv(t)'
    <2>1. CASE pc = "end" /\ e = None
      BY <1>2, <1>8, <1>9, <2>1, EndKeeps
    <2>2. CASE /\ pc = "verify" /\ e = cache.positive /\ e # None /\ p = e.pin
               /\ e.card = thread[t].serial /\ e.events = thread[t].events
      <3>1. CallOf(t)' /\ LaneOf(t)' /\ CountOf(t)'
        BY <1>2, <1>8, <1>9, <2>2, Zenon DEF IInv, ThreadInv, CallOf, LaneOf, CountOf, Connected, Probed, Counted
      <3>2. StayOf(t)'
        BY <1>2, <1>8, <1>9, <2>2, Zenon DEF IInv, ThreadInv, StayOf, Alive, Connected, Probed
      <3>3. EntryOf(t)'
        BY <1>2, <1>3, <1>8, <1>9, <2>2, ZenonT(60) DEF IInv, SlotInv, EntryOf, Good, Taken
      <3>4. QED
        BY <3>1, <3>2, <3>3 DEF ThreadInv
    <2>3. QED
      BY <1>7, <2>1, <2>2
  <1>13. QED
    BY <1>4, <1>10, <1>11, <1>12 DEF IInv

\* Asking the rejection memory keeps the invariant.
LEMMA CheckKeeps ==
    ASSUME IInv, NEW t \in Threads, check_rejected(t)
    PROVE  IInv'
  <1> DEFINE pc == IF is_rejected(cache, thread[t].serial, thread[t].pin) THEN "end" ELSE "verify"
             call == At(thread[t], pc)
  <1>1. thread \in [Threads -> Calls] /\ thread[t] \in Calls
    BY TypeIs DEF IInv
  <1>2. /\ thread[t].pc = "take" /\ thread[t].op = "login" /\ thread[t].pc \in Connected
        /\ UNCHANGED <<module, epoch, cache, lane, reader, card, world, era, refused>>
    BY Zenon DEF check_rejected, Connected
  <1>3. thread[t].entry = None
    BY <1>2, Zenon DEF IInv, ThreadInv, EntryOf
  <1>4. SlotInv' /\ CardInv'
    BY <1>2, Zenon DEF IInv, SlotInv, Good, CardInv
  <1>5. thread' = [thread EXCEPT ![t] = call]
    <2>1. thread' = [thread EXCEPT ![t].pc = pc]
      BY DEF check_rejected, Goto
    <2> HIDE DEF pc
    <2>2. QED
      BY <1>1, <2>1 DEF At
  <1>6. pc = "end" \/ (pc = "verify" /\ <<thread[t].serial, thread[t].pin>> \notin cache.rejected)
    BY DEF is_rejected
  <1> HIDE DEF pc
  <1>7. /\ call \in Calls /\ call.op = thread[t].op /\ call.pc = pc /\ call.pin = thread[t].pin
        /\ call.stay = thread[t].stay /\ call.serial = thread[t].serial /\ call.entry = None
        /\ call.events = thread[t].events
    <2>1. pc \in Steps
      BY <1>6, StepNames
    <2>2. QED
      BY <1>1, <1>3, <2>1, AtType
  <1> HIDE DEF call
  <1>8. /\ thread' \in [Threads -> Calls] /\ thread'[t] = call
        /\ \A u \in Threads \ {t} : thread'[u] = thread[u]
    BY <1>1, <1>5, <1>7, CallSet
  <1>9. TypeOK'
    BY <1>2, <1>8, ZenonT(60) DEF IInv, TypeOK
  <1>10. \A u \in Threads \ {t} : ThreadInv(u)'
    BY <1>2, <1>8, <1>9, Others
  <1>11. ThreadInv(t)'
    <2>1. CASE pc = "end"
      BY <1>2, <1>7, <1>8, <2>1, EndKeeps
    <2>2. CASE pc = "verify" /\ <<thread[t].serial, thread[t].pin>> \notin cache.rejected
      <3>1. CallOf(t)' /\ LaneOf(t)' /\ CountOf(t)' /\ EntryOf(t)'
        BY <1>2, <1>7, <1>8, <2>2, Zenon DEF IInv, ThreadInv, CallOf, LaneOf, CountOf, EntryOf,
                                      Connected, Probed, Counted
      <3>2. StayOf(t)'
        BY <1>2, <1>7, <1>8, <2>2, Zenon DEF IInv, ThreadInv, StayOf, Alive, Connected, Probed
      <3>3. QED
        BY <3>1, <3>2 DEF ThreadInv
    <2>3. QED
      BY <1>6, <2>1, <2>2
  <1>12. QED
    BY <1>4, <1>9, <1>10, <1>11 DEF IInv

\* The card that compares a value is above the floor, so it has a try to spend.
LEMMA PresentType ==
    ASSUME IInv, NEW t \in Threads, thread[t].pc = "verify", Alive(t)
    PROVE  /\ reader.card \in Cards /\ card[reader.card] \in CardStates
           /\ card[reader.card].tries >= RETRIES_FLOOR
           /\ LET new == present_pin(reader.card, thread[t].pin)
              IN  new \in CardStates /\ (new.verified # "no" => new.tries = RETRIES_PRISTINE)
  <1>1. reader.card \in Cards
    BY TypeIs DEF IInv, Readers, Alive
  <1>2. card[reader.card] \in CardStates
    BY <1>1, TypeIs DEF IInv
  <1>3. card[reader.card].tries >= RETRIES_FLOOR
    BY DEF IInv, ThreadInv, StayOf
  <1> DEFINE was == card[reader.card]
  <1>4. was.tries - 1 \in 0 .. RETRIES_PRISTINE
    BY <1>2, <1>3 DEF CardStates, RETRIES_FLOOR, RETRIES_PRISTINE
  <1>5. RETRIES_PRISTINE \in 0 .. RETRIES_PRISTINE
    BY DEF RETRIES_PRISTINE
  <1> DEFINE matched == [was EXCEPT !.tries = RETRIES_PRISTINE, !.verified = "module"]
             missed == [was EXCEPT !.tries = @ - 1, !.verified = "no"]
  <1> HIDE DEF was
  <1>6. was \in CardStates
    BY <1>2 DEF was
  <1>7. matched \in CardStates /\ matched.tries = RETRIES_PRISTINE
    BY <1>5, <1>6, Zenon DEF CardStates
  <1>8. missed \in CardStates /\ missed.verified = "no"
    BY <1>4, <1>6, Zenon DEF CardStates
  <1>9. present_pin(reader.card, thread[t].pin) \in {matched, missed}
    BY DEF present_pin, was
  <1>10. QED
    BY <1>1, <1>2, <1>3, <1>7, <1>8, <1>9, Zenon

\* The card in the reader takes a new state.
LEMMA CardSet ==
    ASSUME IInv, reader.card \in Cards, NEW new \in CardStates,
           card' = [card EXCEPT ![reader.card] = new],
           new.verified # "no" => new.tries = RETRIES_PRISTINE
    PROVE  card' \in [Cards -> CardStates] /\ CardInv'
  BY TypeIs DEF IInv, CardInv

\* VERIFY, accepted, refused or unanswered, keeps the invariant.
LEMMA VerifyKeeps ==
    ASSUME IInv, NEW t \in Threads, verify_pin1(t)
    PROVE  IInv'
  <1>1. thread \in [Threads -> Calls] /\ thread[t] \in Calls /\ reader \in Readers
    BY TypeIs DEF IInv
  <1>2. /\ thread[t].pc = "verify" /\ thread[t].pc \in Connected
        /\ UNCHANGED <<module, epoch, cache, lane, reader, world, era, refused>>
    BY DEF verify_pin1, Connected
  <1>3. SlotInv'
    BY <1>2 DEF IInv, SlotInv, Good
  <1>4. \/ card' = card
        \/ Alive(t) /\ \E new \in CardStates :
               /\ card' = [card EXCEPT ![reader.card] = new]
               /\ new.verified # "no" => new.tries = RETRIES_PRISTINE
    <2>1. CASE Alive(t) /\ card' = [card EXCEPT ![reader.card] = present_pin(reader.card, thread[t].pin)]
      BY <1>2, <2>1, PresentType, Zenon
    <2>2. CASE Alive(t) /\ \E q \in Pins :
                card' = [card EXCEPT ![reader.card] =
                    IF Matches(t) THEN [pin |-> q, tries |-> RETRIES_PRISTINE, verified |-> "no"]
                    ELSE present_pin(reader.card, thread[t].pin)]
      <3>1. PICK q \in Pins :
                card' = [card EXCEPT ![reader.card] =
                    IF Matches(t) THEN [pin |-> q, tries |-> RETRIES_PRISTINE, verified |-> "no"]
                    ELSE present_pin(reader.card, thread[t].pin)]
        BY <2>2, Zenon
      <3>2. CASE Matches(t)
        <4> DEFINE new == [pin |-> q, tries |-> RETRIES_PRISTINE, verified |-> "no"]
        <4>1. new \in CardStates /\ new.verified = "no"
          BY DEF CardStates, RETRIES_PRISTINE
        <4>2. card' = [card EXCEPT ![reader.card] = new]
          BY <3>1, <3>2
        <4> HIDE DEF new
        <4>3. QED
          BY <2>2, <4>1, <4>2, Zenon
      <3>3. CASE ~Matches(t)
        <4>1. card' = [card EXCEPT ![reader.card] = present_pin(reader.card, thread[t].pin)]
          BY <3>1, <3>3
        <4>2. QED
          BY <2>1, <2>2, <4>1, Zenon
      <3>4. QED
        BY <3>2, <3>3
    <2>3. QED
      BY <2>1, <2>2, Zenon DEF verify_pin1
  <1>5. card' \in [Cards -> CardStates] /\ CardInv' /\ (card' = card \/ Alive(t))
    <2>1. CASE card' = card
      BY <2>1, TypeIs DEF IInv, CardInv
    <2>2. CASE Alive(t) /\ \E new \in CardStates :
               /\ card' = [card EXCEPT ![reader.card] = new]
               /\ new.verified # "no" => new.tries = RETRIES_PRISTINE
      BY <1>2, <2>2, PresentType, CardSet, Zenon
    <2>3. QED
      BY <1>4, <2>1, <2>2
  <1>6. ASSUME thread' \in [Threads -> Calls], \A u \in Threads \ {t} : thread'[u] = thread[u],
               ThreadInv(t)'
        PROVE  IInv'
    <2>1. TypeOK'
      BY <1>2, <1>5, <1>6, ZenonT(60) DEF IInv, TypeOK, CardStates
    <2>2. \A u \in Threads \ {t} : ThreadInv(u)'
      BY <1>2, <1>5, <1>6, <2>1, Others, Zenon
    <2>3. QED
      BY <1>3, <1>5, <1>6, <2>1, <2>2 DEF IInv
  <1>7. ASSUME thread[t].op # "change",
               NEW a \in Answers, a = "ok" => Alive(t),
               NEW call \in Calls, thread' = [thread EXCEPT ![t] = call],
               call.op = thread[t].op, call.pc = "settle", call.pin = thread[t].pin,
               call.stay = thread[t].stay, call.serial = thread[t].serial,
               call.entry = thread[t].entry, call.events = thread[t].events, call.answer = a
        PROVE  IInv'
    <2>1. /\ call \in Calls /\ call.op = thread[t].op /\ call.pc = "settle" /\ call.pin = thread[t].pin
          /\ call.stay = thread[t].stay /\ call.serial = thread[t].serial /\ call.entry = thread[t].entry
          /\ call.events = thread[t].events /\ call.answer = a
      BY <1>7
    <2>2. /\ thread' \in [Threads -> Calls] /\ thread'[t] = call
          /\ \A u \in Threads \ {t} : thread'[u] = thread[u]
      BY <1>1, <1>7, <2>1, CallSet
    <2>3. CallOf(t)'
      <3>1. thread[t].op \in {"login", "sign"}
        BY <1>1, <1>2, <1>7 DEF IInv, ThreadInv, CallOf, Calls, Operations
      <3>2. QED
        BY <1>2, <2>1, <2>2, <3>1, Zenon DEF IInv, ThreadInv, CallOf, Probed
    <2>4. LaneOf(t)' /\ EntryOf(t)'
      BY <1>2, <2>1, <2>2, ZenonT(60) DEF IInv, ThreadInv, LaneOf, EntryOf, Good, Connected, Taken
    <2>5. StayOf(t)'
      BY <1>2, <2>1, <2>2, Zenon DEF IInv, ThreadInv, StayOf, Alive, Connected, Probed
    <2>6. CountOf(t)'
      <3>1. thread[t].stay \in Nat /\ thread[t].events \in Nat /\ reader.events \in Nat
        BY <1>1 DEF Calls, Readers
      <3>2. thread[t].stay <= thread[t].events /\ thread[t].events <= reader.events
        BY <1>2, <1>7 DEF IInv, ThreadInv, CountOf, Counted
      <3>3. a = "ok" => thread[t].events = thread[t].stay
        BY <1>7, <3>1, <3>2 DEF Alive
      <3>4. QED
        BY <1>2, <2>1, <2>2, <3>2, <3>3, Zenon DEF CountOf
    <2>7. ThreadInv(t)'
      BY <2>3, <2>4, <2>5, <2>6 DEF ThreadInv
    <2>8. QED
      BY <1>6, <2>2, <2>7
  <1>8. ASSUME thread[t].op = "change",
               Goto(t, "end") \/ \E a \in Answers : thread' = [thread EXCEPT ![t].pc = "end", ![t].answer = a]
        PROVE  IInv'
    <2>1. thread[t].entry = None
      BY <1>8, Zenon DEF IInv, ThreadInv, EntryOf
    <2>2. PICK call \in Calls :
             /\ thread' = [thread EXCEPT ![t] = call]
             /\ call.op = thread[t].op /\ call.pc = "end" /\ call.pin = thread[t].pin
             /\ call.stay = thread[t].stay /\ call.entry = None
      <3> DEFINE pc == "end"
      <3>1. pc = "end" /\ pc \in Steps
        BY StepNames
      <3>2. CASE Goto(t, "end")
        <4>1. thread' = [thread EXCEPT ![t] = At(thread[t], pc)]
          BY <1>1, <3>2 DEF Goto, At
        <4> HIDE DEF pc
        <4>2. QED
          BY <1>1, <2>1, <3>1, <4>1, AtType, ZenonT(60)
      <3>3. CASE \E a \in Answers : thread' = [thread EXCEPT ![t].pc = "end", ![t].answer = a]
        <4>1. PICK a \in Answers : thread' = [thread EXCEPT ![t].pc = "end", ![t].answer = a]
          BY <3>3, Zenon
        <4>2. thread' = [thread EXCEPT ![t] = Told(thread[t], pc, a)]
          BY <1>1, <4>1, Zenon DEF Told
        <4> HIDE DEF pc
        <4> DEFINE call == Told(thread[t], pc, a)
        <4>3. /\ call \in Calls /\ call.op = thread[t].op /\ call.pc = pc /\ call.pin = thread[t].pin
              /\ call.stay = thread[t].stay /\ call.entry = thread[t].entry
          BY <1>1, <3>1, ToldType
        <4> HIDE DEF call
        <4>4. QED
          BY <2>1, <3>1, <4>2, <4>3, Zenon DEF call
      <3>4. QED
        BY <1>8, <3>2, <3>3
    <2>3. /\ thread' \in [Threads -> Calls] /\ thread'[t] = call
          /\ \A u \in Threads \ {t} : thread'[u] = thread[u]
      BY <1>1, <2>2, CallSet
    <2>4. ThreadInv(t)'
      BY <1>2, <2>2, <2>3, EndKeeps
    <2>5. QED
      BY <1>6, <2>3, <2>4
  <1>9. QED
    <2>1. CASE thread[t].op # "change"
      <3> DEFINE pc == "settle"
      <3>1. pc = "settle" /\ pc \in Steps
        BY StepNames
      <3>2. CASE \E a \in Answers : /\ a = "ok" => Alive(t)
                                   /\ thread' = [thread EXCEPT ![t].pc = "settle", ![t].answer = a]
        <4>1. PICK a \in Answers : /\ a = "ok" => Alive(t)
                                   /\ thread' = [thread EXCEPT ![t].pc = "settle", ![t].answer = a]
          BY <3>2, Zenon
        <4> DEFINE call == Told(thread[t], pc, a)
        <4>2. thread' = [thread EXCEPT ![t] = call]
          BY <1>1, <4>1, Zenon DEF Told
        <4> HIDE DEF pc
        <4>3. /\ call \in Calls /\ call.op = thread[t].op /\ call.pc = "settle" /\ call.pin = thread[t].pin
              /\ call.stay = thread[t].stay /\ call.serial = thread[t].serial /\ call.entry = thread[t].entry
              /\ call.events = thread[t].events /\ call.answer = a
          BY <1>1, <3>1, ToldType
        <4> HIDE DEF call
        <4>4. QED
          BY <1>7, <2>1, <4>1, <4>2, <4>3, Zenon
      <3>3. CASE Alive(t) /\ \E a \in Answers :
                    thread' = [thread EXCEPT ![t].pc = "settle", ![t].answer = a, ![t].since = era.now]
        <4>1. PICK a \in Answers :
                    thread' = [thread EXCEPT ![t].pc = "settle", ![t].answer = a, ![t].since = era.now]
          BY <3>3, Zenon
        <4> DEFINE n == era.now
                   call == Compared(thread[t], pc, a, n)
        <4>2. n \in Nat
          BY TypeIs DEF IInv, Eras
        <4>3. thread' = [thread EXCEPT ![t] = call]
          BY <1>1, <4>1, Zenon DEF Compared
        <4> HIDE DEF pc, n
        <4>4. /\ call \in Calls /\ call.op = thread[t].op /\ call.pc = "settle" /\ call.pin = thread[t].pin
              /\ call.stay = thread[t].stay /\ call.serial = thread[t].serial /\ call.entry = thread[t].entry
              /\ call.events = thread[t].events /\ call.answer = a
          BY <1>1, <3>1, <4>2, ComparedType
        <4> HIDE DEF call
        <4>5. QED
          BY <1>7, <2>1, <3>3, <4>3, <4>4, Zenon
      <3>4. QED
        BY <2>1, <3>2, <3>3, AnswerNames DEF verify_pin1
    <2>2. CASE thread[t].op = "change"
      <3>1. Goto(t, "end") \/ \E a \in Answers : thread' = [thread EXCEPT ![t].pc = "end", ![t].answer = a]
        BY <2>2, AnswerNames DEF verify_pin1
      <3>2. QED
        BY <1>8, <2>2, <3>1
    <2>3. QED
      BY <2>1, <2>2

\* The lane keeps the rejection memory still for everyone but the call in it.
LEMMA SettleLoginKeeps ==
    ASSUME IInv, NEW t \in Threads, settle_login(t)
    PROVE  IInv'
  <1> DEFINE pc == "end"
             call == At(thread[t], pc)
             serial == thread[t].serial
             pin == thread[t].pin
  <1>1. thread \in [Threads -> Calls] /\ thread[t] \in Calls /\ cache \in Caches /\ era \in Eras
    BY TypeIs DEF IInv
  <1>2. /\ thread[t].pc = "settle" /\ thread[t].op = "login" /\ thread[t].pc \in Connected
        /\ UNCHANGED <<module, epoch, lane, reader, card, world>> /\ Goto(t, "end")
    BY Zenon DEF settle_login, Connected
  <1>3. /\ lane = t /\ thread[t].entry = None /\ serial \in Cards /\ pin \in Pins
        /\ thread[t].answer = "ok" => thread[t].events = thread[t].stay
    BY <1>2, Zenon DEF IInv, ThreadInv, CallOf, LaneOf, CountOf, EntryOf, Probed
  <1>4. cache' \in Caches /\ era' \in Eras /\ refused' \subseteq Cards \X Pins /\ SlotInv'
    <2>1. CASE UNCHANGED <<cache, era, refused>>
      BY <2>1, TypeIs, Zenon DEF IInv, SlotInv, Good
    <2>2. CASE /\ cache' = record_rejected(cache, serial, pin)
               /\ era' = Ended
               /\ refused' = refused \cup {<<serial, pin>>}
      BY <1>3, <2>2, RejectKeeps, Zenon DEF IInv
    <2>3. CASE /\ thread[t].answer = "ok" /\ ~is_rejected(cache, serial, pin)
               /\ cache' = put_positive(cache,
                     [card |-> serial, events |-> thread[t].events, pin |-> pin, generation |-> 0,
                      held |-> thread[t].pristine, open |-> TRUE, since |-> thread[t].since,
                      stay |-> thread[t].stay])
               /\ era' = Stored /\ refused' = refused
      <3> DEFINE e == [card |-> serial, events |-> thread[t].events, pin |-> pin, generation |-> 0,
                       held |-> thread[t].pristine, open |-> TRUE, since |-> thread[t].since,
                       stay |-> thread[t].stay]
      <3>1. e \in Entries
        BY <1>1, <1>3, EntryType, Zenon
      <3>2. e.card = serial /\ e.pin = pin /\ e.events = e.stay
        BY <1>3, <2>3, Zenon
      <3>3. cache' = put_positive(cache, e)
        BY <2>3, Zenon
      <3> HIDE DEF e
      <3>4. /\ cache' \in Caches /\ cache'.generation = cache.generation + 1
            /\ cache'.rejected = cache.rejected
            /\ cache'.positive = [e EXCEPT !.generation = cache.generation + 1]
        BY <1>1, <3>1, <3>3, PutType
      <3>5. /\ cache'.positive.card = serial /\ cache'.positive.pin = pin
            /\ cache'.positive.events = cache'.positive.stay
        BY <3>1, <3>2, <3>4 DEF Entries
      <3>6. <<serial, pin>> \notin cache.rejected
        BY <2>3, Zenon DEF is_rejected
      <3>7. SlotInv'
        BY <1>1, <2>3, <3>4, <3>5, <3>6, EraType, Zenon DEF IInv, SlotInv, Good
      <3>8. QED
        BY <1>1, <2>3, <3>4, <3>7, EraType, TypeIs DEF IInv
    <2>4. QED
      BY <2>1, <2>2, <2>3, Zenon DEF settle_login
  <1>5. thread' = [thread EXCEPT ![t] = call]
    BY <1>1, <1>2 DEF Goto, At
  <1>6. pc = "end" /\ pc \in Steps
    BY StepNames
  <1> HIDE DEF pc
  <1>7. /\ call \in Calls /\ call.pc = "end" /\ call.op = thread[t].op /\ call.stay = thread[t].stay
        /\ call.entry = None /\ call.pin = thread[t].pin
    BY <1>1, <1>3, <1>6, AtType, ZenonT(60)
  <1> HIDE DEF call, serial, pin
  <1>8. /\ thread' \in [Threads -> Calls] /\ thread'[t] = call
        /\ \A u \in Threads \ {t} : thread'[u] = thread[u]
    BY <1>1, <1>5, <1>7, CallSet
  <1>9. TypeOK'
    BY <1>2, <1>4, <1>8, Zenon DEF IInv, TypeOK, Caches, Eras
  <1>10. \A u \in Threads \ {t} : ThreadInv(u)'
    BY <1>2, <1>3, <1>8, <1>9, Others, Zenon
  <1>11. ThreadInv(t)'
    BY <1>2, <1>7, <1>8, EndKeeps, Zenon
  <1>12. CardInv'
    BY <1>2 DEF IInv, CardInv
  <1>13. QED
    BY <1>4, <1>9, <1>10, <1>11, <1>12 DEF IInv

\* A value that comes back is of the current generation, so of the current era.
LEMMA RestoreKeeps ==
    ASSUME IInv, NEW t \in Threads, thread[t].entry # None,
           NEW c, c = cache \/ c = restore(cache, thread[t].entry),
           cache' = drop_lease(c, t), UNCHANGED <<era, refused>>
    PROVE  cache' \in Caches /\ cache'.rejected = cache.rejected /\ SlotInv'
  <1>1. cache \in Caches /\ thread[t].entry \in Entries
    BY TypeIs DEF IInv, Calls
  <1> DEFINE e == thread[t].entry
  <1>2. Good(e) /\ e # None
    BY Zenon DEF IInv, ThreadInv, EntryOf
  <1> HIDE DEF e
  <1>3. /\ c \in Caches /\ c.generation = cache.generation /\ c.rejected = cache.rejected
        /\ c.positive = cache.positive \/ (c.positive = e /\ e.generation = cache.generation)
    BY <1>1, RestoreType DEF e
  <1>4. /\ cache' \in Caches /\ cache'.positive = c.positive /\ cache'.generation = c.generation
        /\ cache'.rejected = c.rejected
    BY <1>3, DropType
  <1>5. SlotInv'
    BY <1>2, <1>3, <1>4, Zenon DEF IInv, SlotInv, Good
  <1>6. QED
    BY <1>3, <1>4, <1>5

\* Settling the value by the answer keeps the invariant.
LEMMA SettleVerifyKeeps ==
    ASSUME IInv, NEW t \in Threads, settle_verify(t)
    PROVE  IInv'
  <1>1. thread \in [Threads -> Calls] /\ thread[t] \in Calls /\ cache \in Caches /\ era \in Eras
    BY TypeIs DEF IInv
  <1>2. /\ thread[t].pc = "settle" /\ thread[t].op = "sign" /\ thread[t].pc \in Connected
        /\ UNCHANGED <<module, epoch, lane, reader, card, world>>
    BY DEF settle_verify, Connected
  <1>3. lane = t /\ thread[t].entry # None /\ thread[t].serial \in Cards /\ thread[t].pin \in Pins
    <2>1. lane = t /\ thread[t].entry # None /\ thread[t].serial \in Cards
          /\ thread[t].entry.pin = thread[t].pin
      BY <1>2, Zenon DEF IInv, ThreadInv, CallOf, LaneOf, EntryOf, Probed, Taken
    <2>2. thread[t].entry \in Entries
      BY <1>1, <2>1 DEF Calls
    <2>3. QED
      BY <2>1, <2>2 DEF Entries
  <1>4. CardInv'
    BY <1>2 DEF IInv, CardInv
  <1>5. ASSUME thread' \in [Threads -> Calls], \A u \in Threads \ {t} : thread'[u] = thread[u],
               cache' \in Caches, era' \in Eras, refused' \subseteq Cards \X Pins, SlotInv',
               ThreadInv(t)'
        PROVE  IInv'
    <2>1. TypeOK'
      BY <1>2, <1>5, Zenon DEF IInv, TypeOK, Caches, Eras
    <2>2. \A u \in Threads \ {t} : ThreadInv(u)'
      BY <1>2, <1>3, <1>5, <2>1, Others, Zenon
    <2>3. QED
      BY <1>4, <1>5, <2>1, <2>2 DEF IInv
  <1>6. CASE Goto(t, "operate") /\ UNCHANGED <<cache, era, refused>>
    <2> DEFINE pc == "operate"
               call == At(thread[t], pc)
    <2>1. thread' = [thread EXCEPT ![t] = call]
      BY <1>1, <1>6 DEF Goto, At
    <2>2. pc = "operate" /\ pc \in Steps
      BY StepNames
    <2> HIDE DEF pc
    <2>3. /\ call \in Calls /\ call.pc = "operate" /\ call.op = thread[t].op /\ call.stay = thread[t].stay
          /\ call.entry = thread[t].entry /\ call.pin = thread[t].pin /\ call.events = thread[t].events
          /\ call.serial = thread[t].serial
      BY <1>1, <2>2, AtType
    <2> HIDE DEF call
    <2>4. /\ thread' \in [Threads -> Calls] /\ thread'[t] = call
          /\ \A u \in Threads \ {t} : thread'[u] = thread[u]
      BY <1>1, <2>1, <2>3, CallSet
    <2>5. CallOf(t)' /\ LaneOf(t)' /\ CountOf(t)'
      BY <1>2, <2>3, <2>4, Zenon DEF IInv, ThreadInv, CallOf, LaneOf, CountOf, Connected, Probed, Counted
    <2>6. StayOf(t)'
      BY <1>2, <2>3, <2>4, Zenon DEF IInv, ThreadInv, StayOf, Alive, Connected, Probed
    <2>7. EntryOf(t)'
      <3>1. cache' = cache
        BY <1>6
      <3>2. QED
        BY <1>1, <1>2, <2>3, <2>4, <3>1, ZenonT(60) DEF IInv, ThreadInv, EntryOf, Good, Taken
    <2>8. ThreadInv(t)'
      BY <2>5, <2>6, <2>7 DEF ThreadInv
    <2>9. SlotInv' /\ cache' \in Caches /\ era' \in Eras /\ refused' \subseteq Cards \X Pins
      BY <1>1, <1>6, TypeIs, Zenon DEF IInv, SlotInv, Good
    <2>10. QED
      BY <1>5, <2>4, <2>8, <2>9
  <1>7. CASE thread' = [thread EXCEPT ![t].pc = "end", ![t].entry = None]
    <2> DEFINE pc == "end"
               call == Settled(thread[t], pc, None)
    <2>1. thread' = [thread EXCEPT ![t] = call]
      BY <1>1, <1>7, Zenon DEF Settled
    <2>2. pc = "end" /\ pc \in Steps
      BY StepNames
    <2> HIDE DEF pc
    <2>3. /\ call \in Calls /\ call.pc = "end" /\ call.op = thread[t].op /\ call.stay = thread[t].stay
          /\ call.entry = None /\ call.pin = thread[t].pin
      BY <1>1, <2>2, SettledType, SMTT(30)
    <2> HIDE DEF call
    <2>4. /\ thread' \in [Threads -> Calls] /\ thread'[t] = call
          /\ \A u \in Threads \ {t} : thread'[u] = thread[u]
      BY <1>1, <2>1, <2>3, CallSet
    <2>5. ThreadInv(t)'
      BY <1>2, <2>3, <2>4, EndKeeps, Zenon
    <2>6. CASE /\ cache' = record_rejected(cache, thread[t].serial, thread[t].pin)
               /\ era' = Ended
               /\ refused' = refused \cup {<<thread[t].serial, thread[t].pin>>}
      <3>1. SlotInv' /\ cache' \in Caches /\ era' \in Eras /\ refused' \subseteq Cards \X Pins
        BY <1>1, <1>3, <2>6, RejectKeeps, Zenon DEF IInv
      <3>2. QED
        BY <1>5, <2>4, <2>5, <3>1
    <2>7. CASE /\ cache' = drop_lease(IF thread[t].answer = "unanswered"
                                     THEN restore(cache, thread[t].entry) ELSE cache, t)
               /\ UNCHANGED <<era, refused>>
      <3> DEFINE c == IF thread[t].answer = "unanswered" THEN restore(cache, thread[t].entry) ELSE cache
      <3>1. (c = cache \/ c = restore(cache, thread[t].entry)) /\ cache' = drop_lease(c, t)
        BY <2>7, Zenon
      <3> HIDE DEF c
      <3>2. cache' \in Caches /\ SlotInv'
        BY <1>3, <2>7, <3>1, RestoreKeeps, Zenon
      <3>3. era' \in Eras /\ refused' \subseteq Cards \X Pins
        BY <1>1, <2>7, TypeIs DEF IInv
      <3>4. QED
        BY <1>5, <2>4, <2>5, <3>2, <3>3
    <2>8. QED
      BY <1>6, <2>6, <2>7 DEF settle_verify
  <1>8. QED
    BY <1>6, <1>7 DEF settle_verify

\* The card in the reader loses its verification.
LEMMA Unverified ==
    ASSUME IInv, reader.card \in Cards, card' = [card EXCEPT ![reader.card].verified = "no"]
    PROVE  /\ card' \in [Cards -> CardStates] /\ CardInv'
           /\ \A c \in Cards : card'[c].tries = card[c].tries
  <1> DEFINE new == [card[reader.card] EXCEPT !.verified = "no"]
  <1>1. card \in [Cards -> CardStates] /\ card[reader.card] \in CardStates
    BY TypeIs DEF IInv
  <1>2. new \in CardStates /\ new.verified = "no" /\ new.tries = card[reader.card].tries
    BY <1>1 DEF CardStates
  <1>3. card' = [card EXCEPT ![reader.card] = new]
    OBVIOUS
  <1> HIDE DEF new
  <1>4. card' \in [Cards -> CardStates] /\ CardInv'
    BY <1>2, <1>3, CardSet, Zenon
  <1>5. \A c \in Cards : card'[c].tries = card[c].tries
    BY <1>1, <1>2, <1>3
  <1>6. QED
    BY <1>4, <1>5

\* Signing on the card keeps the invariant.
LEMMA SignKeeps ==
    ASSUME IInv, NEW t \in Threads, sign_with_card(t)
    PROVE  IInv'
  <1>1. thread \in [Threads -> Calls] /\ thread[t] \in Calls /\ reader \in Readers
    BY TypeIs DEF IInv
  <1>2. /\ thread[t].pc = "operate" /\ thread[t].pc \in Connected
        /\ UNCHANGED <<module, epoch, cache, lane, reader, world, era, refused>>
    BY DEF sign_with_card, Connected
  <1>3. PICK a \in Answers :
          /\ thread' = [thread EXCEPT ![t].pc = "finish", ![t].answer = a]
          /\ IF Alive(t) /\ a = "ok" THEN card' = [card EXCEPT ![reader.card].verified = "no"]
             ELSE UNCHANGED card
    BY AnswerNames, Zenon DEF sign_with_card
  <1>4. card' \in [Cards -> CardStates] /\ CardInv' /\ (card' = card \/ Alive(t))
    <2>1. CASE Alive(t) /\ card' = [card EXCEPT ![reader.card].verified = "no"]
      <3>1. reader.card \in Cards
        BY <1>1, <2>1 DEF Readers, Alive
      <3>2. QED
        BY <2>1, <3>1, Unverified
    <2>2. CASE card' = card
      BY <2>2, TypeIs DEF IInv, CardInv
    <2>3. QED
      BY <1>3, <2>1, <2>2
  <1> DEFINE pc == "finish"
             call == Told(thread[t], pc, a)
  <1>5. thread' = [thread EXCEPT ![t] = call]
    BY <1>1, <1>3, Zenon DEF Told
  <1>6. pc = "finish" /\ pc \in Steps
    BY StepNames
  <1> HIDE DEF pc
  <1>7. /\ call \in Calls /\ call.op = thread[t].op /\ call.pc = "finish" /\ call.pin = thread[t].pin
        /\ call.stay = thread[t].stay /\ call.serial = thread[t].serial /\ call.entry = thread[t].entry
        /\ call.events = thread[t].events
    BY <1>1, <1>6, ToldType, SMTT(30)
  <1> HIDE DEF call
  <1>8. /\ thread' \in [Threads -> Calls] /\ thread'[t] = call
        /\ \A u \in Threads \ {t} : thread'[u] = thread[u]
    BY <1>1, <1>5, <1>7, CallSet
  <1>9. TypeOK'
    BY <1>2, <1>4, <1>8, ZenonT(60) DEF IInv, TypeOK, CardStates
  <1>10. \A u \in Threads \ {t} : ThreadInv(u)'
    BY <1>2, <1>4, <1>8, <1>9, Others, Zenon
  <1>11. ThreadInv(t)'
    <2>1. CallOf(t)' /\ LaneOf(t)' /\ CountOf(t)'
      BY <1>2, <1>7, <1>8, Zenon DEF IInv, ThreadInv, CallOf, LaneOf, CountOf, Connected, Probed, Counted
    <2>2. StayOf(t)'
      BY <1>2, <1>7, <1>8, Zenon DEF IInv, ThreadInv, StayOf, Alive, Connected, Probed
    <2>3. EntryOf(t)'
      BY <1>2, <1>7, <1>8, ZenonT(60) DEF IInv, ThreadInv, EntryOf, Good, Taken
    <2>4. QED
      BY <2>1, <2>2, <2>3 DEF ThreadInv
  <1>12. SlotInv'
    BY <1>2, Zenon DEF IInv, SlotInv, Good
  <1>13. QED
    BY <1>4, <1>9, <1>10, <1>11, <1>12 DEF IInv

\* Settling the value after the operation keeps the invariant.
LEMMA FinishKeeps ==
    ASSUME IInv, NEW t \in Threads, settle_operation(t)
    PROVE  IInv'
  <1>1. thread \in [Threads -> Calls] /\ thread[t] \in Calls
    BY TypeIs DEF IInv
  <1>2. /\ thread[t].pc = "finish" /\ thread[t].pc \in Connected
        /\ UNCHANGED <<module, epoch, lane, reader, card, world, era, refused>>
        /\ thread' = [thread EXCEPT ![t].pc = "end", ![t].entry = None]
    BY DEF settle_operation, Connected
  <1>3. thread[t].entry # None
    BY <1>2, Zenon DEF IInv, ThreadInv, CallOf, EntryOf, Taken
  <1>4. cache' \in Caches /\ cache'.rejected = cache.rejected /\ SlotInv'
    <2> DEFINE c == IF thread[t].answer = "left" THEN cache ELSE restore(cache, thread[t].entry)
    <2>1. (c = cache \/ c = restore(cache, thread[t].entry)) /\ cache' = drop_lease(c, t)
      BY DEF settle_operation
    <2> HIDE DEF c
    <2>2. QED
      BY <1>2, <1>3, <2>1, RestoreKeeps
  <1> DEFINE pc == "end"
             call == Settled(thread[t], pc, None)
  <1>5. thread' = [thread EXCEPT ![t] = call]
    BY <1>1, <1>2, Zenon DEF Settled
  <1>6. pc = "end" /\ pc \in Steps
    BY StepNames
  <1> HIDE DEF pc
  <1>7. /\ call \in Calls /\ call.pc = "end" /\ call.op = thread[t].op /\ call.stay = thread[t].stay
        /\ call.entry = None /\ call.pin = thread[t].pin
    BY <1>1, <1>6, SettledType, SMTT(30)
  <1> HIDE DEF call
  <1>8. /\ thread' \in [Threads -> Calls] /\ thread'[t] = call
        /\ \A u \in Threads \ {t} : thread'[u] = thread[u]
    BY <1>1, <1>5, <1>7, CallSet
  <1>9. TypeOK'
    BY <1>2, <1>4, <1>8 DEF IInv, TypeOK, Caches
  <1>10. \A u \in Threads \ {t} : ThreadInv(u)'
    BY <1>2, <1>4, <1>8, <1>9, Others
  <1>11. ThreadInv(t)'
    BY <1>2, <1>7, <1>8, EndKeeps
  <1>12. CardInv'
    BY <1>2 DEF IInv, CardInv
  <1>13. QED
    BY <1>4, <1>9, <1>10, <1>11, <1>12 DEF IInv

\* Leaving the lane keeps the invariant.
LEMMA LeaveKeeps ==
    ASSUME IInv, NEW t \in Threads, pin_sequence_end(t)
    PROVE  IInv'
  <1>1. thread \in [Threads -> Calls] /\ reader \in Readers /\ reader.events \in Nat
    BY TypeIs DEF IInv, Readers
  <1>2. /\ thread[t].pc = "end" /\ thread[t].pc \in Connected
        /\ UNCHANGED <<module, epoch, cache, world, era, refused>>
        /\ lane' = IF lane = t THEN None ELSE lane
    BY DEF pin_sequence_end, Connected
  <1>3. /\ card' \in [Cards -> CardStates] /\ CardInv'
        /\ \A c \in Cards : card'[c].tries = card[c].tries
    <2>1. CASE Alive(t) /\ card' = [card EXCEPT ![reader.card].verified = "no"]
      <3>1. reader.card \in Cards
        BY <1>1, <2>1 DEF Readers, Alive
      <3>2. QED
        BY <2>1, <3>1, Unverified
    <2>2. CASE card' = card
      BY <2>2, TypeIs DEF IInv, CardInv
    <2>3. QED
      BY <2>1, <2>2 DEF pin_sequence_end
  <1>4. /\ reader' \in Readers /\ reader'.card = reader.card /\ reader'.events = reader.events
        /\ reader'.txn = IF reader.txn = t THEN None ELSE reader.txn
    BY <1>1 DEF pin_sequence_end, Readers
  <1>5. /\ thread' \in [Threads -> Calls] /\ thread'[t] = Idle
        /\ \A u \in Threads \ {t} : thread'[u] = thread[u]
    <2>1. Idle \in Calls
      BY Zenon DEF Idle, Calls, Operations, Steps, Answers
    <2>2. QED
      BY <1>1, <2>1 DEF pin_sequence_end
  <1>6. TypeOK'
    BY <1>2, <1>3, <1>4, <1>5, Zenon DEF IInv, TypeOK, Readers, CardStates
  <1>7. ASSUME NEW u \in Threads \ {t} PROVE ThreadInv(u)'
    <2>1. reader.card # None => reader.card \in Cards /\ card[reader.card].tries \in Nat
      BY <1>1, TypeIs DEF IInv, Readers, CardStates
    <2>2. thread[u].pc \in Connected /\ Alive(u) => reader.txn = u
      BY Zenon DEF IInv, ThreadInv, StayOf
    <2>3. Around(u)
      <3>1. reader.events <= reader'.events
        BY <1>1, <1>4 DEF Readers
      <3>2. reader'.card # None /\ thread[u].stay = reader'.events /\ thread[u].pc \in Connected =>
              reader.txn = u /\ reader.card \in Cards /\ card[reader.card].tries \in Nat
        BY <1>4, <2>1, <2>2, Zenon DEF Alive
      <3>3. reader.card \in Cards /\ card[reader.card].tries \in Nat =>
              card'[reader.card].tries >= card[reader.card].tries
        BY <1>3
      <3>4. /\ thread'[u] = thread[u] /\ (lane = u => lane' = u)
            /\ cache'.rejected = cache.rejected \/ lane # u
        BY <1>2, <1>5
      <3>5. QED
        BY <1>4, <3>1, <3>2, <3>3, <3>4, Zenon DEF Around
    <2>4. QED
      BY <1>6, <2>3, Bystander DEF IInv
  <1>8. ThreadInv(t)'
    BY <1>5, IdleKeeps
  <1>9. SlotInv'
    BY <1>2, Zenon DEF IInv, SlotInv, Good
  <1>10. QED
    BY <1>3, <1>6, <1>7, <1>8, <1>9 DEF IInv

-----------------------------------------------------------------------------
(* The world around the module. *)

\* A step on the reader or its card that no call of the module has hold of.
LEMMA Outside ==
    ASSUME IInv, UNCHANGED <<module, epoch, cache, lane, thread, era, refused>>,
           world' \in Worlds, reader' \in Readers, card' \in [Cards -> CardStates], CardInv',
           \/ reader'.events = reader.events + 1
           \/ reader' = reader /\ CardFree
    PROVE  IInv'
  <1>1. TypeOK'
    BY Zenon DEF IInv, TypeOK, Readers, CardStates
  <1>2. reader.events \in Nat
    BY TypeIs DEF IInv, Readers
  <1>3. ASSUME NEW u \in Threads PROVE ThreadInv(u)'
    <2>1. /\ thread[u].pc \in Connected => thread[u].stay <= reader.events
          /\ thread[u].pc \in Connected /\ Alive(u) => reader.txn = u
      BY Zenon DEF IInv, ThreadInv, StayOf
    <2>2. thread[u].stay \in Nat
      BY TypeIs DEF IInv, Calls
    <2>3. CASE reader'.events = reader.events + 1
      <3>1. reader.events <= reader'.events
        BY <1>2, <2>3
      <3>2. thread[u].pc \in Connected => thread[u].stay # reader'.events
        BY <1>2, <2>1, <2>2, <2>3
      <3>3. Around(u)
        BY <3>1, <3>2, Zenon DEF Around
      <3>4. QED
        BY <1>1, <3>3, Bystander DEF IInv
    <2>4. CASE reader' = reader /\ CardFree
      <3>1. ~(thread[u].pc \in Connected /\ Alive(u))
        BY <2>1, <2>4, NoneAssumption, Zenon DEF CardFree
      <3>2. Around(u)
        BY <1>2, <2>4, <3>1, SMTT(30) DEF Around, Alive
      <3>3. QED
        BY <1>1, <3>2, Bystander DEF IInv
    <2>5. QED
      BY <2>3, <2>4
  <1>4. SlotInv'
    BY DEF IInv, SlotInv, Good
  <1>5. QED
    BY <1>1, <1>3, <1>4 DEF IInv

\* Taking the card out keeps the invariant.
LEMMA RemoveKeeps ==
    ASSUME IInv, remove_card
    PROVE  IInv'
  <1>1. reader \in Readers /\ reader.card \in Cards /\ reader.events \in Nat
    BY TypeIs DEF IInv, Readers, remove_card
  <1>2. card' \in [Cards -> CardStates] /\ CardInv'
    BY <1>1, Unverified DEF remove_card
  <1>3. reader' \in Readers /\ reader'.events = reader.events + 1
    <2>1. reader.events + 1 \in Nat
      BY <1>1
    <2>2. QED
      BY <1>1, <2>1, Zenon DEF Readers, remove_card
  <1>4. QED
    BY <1>2, <1>3, Outside, TypeIs DEF IInv, remove_card

\* Putting a card in keeps the invariant: the insertion count moved.
LEMMA InsertKeeps ==
    ASSUME IInv, NEW c \in world.cards, insert_card(c)
    PROVE  IInv'
  <1>1. reader \in Readers /\ c \in Cards /\ reader.events \in Nat
    BY TypeIs DEF IInv, Readers, Worlds
  <1>2. card' \in [Cards -> CardStates] /\ CardInv'
    BY TypeIs DEF IInv, CardInv, insert_card
  <1>3. reader' \in Readers /\ reader'.events = reader.events + 1
    <2>1. reader.events + 1 \in Nat
      BY <1>1
    <2>2. QED
      BY <1>1, <2>1, Zenon DEF Readers, insert_card
  <1>4. QED
    BY <1>2, <1>3, Outside, TypeIs DEF IInv, insert_card

\* What another application does to the card keeps the invariant.
LEMMA OtherKeeps ==
    ASSUME IInv, other_application
    PROVE  IInv'
  <1>1. reader \in Readers /\ reader.card \in Cards /\ card[reader.card] \in CardStates
    BY TypeIs DEF IInv, Readers, other_application
  <1> DEFINE was == card[reader.card]
             right == [was EXCEPT !.tries = RETRIES_PRISTINE, !.verified = "other"]
             wrong == [was EXCEPT !.tries = IF @ = 0 THEN 0 ELSE @ - 1, !.verified = "no"]
             changed == {[pin |-> q, tries |-> RETRIES_PRISTINE, verified |-> "no"] : q \in Pins}
  <1>2. PICK new \in {right, wrong} \cup changed : card' = [card EXCEPT ![reader.card] = new]
    BY Zenon DEF other_application
  <1>3. RETRIES_PRISTINE \in 0 .. RETRIES_PRISTINE
    BY DEF RETRIES_PRISTINE
  <1>4. was \in CardStates /\ (IF was.tries = 0 THEN 0 ELSE was.tries - 1) \in 0 .. RETRIES_PRISTINE
    BY <1>1 DEF CardStates, RETRIES_PRISTINE
  <1> HIDE DEF was
  <1>5. right \in CardStates /\ right.tries = RETRIES_PRISTINE
    BY <1>3, <1>4, Zenon DEF CardStates
  <1>6. wrong \in CardStates /\ wrong.verified = "no"
    BY <1>4, Zenon DEF CardStates
  <1>7. \A q \in Pins : LET n == [pin |-> q, tries |-> RETRIES_PRISTINE, verified |-> "no"]
                        IN  n \in CardStates /\ n.tries = RETRIES_PRISTINE
    BY <1>3 DEF CardStates
  <1>8. new \in CardStates /\ (new.verified # "no" => new.tries = RETRIES_PRISTINE)
    BY <1>2, <1>5, <1>6, <1>7, Zenon
  <1>9. card' \in [Cards -> CardStates] /\ CardInv'
    BY <1>1, <1>2, <1>8, CardSet, Zenon
  <1>10. world' \in Worlds
    <2>1. world \in Worlds /\ world.others \in Nat /\ world.others - 1 \in Nat
      BY TypeIs DEF IInv, Worlds, other_application
    <2>2. QED
      BY <2>1 DEF Worlds, other_application
  <1>11. QED
    BY <1>1, <1>9, <1>10, Outside DEF other_application

\* The 30 seconds of a login bridge pass: the value stays what it is.
LEMMA BridgeKeeps ==
    ASSUME IInv, bridge_runs_out
    PROVE  IInv'
  <1>1. cache \in Caches /\ cache.positive \in Entries /\ era \in Eras
    BY TypeIs DEF IInv, Caches, bridge_runs_out
  <1> DEFINE e == [cache.positive EXCEPT !.open = FALSE]
  <1>2. /\ e \in Entries /\ e.card = cache.positive.card /\ e.pin = cache.positive.pin
        /\ e.events = cache.positive.events /\ e.stay = cache.positive.stay
    BY <1>1, Zenon DEF Entries
  <1>3. cache' = [cache EXCEPT !.positive = e]
    BY DEF bridge_runs_out
  <1> HIDE DEF e
  <1>4. /\ cache' \in Caches /\ cache'.positive = e /\ cache'.rejected = cache.rejected
        /\ cache'.generation = cache.generation
    BY <1>1, <1>2, <1>3 DEF Caches
  <1>5. UNCHANGED <<module, epoch, lane, reader, card, thread, world, era, refused>>
    BY DEF bridge_runs_out
  <1>6. TypeOK'
    BY <1>4, <1>5, Zenon DEF IInv, TypeOK, Caches
  <1>7. CacheKept
    <2>1. cache.positive # None
      BY DEF bridge_runs_out
    <2>2. QED
      BY <1>1, <1>2, <1>4, <1>5, <2>1, Zenon DEF CacheKept
  <1>8. QED
    BY <1>5, <1>6, <1>7, Quiet

-----------------------------------------------------------------------------
(* Calls that leave the module lock for the card. *)

\* The calls a login and a change of PIN begin as.
LEMMA IdleIs ==
    ASSUME NEW p \in Pins
    PROVE  /\ Idle \in Calls
           /\ LET call == [Idle EXCEPT !.op = "login", !.pc = "lane", !.pin = p]
              IN  call \in Calls /\ call.entry = None /\ call.op = "login" /\ call.pc = "lane" /\ call.pin = p
           /\ LET call == [Idle EXCEPT !.op = "change", !.pc = "open", !.pin = p]
              IN  call \in Calls /\ call.entry = None /\ call.op = "change" /\ call.pc = "open" /\ call.pin = p
  BY Zenon DEF Idle, Calls, Operations, Steps, Answers

\* C_Login keeps the invariant.
LEMMA LoginKeeps ==
    ASSUME IInv, NEW t \in world.callers, NEW h \in Handles, NEW p \in Pins, c_login(t, h, p)
    PROVE  IInv'
  <1>1. t \in Threads /\ thread \in [Threads -> Calls] /\ module \in Modules
    BY TypeIs DEF IInv, Worlds
  <1>2. CacheKept /\ UNCHANGED <<epoch, lane, reader, card, world, refused>>
    BY AskKept DEF IInv, c_login
  <1>3. CASE UNCHANGED <<module, thread>>
    <2>1. TypeOK'
      BY <1>2, <1>3, TypeIs, Zenon DEF IInv, TypeOK, CacheKept, Caches, Eras
    <2>2. QED
      BY <1>2, <1>3, <2>1, Quiet
  <1>4. CASE /\ module' = [module EXCEPT !.bound = TRUE]
             /\ thread' = [thread EXCEPT ![t] =
                  [Idle EXCEPT !.op = "login", !.pc = "lane", !.pin = p]]
    <2> DEFINE call == [Idle EXCEPT !.op = "login", !.pc = "lane", !.pin = p]
    <2>1. call \in Calls /\ call.entry = None /\ call.op = "login" /\ call.pc = "lane" /\ call.pin = p
      BY IdleIs, Zenon
    <2>2. thread' = [thread EXCEPT ![t] = call]
      BY <1>4
    <2> HIDE DEF call
    <2>3. thread' \in [Threads -> Calls]
      BY <1>1, <2>1, <2>2
    <2>4. module' \in Modules
      BY <1>1, <1>4, Zenon DEF Modules
    <2>5. TypeOK'
      BY <1>2, <2>3, <2>4, TypeIs, Zenon DEF IInv, TypeOK, CacheKept, Caches, Eras, Modules
    <2>6. QED
      BY <1>1, <1>2, <2>1, <2>2, <2>5, Begun, Zenon
  <1>5. QED
    BY <1>3, <1>4 DEF c_login

\* C_Sign keeps the invariant.
LEMMA SignCallKeeps ==
    ASSUME IInv, NEW t \in world.callers, NEW h \in Handles, c_sign(t, h)
    PROVE  IInv'
  <1>1. t \in Threads /\ thread \in [Threads -> Calls] /\ module \in Modules
    BY TypeIs DEF IInv, Worlds
  <1>2. CacheKept /\ UNCHANGED <<epoch, lane, reader, card, world, refused>>
    BY SameCacheKept DEF IInv, c_sign
  <1> DEFINE call == [Idle EXCEPT !.op = "sign", !.pc = "lane"]
  <1>3. call \in Calls /\ call.entry = None /\ call.op = "sign" /\ call.pc = "lane"
    BY Zenon DEF Idle, Calls, Operations, Steps, Answers
  <1>4. thread' = [thread EXCEPT ![t] = call]
    BY DEF c_sign
  <1> HIDE DEF call
  <1>5. thread' \in [Threads -> Calls]
    BY <1>1, <1>3, <1>4
  <1>6. module' \in Modules
    <2>1. PICK S \in SUBSET Handles : module.sessions \in [S -> BOOLEAN]
      BY <1>1 DEF Modules
    <2>2. [module.sessions EXCEPT ![h] = FALSE] \in [S -> BOOLEAN]
      BY <2>1, Zenon
    <2> DEFINE bound == [module EXCEPT !.bound = TRUE]
    <2>3. bound \in Modules /\ bound.sessions = module.sessions
      BY <1>1, Zenon DEF Modules
    <2>4. module' = [bound EXCEPT !.sessions = [bound.sessions EXCEPT ![h] = FALSE]]
      BY DEF c_sign
    <2> HIDE DEF bound
    <2>5. QED
      BY <2>2, <2>3, <2>4, ZenonT(60) DEF Modules
  <1>7. TypeOK'
    BY <1>2, <1>5, <1>6, TypeIs, Zenon DEF IInv, TypeOK, CacheKept, Caches, Eras, Modules
  <1>8. QED
    BY <1>1, <1>2, <1>3, <1>4, <1>7, Begun, Zenon

\* C_SetPIN keeps the invariant.
LEMMA SetPinKeeps ==
    ASSUME IInv, NEW t \in world.callers, NEW h \in Handles, NEW p \in Pins, c_set_pin(t, h, p)
    PROVE  IInv'
  <1>1. t \in Threads /\ thread \in [Threads -> Calls]
    BY TypeIs DEF IInv, Worlds
  <1>2. CacheKept /\ UNCHANGED <<module, epoch, lane, reader, card, world, refused>>
    BY LogoutKept DEF IInv, c_set_pin
  <1> DEFINE call == [Idle EXCEPT !.op = "change", !.pc = "open", !.pin = p]
  <1>3. call \in Calls /\ call.entry = None /\ call.op = "change" /\ call.pc = "open" /\ call.pin = p
    BY IdleIs, Zenon
  <1>4. thread' = [thread EXCEPT ![t] = call]
    BY DEF c_set_pin
  <1> HIDE DEF call
  <1>5. thread' \in [Threads -> Calls]
    BY <1>1, <1>3, <1>4
  <1>6. TypeOK'
    BY <1>2, <1>5, TypeIs, Zenon DEF IInv, TypeOK, CacheKept, Caches, Eras
  <1>7. QED
    BY <1>1, <1>2, <1>3, <1>4, <1>6, Begun, Zenon

-----------------------------------------------------------------------------
(* The invariant holds. *)

\* The invariant holds before C_Initialize.
LEMMA InitHolds == Init => IInv
  <1> SUFFICES ASSUME Init PROVE IInv
    OBVIOUS
  <1>1. TypeOK
    BY TypeInit
  <1>2. ASSUME NEW t \in Threads PROVE ThreadInv(t)
    <2>1. thread[t] = Idle
      BY Zenon DEF Init
    <2>2. /\ thread[t].op = "idle" /\ thread[t].pc = "idle" /\ thread[t].entry = None
          /\ "idle" \notin Connected /\ "idle" \notin Probed /\ "idle" \notin Counted /\ "idle" \notin Taken
      BY <2>1 DEF Idle, Connected, Probed, Counted, Taken
    <2>3. CallOf(t) /\ LaneOf(t)
      BY <2>2, Zenon DEF CallOf, LaneOf
    <2>4. StayOf(t) /\ CountOf(t)
      BY <2>2, Zenon DEF StayOf, CountOf
    <2>5. EntryOf(t)
      BY <2>2, Zenon DEF EntryOf
    <2>6. QED
      BY <2>3, <2>4, <2>5 DEF ThreadInv
  <1>3. SlotInv
    BY Zenon DEF Init, SlotInv
  <1>4. CardInv
    <2>1. ASSUME NEW c \in Cards PROVE card[c].verified = "no"
      <3>1. card[c] \in {[pin |-> p, tries |-> RETRIES_PRISTINE, verified |-> "no"] : p \in Pins}
        BY Zenon DEF Init
      <3>2. QED
        BY <3>1
    <2>2. QED
      BY <2>1, Zenon DEF CardInv
  <1>5. QED
    BY <1>1, <1>2, <1>3, <1>4 DEF IInv

\* Every step of a call in the lane keeps the invariant.
LEMMA CardStepKeeps ==
    ASSUME IInv, NEW t \in Threads, CardStep(t)
    PROVE  IInv'
  BY LaneKeeps, OpenKeeps, ProbeKeeps, EventsKeeps, CheckoutKeeps, CheckKeeps, VerifyKeeps,
     SettleLoginKeeps, SettleVerifyKeeps, SignKeeps, FinishKeeps, LeaveKeeps DEF CardStep

\* Every step keeps the invariant.
LEMMA StepKeeps == IInv /\ [Next]_vars => IInv'
  <1> SUFFICES ASSUME IInv, [Next]_vars PROVE IInv'
    OBVIOUS
  <1>1. CASE UNCHANGED vars
    <2>1. CacheKept
      BY <1>1, SameCacheKept DEF IInv, vars
    <2>2. TypeOK'
      BY <1>1, ZenonT(60) DEF IInv, TypeOK, vars, Open
    <2>3. QED
      BY <1>1, <2>1, <2>2, Quiet DEF vars
  <1>2. CASE \/ c_initialize \/ c_finalize \/ c_get_slot_list \/ c_open_session \/ c_close_all_sessions
             \/ \E h \in Handles : c_close_session(h) \/ c_logout(h) \/ c_get_session_info(h)
                                     \/ c_sign_init(h)
    <2>1. TypeOK' /\ CacheKept /\ UNCHANGED <<lane, reader, card, thread, refused>>
      BY <1>2, LockTypes DEF IInv
    <2>2. QED
      BY <2>1, Quiet
  <1>3. ASSUME NEW t \in world.callers, NEW h \in Handles,
               c_sign(t, h) \/ \E p \in Pins : c_login(t, h, p) \/ c_set_pin(t, h, p)
        PROVE  IInv'
    BY <1>3, SignCallKeeps, LoginKeeps, SetPinKeeps, Zenon
  <1>4. ASSUME NEW t \in Threads, CardStep(t) PROVE IInv'
    BY <1>4, CardStepKeeps
  <1>5. CASE remove_card \/ (\E c \in world.cards : insert_card(c)) \/ other_application \/ bridge_runs_out
    BY <1>5, RemoveKeeps, InsertKeeps, OtherKeeps, BridgeKeeps
  <1>6. QED
    BY <1>1, <1>2, <1>3, <1>4, <1>5, Zenon DEF Next

\* What the calls of the module know of the card, the lane and the cache at
\* every step, the ground of the theorems below.
THEOREM Invariant == Spec => []IInv
  BY InitHolds, StepKeeps, PTL DEF Spec

\* Every variable keeps its type whatever the callers, the cards and the other
\* applications do.
THEOREM TypeCorrect == Spec => []TypeOK
  <1>1. IInv => TypeOK
    BY DEF IInv
  <1>2. QED
    BY <1>1, Invariant, PTL

-----------------------------------------------------------------------------
(* The era of the value in the slot. *)

\* The card accepted the value of a login that settle_login has yet to store.
Accepted(t) == thread[t].op = "login" /\ thread[t].pc = "settle" /\ thread[t].answer = "ok"

\* A value of the current generation was accepted after the last ending that
\* binds, wherever it is: in the slot, out with a signature, or with a login.
EraInv ==
    /\ era.firm <= era.now
    /\ cache.positive # None =>
          cache.positive.generation = cache.generation /\ cache.positive.since >= era.firm
    /\ \A t \in Threads :
          /\ Accepted(t) => thread[t].since >= era.firm
          /\ thread[t].entry # None =>
                /\ thread[t].entry.generation <= cache.generation
                /\ thread[t].entry.generation = cache.generation => thread[t].entry.since >= era.firm

\* The numbers of the era invariant.
LEMMA EraNumbers ==
    ASSUME TypeOK
    PROVE  /\ era.now \in Nat /\ era.firm \in Nat /\ cache.generation \in Nat
           /\ cache.positive # None => cache.positive.since \in Nat /\ cache.positive.generation \in Nat
           /\ \A t \in Threads :
                /\ thread[t].since \in Nat
                /\ thread[t].entry # None =>
                      thread[t].entry.since \in Nat /\ thread[t].entry.generation \in Nat
  <1>1. era \in Eras /\ cache \in Caches /\ thread \in [Threads -> Calls]
    BY TypeIs
  <1>2. era.now \in Nat /\ era.firm \in Nat /\ cache.generation \in Nat
    BY <1>1 DEF Eras, Caches
  <1>3. cache.positive # None => cache.positive.since \in Nat /\ cache.positive.generation \in Nat
    BY <1>1, Zenon DEF Caches, Entries
  <1>4. ASSUME NEW t \in Threads
        PROVE  /\ thread[t].since \in Nat
               /\ thread[t].entry # None =>
                     thread[t].entry.since \in Nat /\ thread[t].entry.generation \in Nat
    <2>1. thread[t] \in Calls
      BY <1>1
    <2>2. thread[t].since \in Nat /\ thread[t].entry \in Entries \cup {None}
      BY <2>1 DEF Calls
    <2>3. QED
      BY <2>2 DEF Entries
  <1>5. QED
    BY <1>2, <1>3, <1>4

\* What a step does to a call that neither presents nor takes a value.
Carries(t) ==
    /\ Accepted(t)' => Accepted(t) /\ thread'[t].since = thread[t].since
    /\ thread'[t].entry # None => thread'[t].entry = thread[t].entry

\* An ending starts a generation, so no value that is out comes back, and the
\* ending binds unless a login with an accepted value is under way.
LEMMA EraEnds ==
    ASSUME TypeOK, EraInv, era' = Ended, cache'.positive = None,
           cache'.generation = cache.generation + 1, \A t \in Threads : Carries(t)
    PROVE  EraInv'
  <1>1. era'.now = era.now + 1 /\ era'.firm = IF Crossed THEN era.firm ELSE era.now + 1
    BY DEF Ended
  <1>2. era'.firm <= era'.now
    <2>1. era.firm <= era.now
      BY Zenon DEF EraInv
    <2>2. era.firm \in Nat /\ era.now \in Nat
      BY EraNumbers, Zenon
    <2>3. QED
      BY <1>1, <2>1, <2>2
  <1>3. ASSUME NEW t \in Threads, Accepted(t)' PROVE thread'[t].since >= era'.firm
    <2>1. Accepted(t) /\ thread'[t].since = thread[t].since
      BY <1>3 DEF Carries
    <2>2. Crossed
      BY <2>1, Zenon DEF Crossed, Accepted
    <2>3. QED
      BY <1>1, <2>1, <2>2, Zenon DEF EraInv
  <1>4. ASSUME NEW t \in Threads, thread'[t].entry # None
        PROVE  thread'[t].entry.generation < cache'.generation
    <2>1. thread'[t].entry = thread[t].entry
      BY <1>4 DEF Carries
    <2>2. thread[t].entry.generation <= cache.generation
      BY <1>4, <2>1, Zenon DEF EraInv
    <2>3. thread[t].entry.generation \in Nat /\ cache.generation \in Nat
      BY <1>4, <2>1, EraNumbers, Zenon
    <2>4. QED
      BY <2>1, <2>2, <2>3
  <1>5. ASSUME NEW t \in Threads, thread'[t].entry # None
        PROVE  /\ thread'[t].entry.generation <= cache'.generation
               /\ thread'[t].entry.generation # cache'.generation
    <2>1. thread'[t].entry = thread[t].entry
      BY <1>5 DEF Carries
    <2>2. thread[t].entry.generation \in Nat /\ cache.generation \in Nat
      BY <1>5, <2>1, EraNumbers, Zenon
    <2>3. thread'[t].entry.generation < cache'.generation
      BY <1>4, <1>5, Zenon
    <2>4. QED
      BY <2>1, <2>2, <2>3
  <1>6. QED
    BY <1>2, <1>3, <1>5, Zenon DEF EraInv

\* A step that ends nothing: the slot is emptied, or keeps its value, or gets back
\* one of its own generation; and a signature takes the value of the slot or a
\* login learns now that its value is accepted.
LEMMA EraStays ==
    ASSUME TypeOK, EraInv, era' = era, cache'.generation = cache.generation,
           \/ cache'.positive = None
           \/ /\ cache.positive # None
              /\ cache'.positive.generation = cache.positive.generation
              /\ cache'.positive.since = cache.positive.since
           \/ \E t \in Threads : /\ thread[t].entry # None /\ cache'.positive = thread[t].entry
                                 /\ thread[t].entry.generation = cache.generation,
           \A t \in Threads :
              \/ Carries(t)
              \/ thread'[t].since = era.now /\ thread'[t].entry = thread[t].entry
              \/ ~Accepted(t)' /\ cache.positive # None /\ thread'[t].entry = cache.positive
    PROVE  EraInv'
  <1>1. cache'.positive # None =>
          cache'.positive.generation = cache'.generation /\ cache'.positive.since >= era'.firm
    BY Zenon DEF EraInv
  <1>2. era'.firm <= era'.now
    BY Zenon DEF EraInv
  <1>3. ASSUME NEW t \in Threads
        PROVE  /\ Accepted(t)' => thread'[t].since >= era'.firm
               /\ thread'[t].entry # None =>
                     /\ thread'[t].entry.generation <= cache'.generation
                     /\ thread'[t].entry.generation = cache'.generation =>
                           thread'[t].entry.since >= era'.firm
    <2>1. CASE Carries(t)
      BY <2>1, Zenon DEF EraInv, Carries
    <2>2. CASE thread'[t].since = era.now /\ thread'[t].entry = thread[t].entry
      <3>1. thread'[t].since >= era'.firm
        BY <2>2, EraNumbers, Zenon DEF EraInv
      <3>2. QED
        BY <2>2, <3>1, Zenon DEF EraInv
    <2>3. CASE ~Accepted(t)' /\ cache.positive # None /\ thread'[t].entry = cache.positive
      <3>1. cache.positive.generation = cache.generation /\ cache.positive.since >= era.firm
        BY <2>3, Zenon DEF EraInv
      <3>2. cache.generation \in Nat
        BY EraNumbers, Zenon
      <3>3. cache.generation <= cache.generation
        BY <3>2
      <3>4. QED
        BY <2>3, <3>1, <3>3, Zenon
    <2>4. QED
      BY <2>1, <2>2, <2>3, Zenon
  <1>4. QED
    BY <1>1, <1>2, <1>3, Zenon DEF EraInv

\* What a call under the module lock does to the slot and to its history.
LEMMA SlotSteps ==
    ASSUME TypeOK, Logout \/ AskLogin \/ UNCHANGED <<cache, era>>
    PROVE  \/ cache' = cache /\ era' = era
           \/ cache' = clear_positive(cache) /\ era' = Ended
  <1>1. cache \in Caches /\ cache.generation \in Nat
    BY TypeIs DEF Caches
  <1>2. clear_positive(cache).generation # cache.generation
    BY <1>1, ClearType
  <1>3. CASE AskLogin
    BY <1>2, <1>3 DEF AskLogin, asked
  <1>4. QED
    BY <1>3 DEF Logout

\* Such a call keeps the era invariant.
LEMMA EraSlot ==
    ASSUME TypeOK, EraInv, \A t \in Threads : Carries(t),
           \/ cache' = cache /\ era' = era
           \/ cache' = clear_positive(cache) /\ era' = Ended
    PROVE  EraInv'
  <1>1. cache \in Caches
    BY TypeIs
  <1>2. CASE cache' = cache /\ era' = era
    BY <1>2, EraStays
  <1>3. CASE cache' = clear_positive(cache) /\ era' = Ended
    BY <1>1, <1>3, ClearType, EraEnds
  <1>4. QED
    BY <1>2, <1>3

\* A call that nothing happens to carries what it has, and so does one that
\* goes on to any step but settle with the value it had or with none.
LEMMA CarriesOn ==
    ASSUME NEW t \in Threads,
           \/ thread'[t] = thread[t]
           \/ /\ thread'[t].pc # "settle" \/ thread'[t].op # "login" \/ thread'[t].answer # "ok"
              /\ thread'[t].entry = None \/ thread'[t].entry = thread[t].entry
    PROVE  Carries(t)
  BY Zenon DEF Carries, Accepted

\* A call that finishes under the module lock keeps the era invariant.
LEMMA EraLock ==
    ASSUME TypeOK, EraInv,
           c_initialize \/ c_finalize \/ c_get_slot_list \/ c_open_session \/ c_close_all_sessions
              \/ (\E h \in Handles : c_close_session(h) \/ c_logout(h) \/ c_get_session_info(h)
                                     \/ c_sign_init(h))
    PROVE  EraInv'
  <1>1. thread' = thread /\ (Logout \/ AskLogin \/ UNCHANGED <<cache, era>>)
    BY Zenon DEF c_initialize, c_finalize, c_get_slot_list, c_open_session, c_close_all_sessions,
                 c_close_session, c_logout, c_get_session_info, c_sign_init
  <1>2. \A t \in Threads : Carries(t)
    BY <1>1, CarriesOn
  <1>3. QED
    BY <1>1, <1>2, SlotSteps, EraSlot

\* A call that sets out for the card keeps it too: it has no value yet.
LEMMA EraBegin ==
    ASSUME IInv, EraInv, NEW t \in world.callers, NEW h \in Handles,
           c_sign(t, h) \/ \E p \in Pins : c_login(t, h, p) \/ c_set_pin(t, h, p)
    PROVE  EraInv'
  <1>1. TypeOK /\ thread \in [Threads -> Calls] /\ t \in Threads
    BY TypeIs DEF IInv, Worlds
  <1>2. Logout \/ AskLogin \/ UNCHANGED <<cache, era>>
    BY Zenon DEF c_sign, c_login, c_set_pin
  <1>3. \/ thread' = thread
        \/ \E call : /\ thread' = [thread EXCEPT ![t] = call]
                     /\ call.pc # "settle" /\ call.entry = None
    <2>1. CASE c_sign(t, h)
      <3> DEFINE call == [Idle EXCEPT !.op = "sign", !.pc = "lane"]
      <3>1. call.pc # "settle" /\ call.entry = None
        BY DEF Idle
      <3>2. QED
        BY <2>1, <3>1, Zenon DEF c_sign
    <2>2. ASSUME NEW p \in Pins, c_login(t, h, p)
          PROVE  thread' = thread \/ \E call : /\ thread' = [thread EXCEPT ![t] = call]
                                              /\ call.pc # "settle" /\ call.entry = None
      <3> DEFINE call == [Idle EXCEPT !.op = "login", !.pc = "lane", !.pin = p]
      <3>1. call.pc # "settle" /\ call.entry = None
        BY DEF Idle
      <3>2. QED
        BY <2>2, <3>1, Zenon DEF c_login
    <2>3. ASSUME NEW p \in Pins, c_set_pin(t, h, p)
          PROVE  \E call : /\ thread' = [thread EXCEPT ![t] = call]
                           /\ call.pc # "settle" /\ call.entry = None
      <3> DEFINE call == [Idle EXCEPT !.op = "change", !.pc = "open", !.pin = p]
      <3>1. call.pc # "settle" /\ call.entry = None
        BY DEF Idle
      <3>2. QED
        BY <2>3, <3>1, Zenon DEF c_set_pin
    <2>4. QED
      BY <2>1, <2>2, <2>3, Zenon
  <1>4. \A u \in Threads : Carries(u)
    <2>1. CASE thread' = thread
      BY <2>1, CarriesOn
    <2>2. ASSUME NEW call, thread' = [thread EXCEPT ![t] = call],
                 call.pc # "settle", call.entry = None
          PROVE  \A u \in Threads : Carries(u)
      <3>1. thread'[t] = call /\ \A u \in Threads \ {t} : thread'[u] = thread[u]
        BY <1>1, <2>2, Zenon
      <3>2. QED
        BY <2>2, <3>1, CarriesOn, Zenon
    <2>3. QED
      BY <1>3, <2>1, <2>2, Zenon
  <1>5. QED
    BY <1>1, <1>2, <1>4, SlotSteps, EraSlot, Zenon

\* The steps on the card that neither take, store nor settle a value.
LEMMA EraOnCard ==
    ASSUME IInv, EraInv, NEW t \in Threads,
           \/ card_lane(t) \/ open_session(t) \/ probe(t) \/ card_events(t) \/ check_rejected(t)
           \/ sign_with_card(t) \/ pin_sequence_end(t)
    PROVE  EraInv'
  <1>1. TypeOK /\ thread \in [Threads -> Calls] /\ thread[t] \in Calls
    BY TypeIs DEF IInv
  <1>2. \/ cache' = cache /\ era' = era
        \/ cache' = clear_positive(cache) /\ era' = Ended
    BY Zenon DEF card_lane, open_session, probe, card_events, check_rejected, sign_with_card,
                 pin_sequence_end
  <1>3. /\ \A u \in Threads \ {t} : thread'[u] = thread[u]
        /\ thread'[t].pc # "settle"
        /\ thread'[t].entry = None \/ thread'[t].entry = thread[t].entry
    <2>1. CASE card_lane(t) \/ probe(t) \/ check_rejected(t)
      BY <1>1, <2>1 DEF Calls, card_lane, probe, check_rejected, Goto
    <2>2. CASE open_session(t) \/ pin_sequence_end(t)
      BY <1>1, <2>2 DEF Calls, open_session, pin_sequence_end, Leave, Idle
    <2>3. CASE card_events(t) \/ sign_with_card(t)
      BY <1>1, <2>3 DEF Calls, card_events, sign_with_card, Goto
    <2>4. QED
      BY <2>1, <2>2, <2>3, Zenon
  <1>4. \A u \in Threads : Carries(u)
    BY <1>3, CarriesOn, Zenon
  <1>5. QED
    BY <1>1, <1>2, <1>4, EraSlot

\* Taking the value out: it goes from the slot to the call, of its generation.
LEMMA EraTakes ==
    ASSUME IInv, EraInv, NEW t \in Threads, checkout_pin1(t)
    PROVE  EraInv'
  <1>1. TypeOK /\ thread \in [Threads -> Calls] /\ thread[t] \in Calls /\ cache \in Caches
    BY TypeIs DEF IInv
  <1>2. era' = era /\ cache'.positive = None /\ cache'.generation = cache.generation
    BY <1>1 DEF checkout_pin1, Caches
  <1>3. /\ \A u \in Threads \ {t} : thread'[u] = thread[u]
        /\ thread'[t].pc # "settle"
        /\ thread'[t].entry = None \/ (cache.positive # None /\ thread'[t].entry = cache.positive)
    BY <1>1 DEF Calls, checkout_pin1
  <1>4. ASSUME NEW u \in Threads \ {t} PROVE Carries(u)
    BY <1>3, CarriesOn, Zenon
  <1>5. \/ Carries(t)
        \/ ~Accepted(t)' /\ cache.positive # None /\ thread'[t].entry = cache.positive
    <2>1. ~Accepted(t)'
      BY <1>3 DEF Accepted
    <2>2. QED
      BY <1>3, <2>1, Zenon DEF Carries
  <1>6. QED
    BY <1>1, <1>2, <1>4, <1>5, EraStays

\* VERIFY: a login learns of the acceptance in the era of the acceptance.
LEMMA EraVerifies ==
    ASSUME IInv, EraInv, NEW t \in Threads, verify_pin1(t)
    PROVE  EraInv'
  <1>1. TypeOK /\ thread \in [Threads -> Calls] /\ thread[t] \in Calls
    BY TypeIs DEF IInv
  <1>2. era' = era /\ cache' = cache
    BY DEF verify_pin1
  <1>3. /\ \A u \in Threads \ {t} : thread'[u] = thread[u]
        /\ thread'[t].entry = thread[t].entry
        /\ \/ thread'[t].since = era.now
           \/ thread'[t].pc # "settle" \/ thread'[t].answer # "ok"
    BY <1>1 DEF Calls, verify_pin1, Goto
  <1>4. ASSUME NEW u \in Threads \ {t} PROVE Carries(u)
    BY <1>3, CarriesOn, Zenon
  <1>5. Carries(t) \/ (thread'[t].since = era.now /\ thread'[t].entry = thread[t].entry)
    BY <1>3, CarriesOn, Zenon
  <1>6. cache'.positive = None \/ cache.positive # None
    BY <1>2
  <1>7. QED
    BY <1>1, <1>2, <1>4, <1>5, <1>6, EraStays, Zenon

\* settle_login stores what the card accepted, or ends the login it refused.
LEMMA EraStores ==
    ASSUME IInv, EraInv, NEW t \in Threads, settle_login(t)
    PROVE  EraInv'
  <1>1. /\ TypeOK /\ thread \in [Threads -> Calls] /\ thread[t] \in Calls /\ cache \in Caches
        /\ era \in Eras
    BY TypeIs DEF IInv
  <1>2. /\ thread[t].pc = "settle" /\ thread[t].op = "login" /\ Goto(t, "end")
    BY Zenon DEF settle_login
  <1>3. thread[t].serial \in Cards /\ thread[t].pin \in Pins
    BY <1>2, Zenon DEF IInv, ThreadInv, CallOf, Probed
  <1>4. \A u \in Threads : Carries(u)
    <2>1. /\ \A u \in Threads \ {t} : thread'[u] = thread[u]
          /\ thread'[t].pc = "end" /\ thread'[t].entry = thread[t].entry
      BY <1>1, <1>2 DEF Calls, Goto
    <2>2. thread'[t].pc # "settle"
      BY <2>1
    <2>3. QED
      BY <2>1, <2>2, CarriesOn, Zenon
  <1>5. CASE UNCHANGED <<cache, era>>
    BY <1>1, <1>4, <1>5, EraSlot
  <1>6. CASE /\ cache' = record_rejected(cache, thread[t].serial, thread[t].pin)
             /\ era' = Ended
    <2>1. cache'.positive = None /\ cache'.generation = cache.generation + 1
      BY <1>1, <1>3, <1>6, RejectType
    <2>2. QED
      BY <1>1, <1>4, <1>6, <2>1, EraEnds, Zenon
  <1>7. CASE /\ thread[t].answer = "ok"
             /\ cache' = put_positive(cache,
                   [card |-> thread[t].serial, events |-> thread[t].events, pin |-> thread[t].pin,
                    generation |-> 0, held |-> thread[t].pristine, open |-> TRUE,
                    since |-> thread[t].since, stay |-> thread[t].stay])
             /\ era' = Stored
    <2> DEFINE e == [card |-> thread[t].serial, events |-> thread[t].events, pin |-> thread[t].pin,
                     generation |-> 0, held |-> thread[t].pristine, open |-> TRUE,
                     since |-> thread[t].since, stay |-> thread[t].stay]
    <2>1. e \in Entries
      BY <1>1, <1>3, EntryType, Zenon
    <2>2. e.since = thread[t].since /\ cache' = put_positive(cache, e)
      BY <1>7, Zenon
    <2> HIDE DEF e
    <2>3. /\ cache'.generation = cache.generation + 1
          /\ cache'.positive = [e EXCEPT !.generation = cache.generation + 1]
      BY <1>1, <2>1, <2>2, PutType
    <2>4. cache'.positive.since = thread[t].since /\ cache'.positive.generation = cache'.generation
      BY <2>1, <2>2, <2>3 DEF Entries
    <2>5. era'.now = era.now + 1 /\ era'.firm = era.firm
      BY <1>1, <1>7 DEF Eras, Stored
    <2>6. cache'.positive.since >= era'.firm
      <3>1. Accepted(t)
        BY <1>2, <1>7, Zenon DEF Accepted
      <3>2. QED
        BY <2>4, <2>5, <3>1, Zenon DEF EraInv
    <2>7. era'.firm <= era'.now
      <3>1. era.firm <= era.now
        BY Zenon DEF EraInv
      <3>2. era.firm \in Nat /\ era.now \in Nat
        BY <1>1, EraNumbers, Zenon
      <3>3. QED
        BY <2>5, <3>1, <3>2
    <2>8. ASSUME NEW u \in Threads
          PROVE  /\ Accepted(u)' => thread'[u].since >= era'.firm
                 /\ thread'[u].entry # None =>
                       /\ thread'[u].entry.generation <= cache'.generation
                       /\ thread'[u].entry.generation # cache'.generation
      <3>1. Accepted(u)' => thread'[u].since >= era'.firm
        BY <1>4, <2>5, Zenon DEF EraInv, Carries
      <3>2. thread'[u].entry # None =>
               thread'[u].entry = thread[u].entry /\ thread[u].entry.generation <= cache.generation
        BY <1>4, Zenon DEF EraInv, Carries
      <3>3. QED
        BY <1>1, <2>3, <3>1, <3>2, EraNumbers
    <2>9. QED
      BY <2>4, <2>6, <2>7, <2>8, Zenon DEF EraInv
  <1>8. QED
    BY <1>5, <1>6, <1>7, Zenon DEF settle_login

\* A value that comes back is of the generation of the slot.
LEMMA EraRestores ==
    ASSUME IInv, EraInv, NEW t \in Threads, thread[t].entry # None,
           NEW c, c = cache \/ c = restore(cache, thread[t].entry),
           cache' = drop_lease(c, t), era' = era, \A u \in Threads : Carries(u)
    PROVE  EraInv'
  <1>1. TypeOK /\ cache \in Caches /\ thread[t].entry \in Entries
    BY TypeIs DEF IInv, Calls
  <1>2. /\ c \in Caches /\ c.generation = cache.generation
        /\ \/ c.positive = cache.positive
           \/ c.positive = thread[t].entry /\ thread[t].entry.generation = cache.generation
    <2>1. CASE c = cache
      BY <1>1, <2>1, Zenon
    <2>2. CASE c = restore(cache, thread[t].entry)
      BY <1>1, <2>2, RestoreType, Zenon
    <2>3. QED
      BY <2>1, <2>2, Zenon
  <1>3. cache'.positive = c.positive /\ cache'.generation = c.generation
    BY <1>2, DropType, Zenon
  <1>4. \/ cache'.positive = None
        \/ /\ cache.positive # None
           /\ cache'.positive.generation = cache.positive.generation
           /\ cache'.positive.since = cache.positive.since
        \/ \E u \in Threads : /\ thread[u].entry # None /\ cache'.positive = thread[u].entry
                              /\ thread[u].entry.generation = cache.generation
    BY <1>2, <1>3, Zenon
  <1>5. QED
    BY <1>1, <1>2, <1>3, <1>4, EraStays, Zenon

\* Settling a taken value: it goes on, comes back, or is destroyed.
LEMMA EraSettles ==
    ASSUME IInv, EraInv, NEW t \in Threads, settle_verify(t) \/ settle_operation(t)
    PROVE  EraInv'
  <1>1. TypeOK /\ thread \in [Threads -> Calls] /\ thread[t] \in Calls /\ cache \in Caches
    BY TypeIs DEF IInv
  <1>2. thread[t].op = "sign" /\ thread[t].pc \in Taken
    BY Zenon DEF settle_verify, settle_operation, Taken, IInv, ThreadInv, CallOf
  <1>3. /\ thread[t].entry # None /\ thread[t].serial \in Cards
        /\ thread[t].entry.pin = thread[t].pin
    BY <1>2, Zenon DEF IInv, ThreadInv, CallOf, EntryOf, Probed, Taken
  <1>4. thread[t].pin \in Pins
    <2>1. thread[t].entry \in Entries
      BY <1>1, <1>3 DEF Calls
    <2>2. QED
      BY <1>3, <2>1 DEF Entries
  <1>5. \A u \in Threads : Carries(u)
    <2>1. /\ \A u \in Threads \ {t} : thread'[u] = thread[u]
          /\ thread'[t].pc # "settle"
          /\ thread'[t].entry = None \/ thread'[t].entry = thread[t].entry
      BY <1>1 DEF Calls, settle_verify, settle_operation, Goto
    <2>2. QED
      BY <2>1, CarriesOn, Zenon
  <1>6. CASE cache' = cache /\ era' = era
    BY <1>1, <1>5, <1>6, EraSlot
  <1>7. CASE /\ cache' = record_rejected(cache, thread[t].serial, thread[t].pin)
             /\ era' = Ended
    BY <1>1, <1>3, <1>4, <1>5, <1>7, RejectType, EraEnds, Zenon
  <1>8. CASE /\ \E c : (c = cache \/ c = restore(cache, thread[t].entry)) /\ cache' = drop_lease(c, t)
             /\ era' = era
    BY <1>3, <1>5, <1>8, EraRestores, Zenon
  <1>9. QED
    <2>1. CASE settle_verify(t)
      <3>1. \/ cache' = cache /\ era' = era
            \/ /\ cache' = record_rejected(cache, thread[t].serial, thread[t].pin)
               /\ era' = Ended
            \/ /\ cache' = drop_lease(IF thread[t].answer = "unanswered"
                                      THEN restore(cache, thread[t].entry) ELSE cache, t)
               /\ era' = era
        BY <2>1, Zenon DEF settle_verify
      <3>2. QED
        BY <1>6, <1>7, <1>8, <3>1, Zenon
    <2>2. CASE settle_operation(t)
      BY <1>8, <2>2 DEF settle_operation
    <2>3. QED
      BY <2>1, <2>2

\* Every step keeps the era invariant.
LEMMA EraStep == IInv /\ EraInv /\ [Next]_vars => EraInv'
  <1> SUFFICES ASSUME IInv, EraInv, [Next]_vars PROVE EraInv'
    OBVIOUS
  <1>1. TypeOK /\ cache \in Caches
    BY TypeIs DEF IInv
  <1>2. ASSUME thread' = thread, cache' = cache, era' = era PROVE EraInv'
    <2>1. \A t \in Threads : Carries(t)
      BY <1>2, CarriesOn
    <2>2. QED
      BY <1>1, <1>2, <2>1, EraSlot
  <1>3. CASE UNCHANGED vars
    BY <1>2, <1>3 DEF vars
  <1>4. CASE \/ c_initialize \/ c_finalize \/ c_get_slot_list \/ c_open_session \/ c_close_all_sessions
             \/ \E h \in Handles : c_close_session(h) \/ c_logout(h) \/ c_get_session_info(h)
                                     \/ c_sign_init(h)
    BY <1>1, <1>4, EraLock
  <1>5. ASSUME NEW t \in world.callers, NEW h \in Handles,
               c_sign(t, h) \/ \E p \in Pins : c_login(t, h, p) \/ c_set_pin(t, h, p)
        PROVE  EraInv'
    BY <1>5, EraBegin, Zenon
  <1>6. ASSUME NEW t \in Threads, CardStep(t) PROVE EraInv'
    BY <1>6, EraOnCard, EraTakes, EraVerifies, EraStores, EraSettles, Zenon DEF CardStep
  <1>7. CASE remove_card \/ (\E c \in world.cards : insert_card(c)) \/ other_application
    BY <1>2, <1>7, Zenon DEF remove_card, insert_card, other_application
  <1>8. CASE bridge_runs_out
    <2>1. \A t \in Threads : Carries(t)
      BY <1>8, CarriesOn DEF bridge_runs_out
    <2>2. /\ cache.positive # None /\ era' = era /\ cache'.generation = cache.generation
          /\ cache'.positive.generation = cache.positive.generation
          /\ cache'.positive.since = cache.positive.since
      <3>1. cache.positive # None /\ cache.positive \in Entries
        BY <1>1, <1>8 DEF bridge_runs_out, Caches
      <3>2. cache' = [cache EXCEPT !.positive = [cache.positive EXCEPT !.open = FALSE]] /\ era' = era
        BY <1>8 DEF bridge_runs_out
      <3>3. QED
        BY <1>1, <3>1, <3>2 DEF Caches, Entries
    <2>3. QED
      BY <1>1, <2>1, <2>2, EraStays, Zenon
  <1>9. QED
    BY <1>3, <1>4, <1>5, <1>6, <1>7, <1>8, Zenon DEF Next

\* A login that ended does not come back: what clear_positive dropped, restore
\* does not bring back and settle_login does not store, save a value that the
\* card had accepted when the login was ended under settle_login's hands.
THEOREM EndedStaysEnded == Spec => []EndedLoginStaysEnded
  <1>1. Init => EraInv
    <2> SUFFICES ASSUME Init PROVE EraInv
      OBVIOUS
    <2>1. era.firm = 0 /\ era.now = 0 /\ cache.positive = None
      BY Zenon DEF Init
    <2>2. ASSUME NEW t \in Threads PROVE thread[t].entry = None /\ thread[t].op # "login"
      <3>1. thread[t] = Idle
        BY Zenon DEF Init
      <3>2. QED
        BY <3>1 DEF Idle
    <2>3. era.firm <= era.now
      BY <2>1
    <2>4. QED
      BY <2>1, <2>2, <2>3, Zenon DEF EraInv, Accepted
  <1>2. EraInv => EndedLoginStaysEnded
    BY Zenon DEF EraInv, EndedLoginStaysEnded
  <1>3. QED
    BY <1>1, <1>2, EraStep, Invariant, PTL DEF Spec

-----------------------------------------------------------------------------
(* What a presentation may do. *)

\* Only the call itself moves the call.
LEMMA StepIsOwn ==
    ASSUME IInv, Next, NEW t \in Threads, thread[t].pc = "verify", thread'[t].pc # "verify"
    PROVE  verify_pin1(t)
  <1>1. thread \in [Threads -> Calls]
    BY TypeIs, Zenon DEF IInv
  <1>2. thread[t].op # "idle"
    BY Zenon DEF IInv, ThreadInv, CallOf
  <1>3. ASSUME UNCHANGED thread PROVE FALSE
    BY <1>3
  <1>4. ASSUME NEW u \in world.callers, NEW h \in Handles, NEW p \in Pins,
               c_login(u, h, p) \/ c_set_pin(u, h, p)
        PROVE  FALSE
    BY <1>1, <1>2, <1>4 DEF c_login, c_set_pin
  <1>5. ASSUME NEW u \in world.callers, NEW h \in Handles, c_sign(u, h) PROVE FALSE
    BY <1>1, <1>2, <1>5 DEF c_sign
  <1>6. ASSUME NEW u \in Threads \ {t}, CardStep(u) PROVE FALSE
    <2>1. thread'[t] = thread[t]
      <3>1. CASE card_lane(u) \/ open_session(u) \/ probe(u) \/ card_events(u)
        BY <1>1, <3>1 DEF card_lane, open_session, probe, card_events, Goto, Leave
      <3>2. CASE checkout_pin1(u) \/ check_rejected(u) \/ verify_pin1(u)
        BY <1>1, <3>2, Zenon DEF checkout_pin1, check_rejected, verify_pin1, Goto
      <3>3. CASE settle_login(u) \/ settle_verify(u) \/ sign_with_card(u) \/ settle_operation(u)
        BY <1>1, <3>3 DEF settle_login, settle_verify, sign_with_card, settle_operation, Goto
      <3>4. CASE pin_sequence_end(u)
        BY <1>1, <3>4 DEF pin_sequence_end
      <3>5. QED
        BY <1>6, <3>1, <3>2, <3>3, <3>4, Zenon DEF CardStep
    <2>2. QED
      BY <2>1
  <1>7. ASSUME CardStep(t) PROVE verify_pin1(t)
    BY <1>7, Zenon DEF CardStep, card_lane, open_session, probe, card_events, checkout_pin1, check_rejected,
                settle_login, settle_verify, sign_with_card, settle_operation, pin_sequence_end
  <1>8. ASSUME \/ c_initialize \/ c_finalize \/ c_get_slot_list \/ c_open_session \/ c_close_all_sessions
               \/ \E h \in Handles : c_close_session(h) \/ c_logout(h) \/ c_get_session_info(h)
                                       \/ c_sign_init(h)
        PROVE  FALSE
    BY <1>3, <1>8, LockTypes DEF IInv
  <1>9. ASSUME remove_card \/ (\E c \in world.cards : insert_card(c)) \/ other_application \/ bridge_runs_out
        PROVE  FALSE
    BY <1>3, <1>9, Zenon DEF remove_card, insert_card, other_application, bridge_runs_out
  <1>10. QED
    BY <1>4, <1>5, <1>6, <1>7, <1>8, <1>9, Zenon DEF Next

\* A PIN is presented by verify_pin1 only, by a call whose card is in reach.
LEMMA PresentationIsVerify ==
    ASSUME IInv, [Next]_vars, NEW t \in Threads, Presents(t)
    PROVE  thread[t].pc = "verify" /\ verify_pin1(t) /\ Alive(t)
  <1>1. thread[t].pc = "verify" /\ thread'[t].pc # "verify" /\ card' # card
    BY DEF Presents
  <1>2. Next
    BY <1>1 DEF vars
  <1>3. verify_pin1(t)
    BY <1>1, <1>2, StepIsOwn
  <1>4. QED
    BY <1>1, <1>3, Zenon DEF verify_pin1

\* The rejection memory outlives logins, sessions and C_Finalize: a login asks
\* it before the VERIFY, and a held value that is refused leaves the slot.
THEOREM RefusedOnce == Spec => RejectedNotPresentedAgain
  <1>1. IInv /\ [Next]_vars =>
          [\A t \in Threads : Presents(t) /\ thread[t].op # "change" =>
              <<reader.card, thread[t].pin>> \notin refused]_vars
    <2> SUFFICES ASSUME IInv, [Next]_vars, NEW t \in Threads, Presents(t), thread[t].op # "change"
                 PROVE  <<reader.card, thread[t].pin>> \notin refused
      OBVIOUS
    <2>1. thread[t].pc = "verify" /\ Alive(t)
      BY PresentationIsVerify
    <2>2. thread[t].serial = reader.card
      BY <2>1, Zenon DEF IInv, ThreadInv, StayOf, Probed
    <2>3. thread[t].op \in {"login", "sign"}
      <3>1. thread[t] \in Calls
        BY TypeIs DEF IInv
      <3>2. QED
        BY <2>1, <3>1, Zenon DEF IInv, ThreadInv, CallOf, Calls, Operations
    <2>4. <<thread[t].serial, thread[t].pin>> \notin cache.rejected
      <3>1. CASE thread[t].op = "login"
        BY <2>1, <3>1, Zenon DEF IInv, ThreadInv, EntryOf
      <3>2. CASE thread[t].op = "sign"
        BY <2>1, <3>2, Zenon DEF IInv, ThreadInv, EntryOf, Good, Taken
      <3>3. QED
        BY <2>3, <3>1, <3>2, Zenon
    <2>5. QED
      BY <2>2, <2>4 DEF IInv, SlotInv
  <1>2. QED
    BY <1>1, Invariant, PTL DEF Spec, RejectedNotPresentedAgain

\* usable compares the card and the insertion count, the count is read while
\* the transaction holds the card, and an accepted login saw one stay only: a
\* signature presents a value in the stay it was accepted in.
THEOREM SameStay == Spec => PresentedInTheSameStay
  <1>1. IInv /\ [Next]_vars =>
          [\A t \in Threads : Presents(t) /\ thread[t].op = "sign" =>
              /\ thread[t].entry.card = reader.card
              /\ thread[t].entry.stay = reader.events]_vars
    <2> SUFFICES ASSUME IInv, [Next]_vars, NEW t \in Threads, Presents(t), thread[t].op = "sign"
                 PROVE  thread[t].entry.card = reader.card /\ thread[t].entry.stay = reader.events
      OBVIOUS
    <2>1. thread[t].pc = "verify" /\ Alive(t)
      BY PresentationIsVerify, Zenon
    <2>2. thread[t].serial = reader.card
      BY <2>1, Zenon DEF IInv, ThreadInv, StayOf, Probed
    <2>3. /\ thread[t].entry.card = thread[t].serial /\ thread[t].entry.events = thread[t].events
          /\ thread[t].entry.events = thread[t].entry.stay
      BY <2>1, Zenon DEF IInv, ThreadInv, EntryOf, Good, Taken
    <2>4. thread[t].stay <= thread[t].events /\ thread[t].events <= reader.events
      BY <2>1, Zenon DEF IInv, ThreadInv, CountOf, Counted
    <2>5. thread[t].stay \in Nat /\ thread[t].events \in Nat /\ reader.events \in Nat
      BY TypeIs DEF IInv, Calls, Readers
    <2>6. QED
      BY <2>1, <2>2, <2>3, <2>4, <2>5, SMTT(30) DEF Alive
  <1>2. QED
    BY <1>1, Invariant, PTL DEF Spec, PresentedInTheSameStay

\* check_retry_floor holds from the probe to the VERIFY, because the
\* transaction keeps every other caller and application off the card.
THEOREM FloorHolds == Spec => LastTriesNotSpent
  <1>1. IInv /\ [Next]_vars =>
          [\A t \in Threads, c \in Cards :
              Presents(t) /\ card'[c].tries < card[c].tries => card[c].tries > 2]_vars
    <2> SUFFICES ASSUME IInv, [Next]_vars, NEW t \in Threads, NEW c \in Cards, Presents(t),
                        card'[c].tries < card[c].tries
                 PROVE  card[c].tries > 2
      OBVIOUS
    <2>1. thread[t].pc = "verify" /\ Alive(t) /\ verify_pin1(t)
      BY PresentationIsVerify
    <2>2. card[reader.card].tries >= RETRIES_FLOOR
      BY <2>1, Zenon DEF IInv, ThreadInv, StayOf
    <2>3. card[c] \in CardStates /\ card \in [Cards -> CardStates]
      BY TypeIs DEF IInv
    <2>4. CASE c = reader.card
      BY <2>2, <2>3, <2>4, SMTT(30) DEF CardStates, RETRIES_FLOOR
    <2>5. CASE c # reader.card
      <3>1. card'[c] = card[c]
        BY <2>1, <2>3, <2>5, Zenon DEF verify_pin1
      <3>2. QED
        BY <2>3, <3>1 DEF CardStates
    <2>6. QED
      BY <2>4, <2>5
  <1>2. QED
    BY <1>1, Invariant, PTL DEF Spec, LastTriesNotSpent

=============================================================================
