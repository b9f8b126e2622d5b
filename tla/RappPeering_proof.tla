-------------------------- MODULE RappPeering_proof --------------------------
(***************************************************************************)
(* The safety properties of the pair record, of the search for a custodian *)
(* and of the session, for every number of endpoints, offers and frames    *)
(* and every limit.                                                        *)
(***************************************************************************)
EXTENDS RappPeering, WellFoundedInduction, TLAPS

-----------------------------------------------------------------------------
(* The pair record. *)

\* The vault and memory agree on the latest session, and on the time of a
\* forget once the vault has one: memory may only be ahead by a forget or a
\* confirmation the vault did not take.
Agree ==
    Loaded /\ Stored =>
        /\ vault.session = memory.session
        /\ vault.forgotten # NoTime => memory.forgotten = vault.forgotten

\* A pairing that ended has been in the vault, and every form of it that is
\* left is a forgotten one.
EndedInv ==
    ended # {} =>
        /\ vault # Absent
        /\ Loaded => memory.forgotten # NoTime
        /\ Stored => vault.forgotten # NoTime

\* No form of the record lost a session a sweep recorded.
HeldInv ==
    /\ Loaded => held <= memory.session
    /\ Stored => held <= vault.session

\* The inductive invariant.
RecordInv == TypeOK /\ Agree /\ EndedInv /\ KeyDestroyed /\ HeldInv

-----------------------------------------------------------------------------
\* What plan_sweep leaves of the record, by outcome: a later session, the
\* present as the time of the forget, or the record as it was.
LEMMA PlanSweep ==
  ASSUME TypeOK, Loaded
  PROVE  /\ outcome \in {"Kept", "Recorded", "Expired"}
         /\ plan_sweep \in PairRecords
         /\ outcome # "Kept" => memory.forgotten = NoTime
         /\ outcome = "Kept" => plan_sweep = memory
         /\ outcome = "Recorded" =>
               /\ plan_sweep.forgotten = memory.forgotten
               /\ plan_sweep.session >= memory.session
               /\ plan_sweep.session >= clock
         /\ outcome = "Expired" =>
               /\ plan_sweep.forgotten = clock
               /\ plan_sweep.session = memory.session
  <1>1. /\ outcome \in {"Kept", "Recorded", "Expired"}
        /\ outcome # "Kept" => memory.forgotten = NoTime
    BY DEF outcome
  <1>2. CASE outcome = "Kept"
    <2>1. plan_sweep = memory
      BY <1>2 DEF plan_sweep
    <2> QED
      BY <1>1, <1>2, <2>1 DEF Loaded
  <1>3. CASE outcome = "Recorded"
    <2>1. plan_sweep = [memory EXCEPT !.session =
                           later_session(memory.session, clock)]
      BY <1>3 DEF plan_sweep
    <2>2. clock \in Nat /\ memory.session \in Nat
      BY DEF TypeOK, Times, Loaded, PairRecords
    <2>3. /\ later_session(memory.session, clock) \in Nat
          /\ later_session(memory.session, clock) >= memory.session
          /\ later_session(memory.session, clock) >= clock
      BY <2>2 DEF later_session
    <2>4. /\ plan_sweep \in PairRecords
          /\ plan_sweep.forgotten = memory.forgotten
          /\ plan_sweep.session = later_session(memory.session, clock)
      BY <2>1, <2>3 DEF Loaded, PairRecords
    <2> QED
      BY <1>1, <1>3, <2>3, <2>4
  <1>4. CASE outcome = "Expired"
    <2>1. plan_sweep = [memory EXCEPT !.forgotten = clock]
      BY <1>4 DEF plan_sweep
    <2>2. clock \in Nat
      BY DEF TypeOK, Times
    <2>3. /\ plan_sweep \in PairRecords
          /\ plan_sweep.forgotten = clock
          /\ plan_sweep.session = memory.session
      BY <2>1, <2>2 DEF Loaded, PairRecords
    <2> QED
      BY <1>1, <1>4, <2>3
  <1> QED
    BY <1>1, <1>2, <1>3, <1>4

\* What forgotten leaves of the record: its first time, and all the rest.
LEMMA Forgotten ==
  ASSUME TypeOK, Loaded
  PROVE  /\ forgotten(memory) \in PairRecords
         /\ forgotten(memory).forgotten # NoTime
         /\ forgotten(memory).session = memory.session
         /\ memory.forgotten # NoTime =>
               forgotten(memory).forgotten = memory.forgotten
  <1>1. clock \in Nat /\ clock # NoTime
    BY DEF TypeOK, Times
  <1> QED
    BY <1>1 DEF forgotten, Loaded, PairRecords

\* A step that destroys the record keeps the invariant.
LEMMA DestroyKeeps ==
  ASSUME RecordInv, NEW cause \in {"user", "idle"}, Destroy(cause),
         UNCHANGED <<role, ceremony, established, clock, sets>>, held' \in Nat
  PROVE  RecordInv'
  <1>1. /\ memory' = Absent /\ vault' = Tombstone
        /\ ~Loaded' /\ ~Stored'
    BY RecordAssumption DEF Destroy, Loaded, Stored
  <1>2. TypeOK'
    BY <1>1 DEF RecordInv, TypeOK, Destroy
  <1>3. EndedInv' /\ KeyDestroyed'
    BY <1>1, RecordAssumption DEF EndedInv, KeyDestroyed
  <1> QED
    BY <1>1, <1>2, <1>3 DEF RecordInv, Agree, HeldInv

\* A step that stores the form it leaves in memory keeps the invariant, when
\* that form lost neither a forget nor a session.
LEMMA StoreKeeps ==
  ASSUME RecordInv, NEW form \in PairRecords,
         memory' = form, vault' = form,
         ended' = {} \/ form.forgotten # NoTime,
         ended' \subseteq {"user", "idle"},
         held' \in Nat, held' <= form.session,
         UNCHANGED <<role, established, clock, sets>>, ceremony' \in BOOLEAN
  PROVE  RecordInv'
  <1>1. form # Absent /\ form # Tombstone
    BY RecordAssumption
  <1>2. TypeOK'
    BY DEF RecordInv, TypeOK
  <1>3. Agree' /\ HeldInv' /\ KeyDestroyed'
    BY <1>1 DEF Agree, HeldInv, KeyDestroyed
  <1>4. EndedInv'
    BY <1>1, Zenon DEF EndedInv
  <1> QED
    BY <1>2, <1>3, <1>4 DEF RecordInv

-----------------------------------------------------------------------------
\* The sweep of idle records (sweep) keeps the invariant.
LEMMA SweepKeeps ==
  ASSUME RecordInv, sweep
  PROVE  RecordInv'
  <1> USE DEF sweep
  <1>1. Loaded /\ TypeOK
    BY DEF RecordInv
  <1>2. held \in Nat /\ clock \in Nat /\ memory.session \in Nat /\ clock # NoTime
    BY <1>1 DEF TypeOK, Times, Loaded, PairRecords
  <1>3. held' \in Nat
    BY <1>2
  <1>4. CASE requester_drops /\ Stored
               /\ Destroy(IF outcome = "Expired" THEN "idle" ELSE "user")
    <2>1. (IF outcome = "Expired" THEN "idle" ELSE "user") \in {"user", "idle"}
      OBVIOUS
    <2> QED
      BY <1>3, <1>4, <2>1, DestroyKeeps
  <1>5. CASE sweep_stores /\ outcome = "Kept"
             /\ ended' = IF outcome = "Expired" THEN ended \cup {"idle"} ELSE ended
    <2>1. UNCHANGED vars
      BY <1>1, <1>5, PlanSweep DEF sweep_stores, vars
    <2> QED
      BY <2>1 DEF vars, RecordInv, TypeOK, Agree, EndedInv, KeyDestroyed, HeldInv,
                  Loaded, Stored
  <1>6. CASE sweep_stores /\ outcome # "Kept"
             /\ ended' = IF outcome = "Expired" THEN ended \cup {"idle"} ELSE ended
    <2>1. /\ plan_sweep \in PairRecords
          /\ memory' = plan_sweep /\ vault' = plan_sweep
          /\ memory.forgotten = NoTime
      BY <1>1, <1>6, PlanSweep DEF sweep_stores
    <2>2. ended = {}
      BY <1>1, <2>1 DEF RecordInv, EndedInv
    <2>3. held <= memory.session
      BY <1>1 DEF RecordInv, HeldInv
    <2>4. CASE outcome = "Recorded"
      <3>1. /\ plan_sweep.session >= memory.session
            /\ plan_sweep.session >= clock
            /\ plan_sweep.session \in Nat
        BY <1>1, <2>1, <2>4, PlanSweep DEF PairRecords
      <3>2. held' <= plan_sweep.session
        BY <1>2, <2>3, <3>1
      <3>3. ended' = {}
        BY <1>6, <2>2, <2>4
      <3>4. ceremony' \in BOOLEAN
        BY <1>1 DEF TypeOK
      <3> QED
        BY <1>3, <2>1, <3>2, <3>3, <3>4, StoreKeeps
    <2>5. CASE outcome = "Expired"
      <3>1. plan_sweep.session = memory.session /\ plan_sweep.forgotten # NoTime
        BY <1>1, <1>2, <2>5, PlanSweep
      <3>2. held' = held /\ ended' \subseteq {"user", "idle"}
        BY <1>6, <2>2, <2>5
      <3>3. ceremony' \in BOOLEAN
        BY <1>1 DEF TypeOK
      <3> QED
        BY <1>3, <2>1, <2>3, <3>1, <3>2, <3>3, StoreKeeps
    <2> QED
      BY <1>1, <1>6, <2>4, <2>5, PlanSweep
  <1> QED
    BY <1>4, <1>5, <1>6

\* forget, whatever it finds in the vault, keeps the invariant.
LEMMA ForgetKeeps ==
  ASSUME RecordInv, forget
  PROVE  RecordInv'
  <1>1. Loaded /\ TypeOK /\ held' \in Nat /\ ceremony' \in BOOLEAN
    BY DEF RecordInv, TypeOK, forget
  <1>2. CASE Destroy("user")
    BY <1>1, <1>2, DestroyKeeps DEF forget
  <1>3. CASE memory' = forgotten(memory) /\ vault' = forgotten(memory)
             /\ ended' = ended \cup {"user"}
    <2>1. held' <= forgotten(memory).session
      BY <1>1, Forgotten DEF RecordInv, HeldInv, forget
    <2>2. ended' \subseteq {"user", "idle"}
      BY <1>1, <1>3 DEF TypeOK
    <2> QED
      BY <1>1, <1>3, <2>1, <2>2, Forgotten, StoreKeeps DEF forget
  <1>4. CASE memory' = forgotten(memory) /\ UNCHANGED <<vault, ended>>
    <2>1. /\ memory' \in PairRecords
          /\ memory'.session = memory.session
          /\ memory'.forgotten # NoTime
          /\ memory.forgotten # NoTime => memory'.forgotten = memory.forgotten
      BY <1>1, <1>4, Forgotten
    <2>2. TypeOK'
      BY <1>4, <2>1 DEF RecordInv, TypeOK, forget
    <2>3. Agree'
      BY <1>1, <1>4, <2>1 DEF RecordInv, Agree, Stored, NoTime
    <2>4. EndedInv' /\ HeldInv'
      BY <1>1, <1>4, <2>1 DEF RecordInv, EndedInv, HeldInv, forget, Stored
    <2>5. KeyDestroyed'
      BY <1>1, <1>4, RecordAssumption DEF RecordInv, KeyDestroyed, Loaded
    <2> QED
      BY <2>2, <2>3, <2>4, <2>5 DEF RecordInv
  <1> QED
    BY <1>2, <1>3, <1>4 DEF forget

\* The other steps.
LEMMA RecordStep ==
  ASSUME RecordInv, [Next]_vars
  PROVE  RecordInv'
  <1>1. TypeOK /\ Agree /\ EndedInv /\ KeyDestroyed /\ HeldInv
    BY DEF RecordInv
  <1> USE DEF Loaded, Stored
  <1>2. CASE persist_device_only
    <2>1. ended = {} /\ held \in Nat /\ ceremony \in BOOLEAN
      BY <1>1, <1>2 DEF EndedInv, TypeOK, persist_device_only
    <2> QED
      BY <1>1, <1>2, <2>1, StoreKeeps DEF persist_device_only, HeldInv
  <1>3. CASE activate_pairing
    <2>1. /\ memory' \in PairRecords
          /\ memory'.session = memory.session
          /\ memory'.forgotten = memory.forgotten
      BY <1>3, Zenon DEF activate_pairing, PairRecords
    <2>2. TypeOK'
      BY <1>1, <1>3, <2>1, Zenon DEF TypeOK, activate_pairing
    <2>3. Agree' /\ EndedInv' /\ HeldInv'
      BY <1>1, <1>3, <2>1 DEF Agree, EndedInv, HeldInv, activate_pairing
    <2>4. KeyDestroyed'
      BY <1>3, RecordAssumption DEF KeyDestroyed, activate_pairing
    <2> QED
      BY <2>2, <2>3, <2>4 DEF RecordInv
  <1>4. CASE replace_device_only
    <2>1. ended' = {} \/ memory.forgotten # NoTime
      BY <1>1, <1>4 DEF EndedInv, replace_device_only
    <2>2. /\ held' \in Nat /\ held' <= memory.session /\ ceremony' \in BOOLEAN
          /\ ended' \subseteq {"user", "idle"}
      BY <1>1, <1>4 DEF TypeOK, HeldInv, replace_device_only
    <2> QED
      BY <1>4, <2>1, <2>2, StoreKeeps DEF replace_device_only, stored_form
  <1>5. CASE forget
    BY <1>5, ForgetKeeps
  <1>6. CASE revoke
    <2>1. held' \in Nat
      BY <1>1, <1>6 DEF TypeOK, revoke
    <2> QED
      BY <1>6, <2>1, DestroyKeeps DEF revoke
  <1>7. CASE sweep
    BY <1>7, SweepKeeps
  <1>8. CASE crash
    <2>1. memory' \notin PairRecords
      BY <1>8, RecordAssumption DEF crash
    <2>2. TypeOK'
      BY <1>1, <1>8, Zenon DEF TypeOK, crash
    <2> QED
      BY <1>1, <1>8, <2>1, <2>2
         DEF crash, RecordInv, Agree, EndedInv, KeyDestroyed, HeldInv
  <1>9. CASE load_from_vault
    <2>1. vault # Tombstone
      BY <1>9, RecordAssumption DEF load_from_vault
    <2>2. TypeOK'
      BY <1>1, <1>9 DEF TypeOK, load_from_vault
    <2> QED
      BY <1>1, <1>9, <2>1, <2>2
         DEF load_from_vault, RecordInv, Agree, EndedInv, KeyDestroyed, HeldInv
  <1>10. ASSUME UNCHANGED <<memory, vault, ended, held>>, TypeOK'
         PROVE  RecordInv'
    BY <1>1, <1>10 DEF RecordInv, Agree, EndedInv, KeyDestroyed, HeldInv
  <1>11. CASE ceremony_ends \/ session_opens \/ session_ends \/ UNCHANGED vars
    <2>1. TypeOK'
      BY <1>1, <1>11, Zenon DEF TypeOK, ceremony_ends, session_opens, session_ends, vars
    <2> QED
      BY <1>10, <1>11, <2>1 DEF ceremony_ends, session_opens, session_ends, vars
  <1>12. CASE Tick
    <2>1. TypeOK'
      BY <1>1, <1>12 DEF TypeOK, Tick, Times, NoTime
    <2> QED
      BY <1>10, <1>12, <2>1 DEF Tick
  <1>13. CASE \E time \in 1..MaxTime : SetClock(time)
    <2>1. TypeOK'
      BY <1>1, <1>13, RecordAssumption DEF TypeOK, SetClock, Times, NoTime
    <2> QED
      BY <1>10, <1>13, <2>1 DEF SetClock
  <1> QED
    BY <1>2, <1>3, <1>4, <1>5, <1>6, <1>7, <1>8, <1>9, <1>11, <1>12, <1>13
       DEF Next

\* The invariant holds when the ceremony is about to store its record.
LEMMA RecordInit ==
  ASSUME Init
  PROVE  RecordInv
  <1>1. memory \in PairRecords /\ memory.session = 0
    BY DEF Init, PairRecords, NoTime
  <1>2. Absent \notin PairRecords /\ Absent # Tombstone
    BY RecordAssumption
  <1>3. TypeOK
    BY <1>1, RecordAssumption, Zenon DEF Init, TypeOK, NoTime
  <1> QED
    BY <1>1, <1>2, <1>3
       DEF Init, RecordInv, Agree, EndedInv, KeyDestroyed, HeldInv, Loaded, Stored, NoTime

-----------------------------------------------------------------------------
\* The inductive invariant holds in every reachable state.
THEOREM RecordInvariant == Spec => []RecordInv
  <1>1. Init => RecordInv
    BY RecordInit
  <1>2. RecordInv /\ [Next]_vars => RecordInv'
    BY RecordStep
  <1> QED
    BY <1>1, <1>2, PTL DEF Spec

\* Every variable of the record's life keeps its type.
THEOREM RecordTypes == Spec => []TypeOK
  <1>1. RecordInv => TypeOK
    BY DEF RecordInv
  <1> QED
    BY <1>1, RecordInvariant, PTL

\* A pairing that ended with success is never in force again, in memory or in
\* the vault (forget, revoke and sweep of RappPairRecord).
THEOREM EndIsFinal == Spec => []ForgottenIsFinal
  <1>1. RecordInv => ForgottenIsFinal
    BY DEF RecordInv, EndedInv, ForgottenIsFinal, Active, Loaded, Stored
  <1> QED
    BY <1>1, RecordInvariant, PTL

\* Nothing in the process holds the key of a record the vault destroyed.
THEOREM KeyGone == Spec => []KeyDestroyed
  <1>1. RecordInv => KeyDestroyed
    BY DEF RecordInv
  <1> QED
    BY <1>1, RecordInvariant, PTL

\* A sweep expires a pairing only when it was idle for the whole limit,
\* whatever the wall clock did.
THEOREM IdleOnly == Spec => ExpiresOnlyWhenIdle
  <1>1. ASSUME RecordInv, [Next]_vars, ended' \ ended = {"idle"}
        PROVE  /\ ~established
               /\ clock >= held + IdleLimit
               /\ clock >= Created + IdleLimit
    <2>1. sweep /\ outcome = "Expired"
      BY <1>1, Zenon DEF Next, vars, persist_device_only, activate_pairing,
         ceremony_ends, replace_device_only, forget, revoke, sweep, Destroy,
         session_opens, session_ends, crash, load_from_vault, Tick, SetClock
    <2>2. ~established /\ idle_limit_reached(memory) /\ Loaded
      BY <2>1 DEF outcome, sweep
    <2>3. /\ clock \in Nat /\ held \in Nat /\ memory.session \in Nat
          /\ Created \in Nat /\ IdleLimit \in Nat /\ IdleLimit > 0
      BY <1>1, <2>2, RecordAssumption
         DEF RecordInv, TypeOK, Loaded, PairRecords, Times, NoTime
    <2>4. held <= memory.session
      BY <1>1, <2>2 DEF RecordInv, HeldInv
    <2> QED
      BY <2>2, <2>3, <2>4 DEF idle_limit_reached, minus
  <1> QED
    BY <1>1, RecordInvariant, PTL DEF Spec, ExpiresOnlyWhenIdle

\* The time of a stored forget never moves.
THEOREM NoticeIsFixed == Spec => NoticeRunsFromRevocation
  <1>1. ASSUME RecordInv, [Next]_vars, Stored, vault.forgotten # NoTime,
               vault' \in PairRecords
        PROVE  vault'.forgotten = vault.forgotten
    <2>1. Loaded => memory.forgotten = vault.forgotten
      BY <1>1 DEF RecordInv, Agree
    <2>2. vault' # Tombstone
      BY <1>1, RecordAssumption
    <2>3. CASE replace_device_only
      BY <2>1, <2>3 DEF replace_device_only, stored_form
    <2>4. CASE forget
      <3>1. Loaded /\ memory.forgotten = vault.forgotten
        BY <2>1, <2>4 DEF forget
      <3>2. forgotten(memory) = memory
        BY <1>1, <3>1 DEF forgotten
      <3> QED
        BY <2>2, <2>4, <3>1, <3>2 DEF forget, Destroy
    <2>5. CASE sweep
      <3>1. Loaded /\ memory.forgotten # NoTime
        BY <1>1, <2>1, <2>5 DEF sweep
      <3>2. outcome = "Kept"
        BY <3>1 DEF outcome
      <3> QED
        BY <2>2, <2>5, <3>2 DEF sweep, sweep_stores, Destroy
    <2>6. CASE persist_device_only
      BY <1>1, <2>6, RecordAssumption DEF persist_device_only, Stored
    <2>7. CASE revoke
      BY <2>2, <2>7 DEF revoke, Destroy
    <2>8. CASE UNCHANGED vault
      BY <2>8
    <2> QED
      BY <1>1, <2>3, <2>4, <2>5, <2>6, <2>7, <2>8
         DEF Next, vars, activate_pairing, ceremony_ends, session_opens,
             session_ends, crash, load_from_vault, Tick, SetClock
  <1> QED
    BY <1>1, RecordInvariant, PTL DEF Spec, NoticeRunsFromRevocation

-----------------------------------------------------------------------------
(* The session. *)

\* A side that sealed a close serves nothing more, a close is on the wire only
\* after its sender sealed one, and only a session that serves or closes has a
\* call between its halves.
ClosedInv ==
    \A s \in S!Sides :
        /\ side[s].closed => S!phase(s) \in {"Closing", "Closed"}
        /\ side[s].checked => S!phase(s) \in {"Serving", "Closing"}
        /\ \A i \in DOMAIN wire[s] :
               wire[s][i].type = "close" => side[S!Peer(s)].closed

SessionInv == S!TypeOK /\ ClosedInv /\ S!EchoIsEvidence

\* The search.  An offer is tried at most once at a time, the tries not given
\* back are the guesses, and a try under way is the last of them.
TriedInv ==
    /\ \A i, j \in DOMAIN tried : tried[i] = tried[j] => i = j
    /\ \A o \in Offers :
           guesses[o] = IF \E i \in DOMAIN tried : tried[i] = o THEN 1 ELSE 0
    /\ phase = "Trying" => tried # <<>>

SearchInv == C!TypeOK /\ TriedInv

PeeringInv ==
    /\ part = "session" => SessionInv
    /\ part = "search" => SearchInv

\* The invariant holds of two sides that just finished the handshake.
LEMMA SessionInit ==
    ASSUME S!Init
    PROVE  SessionInv
<1>1. S!TypeOK
  BY DEF S!Init, S!TypeOK, S!EstablishedEndpoint, S!Phases, S!Reasons, S!NoReason
<1> QED
  BY <1>1 DEF SessionInv, ClosedInv, S!Init, S!EchoIsEvidence, S!phase

\* The fields an operation on an endpoint sets and keeps.
LEMMA SealedIs ==
    ASSUME NEW e \in S!EstablishedEndpoint
    PROVE  LET f == S!Sealed(e)
           IN  /\ f \in S!EstablishedEndpoint
               /\ f.phase = e.phase /\ f.closed = e.closed /\ f.checked = e.checked
               /\ f.acked = e.acked /\ f.served = e.served
<1>1. e.sendN + 1 \in Nat
  BY DEF S!EstablishedEndpoint
<1> QED
  BY <1>1 DEF S!Sealed, S!EstablishedEndpoint

\* Opening a frame changes the receiving counter of an endpoint only.
LEMMA OpenedIs ==
    ASSUME NEW e \in S!EstablishedEndpoint
    PROVE  LET f == S!Opened(e)
           IN  /\ f \in S!EstablishedEndpoint
               /\ f.phase = e.phase /\ f.closed = e.closed /\ f.checked = e.checked
               /\ f.acked = e.acked /\ f.served = e.served /\ f.awaiting = e.awaiting
<1>1. e.recvN + 1 \in Nat
  BY DEF S!EstablishedEndpoint
<1> QED
  BY <1>1 DEF S!Opened, S!EstablishedEndpoint

\* Shutting an endpoint closes it and keeps what it sealed and served.
LEMMA ShutIs ==
    ASSUME NEW e \in S!EstablishedEndpoint
    PROVE  LET f == S!Shut(e)
           IN  /\ f \in S!EstablishedEndpoint
               /\ f.phase = "Closed" /\ f.checked = FALSE
               /\ f.closed = e.closed /\ f.acked = e.acked /\ f.served = e.served
  BY Zenon DEF S!Shut, S!EstablishedEndpoint, S!Phases

\* Sealing a close marks it sealed and waits for the answer.
LEMMA CloseSealedIs ==
    ASSUME NEW e \in S!EstablishedEndpoint, NEW reason \in S!Reasons
    PROVE  LET f == S!CloseSealed(e, reason)
           IN  /\ f \in S!EstablishedEndpoint
               /\ f.phase = "Closing" /\ f.closed = TRUE /\ f.checked = e.checked
               /\ f.acked = e.acked /\ f.served = e.served
<1> DEFINE g == S!Sealed(e)
<1>1. /\ g \in S!EstablishedEndpoint /\ g.checked = e.checked
      /\ g.acked = e.acked /\ g.served = e.served
  BY SealedIs
<1> HIDE DEF g
<1>2. LET f == [g EXCEPT !.phase = "Closing", !.closeSent = reason, !.closed = TRUE]
      IN  /\ f \in S!EstablishedEndpoint
          /\ f.phase = "Closing" /\ f.closed = TRUE /\ f.checked = g.checked
          /\ f.acked = g.acked /\ f.served = g.served
  BY <1>1, Zenon DEF S!EstablishedEndpoint, S!Phases
<1> QED
  BY <1>1, <1>2 DEF S!CloseSealed, g

\* Answering a close seals one and closes.
LEMMA AnsweredIs ==
    ASSUME NEW e \in S!EstablishedEndpoint, NEW reason \in S!Reasons \cup {S!NoReason}
    PROVE  LET f == S!Answered(e, reason)
           IN  /\ f \in S!EstablishedEndpoint
               /\ f.phase = "Closed" /\ f.closed = TRUE /\ f.checked = FALSE
               /\ f.acked = e.acked /\ f.served = e.served
<1> DEFINE g == S!Sealed(e)
           h == [g EXCEPT !.closed = TRUE, !.told = reason]
<1>1. g \in S!EstablishedEndpoint /\ g.acked = e.acked /\ g.served = e.served
  BY SealedIs
<1> HIDE DEF g
<1>2. /\ h \in S!EstablishedEndpoint /\ h.closed = TRUE
      /\ h.acked = g.acked /\ h.served = g.served
  BY <1>1, Zenon DEF S!EstablishedEndpoint
<1>3. S!Answered(e, reason) = S!Shut(h)
  BY DEF S!Answered, g
<1> HIDE DEF h
<1> QED
  BY <1>1, <1>2, <1>3, ShutIs, Zenon

\* The two sides are each other's peers.
LEMMA PeerIs ==
    ASSUME NEW s \in S!Sides
    PROVE  S!Peer(s) \in S!Sides /\ S!Peer(s) # s /\ S!Peer(S!Peer(s)) = s
  BY DEF S!Sides, S!Peer

\* The queues after a step of side s.
LEMMA WireIs ==
    ASSUME wire \in [S!Sides -> Seq(S!Frames)], NEW s \in S!Sides,
           NEW mine \in Seq(S!Frames), NEW out \in Seq(S!Frames), S!Wire(s, mine, out)
    PROVE  /\ wire' \in [S!Sides -> Seq(S!Frames)]
           /\ wire'[s] = mine
           /\ \/ wire'[S!Peer(s)] = wire[S!Peer(s)]
              \/ wire'[S!Peer(s)] = wire[S!Peer(s)] \o out
<1> DEFINE p == S!Peer(s)
<1>1. p \in S!Sides /\ p # s
  BY PeerIs
<1>2. wire' = [wire EXCEPT ![s] = mine,
                           ![p] = IF link /\ S!phase(p) # "Closed" THEN @ \o out ELSE @]
  BY DEF S!Wire
<1> HIDE DEF p
<1>3. wire[p] \in Seq(S!Frames) /\ wire[p] \o out \in Seq(S!Frames)
  BY <1>1
<1> QED
  BY <1>1, <1>2, <1>3, Zenon DEF p

\* What a step of side s may do to its endpoint and to the queues.
LEMMA EndpointsKeep ==
    ASSUME SessionInv, NEW s \in S!Sides, NEW e \in S!EstablishedEndpoint,
           S!Update(s, e),
           NEW mine \in Seq(S!Frames), NEW out \in Seq(S!Frames), S!Wire(s, mine, out),
           \A i \in DOMAIN mine : mine[i].type = "close" => side[S!Peer(s)].closed,
           \A i \in DOMAIN out : out[i].type = "close" => e.closed,
           side[s].closed => e.closed,
           e.closed => e.phase \in {"Closing", "Closed"},
           e.checked => e.phase \in {"Serving", "Closing"} /\ mine # <<>>,
           e.acked => side[S!Peer(s)].closed,
           UNCHANGED <<records, link>>, users' \subseteq S!Sides
    PROVE  SessionInv'
<1> DEFINE p == S!Peer(s)
<1>1. p \in S!Sides /\ p # s /\ S!Peer(p) = s /\ \A t \in S!Sides : t = s \/ t = p
  BY PeerIs DEF S!Sides, S!Peer
<1>2. /\ side \in [S!Sides -> S!EstablishedEndpoint]
      /\ wire \in [S!Sides -> Seq(S!Frames)]
      /\ \A t \in S!Sides : side[t].checked => wire[t] # <<>>
  BY Zenon DEF SessionInv, S!TypeOK
<1>3. side' \in [S!Sides -> S!EstablishedEndpoint] /\ side'[s] = e /\ side'[p] = side[p]
  BY <1>1, <1>2, Zenon DEF S!Update
<1>4. /\ wire' \in [S!Sides -> Seq(S!Frames)]
      /\ wire'[s] = mine
      /\ wire'[p] = wire[p] \/ wire'[p] = wire[p] \o out
  BY <1>2, WireIs, ZenonT(60)
<1> HIDE DEF p
<1>5. side'[p].checked => wire'[p] # <<>>
  <2>1. wire[p] \in Seq(S!Frames)
    BY <1>1, <1>2, Zenon
  <2>2. wire[p] # <<>> => wire[p] \o out # <<>>
    BY <2>1
  <2> QED
    BY <1>1, <1>2, <1>3, <1>4, <2>2, Zenon
<1>6. S!TypeOK'
  BY <1>1, <1>3, <1>4, <1>5, Zenon DEF S!TypeOK, SessionInv
<1>7. \A i \in DOMAIN wire'[p] : wire'[p][i].type = "close" => e.closed
  <2>1. wire[p] \in Seq(S!Frames) /\ \A i \in DOMAIN wire[p] : wire[p][i].type = "close" => e.closed
    BY <1>1, <1>2, Zenon DEF SessionInv, ClosedInv
  <2>2. \A i \in DOMAIN (wire[p] \o out) : (wire[p] \o out)[i].type = "close" => e.closed
    BY <2>1
  <2> QED
    BY <1>4, <2>1, <2>2, Zenon
<1>8. \A i \in DOMAIN wire'[s] : wire'[s][i].type = "close" => side'[p].closed
  BY <1>3, <1>4, Zenon DEF p
<1>9. /\ side[p].closed => side[p].phase \in {"Closing", "Closed"}
      /\ side[p].checked => side[p].phase \in {"Serving", "Closing"}
  BY <1>1, Zenon DEF SessionInv, ClosedInv, S!phase
<1>10. ClosedInv'
  <2>1. /\ side'[s].closed => side'[s].phase \in {"Closing", "Closed"}
        /\ side'[s].checked => side'[s].phase \in {"Serving", "Closing"}
        /\ S!Peer(s) = p
    BY <1>3, Zenon DEF p
  <2>2. /\ side'[p].closed => side'[p].phase \in {"Closing", "Closed"}
        /\ side'[p].checked => side'[p].phase \in {"Serving", "Closing"}
        /\ side'[S!Peer(p)].closed = e.closed
    BY <1>1, <1>3, <1>9, Zenon
  <2>3. \A t \in S!Sides :
            /\ side'[t].closed => side'[t].phase \in {"Closing", "Closed"}
            /\ side'[t].checked => side'[t].phase \in {"Serving", "Closing"}
            /\ \A i \in DOMAIN wire'[t] :
                   wire'[t][i].type = "close" => side'[S!Peer(t)].closed
    BY <1>1, <1>7, <1>8, <2>1, <2>2, Zenon
  <2> QED
    BY <2>3, Zenon DEF ClosedInv, S!phase
<1>11. side[p].acked => side[s].closed
  BY <1>1, Zenon DEF SessionInv, S!EchoIsEvidence
<1>12. S!EchoIsEvidence'
  BY <1>1, <1>3, <1>9, <1>11, Zenon DEF S!EchoIsEvidence, S!phase, p
<1> QED
  BY <1>6, <1>10, <1>12, Zenon DEF SessionInv

\* The queue of side s may be q, and its endpoint e.
QueueOK(s, q) ==
    /\ q \in Seq(S!Frames)
    /\ \A i \in DOMAIN q : q[i].type = "close" => side[S!Peer(s)].closed

EndpointOK(s, e, q) ==
    /\ e \in S!EstablishedEndpoint
    /\ side[s].closed => e.closed
    /\ e.closed => e.phase \in {"Closing", "Closed"}
    /\ e.checked => e.phase \in {"Serving", "Closing"} /\ q # <<>>
    /\ e.acked => side[S!Peer(s)].closed

\* A step of one side that sends nothing keeps the invariant if its new endpoint
\* and what is left of its wire do.
LEMMA QuietKeeps ==
    ASSUME SessionInv, NEW s \in S!Sides, NEW e, NEW q, EndpointOK(s, e, q), QueueOK(s, q),
           S!Update(s, e), S!Quiet(s, q), UNCHANGED <<records, link>>, users' \subseteq S!Sides
    PROVE  SessionInv'
<1> DEFINE out == <<>>
<1>1. out \in Seq(S!Frames) /\ DOMAIN out = {} /\ S!Wire(s, q, out)
  BY DEF S!Quiet
<1> HIDE DEF out
<1> QED
  BY <1>1, EndpointsKeep, Zenon DEF EndpointOK, QueueOK

\* So does one that seals a frame, if a close is sealed only by one marked so.
LEMMA SealKeeps ==
    ASSUME SessionInv, NEW s \in S!Sides, NEW e, NEW q, EndpointOK(s, e, q), QueueOK(s, q),
           NEW type \in S!Types, NEW reason \in S!Reasons \cup {S!NoReason},
           type = "close" => e.closed,
           S!Update(s, e), S!Seal(s, q, type, reason),
           UNCHANGED <<records, link>>, users' \subseteq S!Sides
    PROVE  SessionInv'
<1> DEFINE frame == [n |-> side[s].sendN, type |-> type, reason |-> reason]
           out == <<frame>>
<1>1. side[s].sendN \in Nat
  BY DEF SessionInv, S!TypeOK, S!EstablishedEndpoint
<1>2. frame \in S!Frames /\ frame.type = type
  BY <1>1, Zenon DEF S!Frames
<1>3. S!Wire(s, q, out)
  BY DEF S!Seal
<1> HIDE DEF frame
<1>4. out \in Seq(S!Frames) /\ DOMAIN out = {1} /\ out[1] = frame
  BY <1>2
<1>5. \A i \in DOMAIN out : out[i].type = "close" => e.closed
  BY <1>2, <1>4
<1> HIDE DEF out
<1> QED
  BY <1>3, <1>4, <1>5, EndpointsKeep, Zenon DEF EndpointOK, QueueOK

\* What the invariant says of one side.
LEMMA SessionNow ==
    ASSUME SessionInv, NEW s \in S!Sides
    PROVE  /\ EndpointOK(s, side[s], wire[s]) /\ QueueOK(s, wire[s])
           /\ users \subseteq S!Sides
<1>1. /\ side[s] \in S!EstablishedEndpoint /\ wire[s] \in Seq(S!Frames)
      /\ side[s].checked => wire[s] # <<>>
      /\ users \subseteq S!Sides
  BY DEF SessionInv, S!TypeOK
<1>2. /\ side[s].closed => side[s].phase \in {"Closing", "Closed"}
      /\ side[s].checked => side[s].phase \in {"Serving", "Closing"}
      /\ \A i \in DOMAIN wire[s] :
               wire[s][i].type = "close" => side[S!Peer(s)].closed
  BY DEF SessionInv, ClosedInv, S!phase
<1>3. side[s].acked => side[S!Peer(s)].closed
  BY DEF SessionInv, S!EchoIsEvidence
<1> QED
  BY <1>1, <1>2, <1>3, Zenon DEF EndpointOK, QueueOK

\* The frame at the head of a queue, and the queue behind it.
LEMMA QueueIs ==
    ASSUME NEW s \in S!Sides, NEW q, QueueOK(s, q), q # <<>>
    PROVE  /\ Head(q) \in S!Frames /\ QueueOK(s, Tail(q))
           /\ Head(q).type = "close" => side[S!Peer(s)].closed
  BY DEF QueueOK

\* An empty wire carries no close.
LEMMA NoQueue ==
    ASSUME NEW s
    PROVE  QueueOK(s, <<>>)
  BY DEF QueueOK

\* An endpoint that is shut, that sealed its close, or that answered one is as
\* it may be, with any queue.
LEMMA ShutOK ==
    ASSUME NEW s \in S!Sides, NEW e, NEW q, NEW r, EndpointOK(s, e, q)
    PROVE  EndpointOK(s, S!Shut(e), r)
<1> DEFINE f == S!Shut(e)
<1>1. e \in S!EstablishedEndpoint
  BY DEF EndpointOK
<1>2. /\ f \in S!EstablishedEndpoint /\ f.phase = "Closed" /\ f.checked = FALSE
      /\ f.closed = e.closed /\ f.acked = e.acked
  BY <1>1, ShutIs, Zenon
<1> HIDE DEF f
<1>3. EndpointOK(s, f, r)
  BY <1>2 DEF EndpointOK
<1> QED
  BY <1>3 DEF f

\* An endpoint that seals a close is as the invariant asks.
LEMMA CloseSealedOK ==
    ASSUME NEW s \in S!Sides, NEW e, NEW q, EndpointOK(s, e, q), NEW reason \in S!Reasons,
           NEW r, e.checked => r # <<>>
    PROVE  EndpointOK(s, S!CloseSealed(e, reason), r) /\ S!CloseSealed(e, reason).closed
<1> DEFINE f == S!CloseSealed(e, reason)
<1>1. e \in S!EstablishedEndpoint
  BY DEF EndpointOK
<1>2. /\ f \in S!EstablishedEndpoint /\ f.phase = "Closing" /\ f.closed = TRUE
      /\ f.checked = e.checked /\ f.acked = e.acked
  BY <1>1, CloseSealedIs, Zenon
<1> HIDE DEF f
<1>3. EndpointOK(s, f, r)
  BY <1>2 DEF EndpointOK
<1> QED
  BY <1>2, <1>3 DEF f

\* So is one that answers a close.
LEMMA AnsweredOK ==
    ASSUME NEW s \in S!Sides, NEW e, NEW q, EndpointOK(s, e, q),
           NEW reason \in S!Reasons \cup {S!NoReason}, NEW r
    PROVE  EndpointOK(s, S!Answered(e, reason), r) /\ S!Answered(e, reason).closed
<1> DEFINE f == S!Answered(e, reason)
<1>1. e \in S!EstablishedEndpoint
  BY DEF EndpointOK
<1>2. /\ f \in S!EstablishedEndpoint /\ f.phase = "Closed" /\ f.closed = TRUE
      /\ f.checked = FALSE /\ f.acked = e.acked
  BY <1>1, AnsweredIs, Zenon
<1> HIDE DEF f
<1>3. EndpointOK(s, f, r)
  BY <1>2 DEF EndpointOK
<1> QED
  BY <1>2, <1>3 DEF f

\* Sealing or opening a frame changes nothing of this.
LEMMA SealedOK ==
    ASSUME NEW s \in S!Sides, NEW e, NEW q, EndpointOK(s, e, q), NEW r, e.checked => r # <<>>
    PROVE  EndpointOK(s, S!Sealed(e), r)
<1> DEFINE f == S!Sealed(e)
<1>1. e \in S!EstablishedEndpoint
  BY DEF EndpointOK
<1>2. /\ f \in S!EstablishedEndpoint
      /\ f.phase = e.phase /\ f.closed = e.closed /\ f.checked = e.checked /\ f.acked = e.acked
  BY <1>1, SealedIs
<1> HIDE DEF f
<1>3. EndpointOK(s, f, r)
  BY <1>2 DEF EndpointOK
<1> QED
  BY <1>3 DEF f

\* So is one that opened a frame.
LEMMA OpenedOK ==
    ASSUME NEW s \in S!Sides, NEW e, NEW q, EndpointOK(s, e, q), NEW r, e.checked => r # <<>>
    PROVE  /\ EndpointOK(s, S!Opened(e), r)
           /\ S!Opened(e).checked = e.checked /\ S!Opened(e).phase = e.phase
<1> DEFINE f == S!Opened(e)
<1>1. e \in S!EstablishedEndpoint
  BY DEF EndpointOK
<1>2. /\ f \in S!EstablishedEndpoint
      /\ f.phase = e.phase /\ f.closed = e.closed /\ f.checked = e.checked /\ f.acked = e.acked
  BY <1>1, OpenedIs
<1> HIDE DEF f
<1>3. EndpointOK(s, f, r)
  BY <1>2 DEF EndpointOK
<1> QED
  BY <1>2, <1>3 DEF f

\* The step before the established session.
LEMMA ReadySent ==
    ASSUME SessionInv, S!send_ready
    PROVE  SessionInv'
<1> DEFINE g == S!Sealed(side["Proxy"])
           f == [g EXCEPT !.phase = "Ready"]
<1>1. "Proxy" \in S!Sides
  BY DEF S!Sides
<1>2. /\ EndpointOK("Proxy", side["Proxy"], wire["Proxy"]) /\ QueueOK("Proxy", wire["Proxy"])
      /\ users \subseteq S!Sides /\ side["Proxy"] \in S!EstablishedEndpoint
  BY <1>1, SessionNow DEF EndpointOK
<1>3. side["Proxy"].phase = "Authenticating"
  BY DEF S!send_ready, S!phase
<1>4. /\ g \in S!EstablishedEndpoint /\ g.closed = side["Proxy"].closed
      /\ g.checked = side["Proxy"].checked /\ g.acked = side["Proxy"].acked
  BY <1>2, SealedIs
<1> HIDE DEF g
<1>5. /\ f \in S!EstablishedEndpoint /\ f.closed = g.closed
      /\ f.checked = g.checked /\ f.acked = g.acked
  BY <1>4 DEF S!EstablishedEndpoint, S!Phases
<1> HIDE DEF f
<1>6. EndpointOK("Proxy", f, wire["Proxy"])
  BY <1>2, <1>3, <1>4, <1>5, Zenon DEF EndpointOK
<1>7. /\ S!Update("Proxy", f) /\ S!Seal("Proxy", wire["Proxy"], "ready", S!NoReason)
      /\ UNCHANGED <<records, link>> /\ UNCHANGED users
  BY DEF S!send_ready, S!Platform, f, g
<1>8. "ready" \in S!Types /\ S!NoReason \in S!Reasons \cup {S!NoReason}
  BY DEF S!Types
<1> QED
  BY <1>1, <1>2, <1>6, <1>7, <1>8, SealKeeps

\* Receiving the ready frame keeps the invariant.
LEMMA ReadyReceived ==
    ASSUME SessionInv, S!receive_ready
    PROVE  SessionInv'
<1> DEFINE s == "Requester"
           e == side[s]
           frame == Head(wire[s])
           rest == Tail(wire[s])
           opened == S!Opened(e)
           g == S!Sealed(opened)
           f == [g EXCEPT !.phase = "Ready"]
<1>1. s \in S!Sides
  BY DEF S!Sides
<1>2. EndpointOK(s, e, wire[s]) /\ QueueOK(s, wire[s]) /\ users \subseteq S!Sides
  BY <1>1, SessionNow
<1>3. /\ e.phase = "Authenticating" /\ wire[s] # <<>> /\ ~e.checked
      /\ UNCHANGED <<records, link>> /\ UNCHANGED users
  BY <1>2 DEF S!receive_ready, S!Platform, EndpointOK
<1>4. frame \in S!Frames /\ QueueOK(s, rest) /\ QueueOK(s, <<>>)
  BY <1>1, <1>2, <1>3, QueueIs, NoQueue
<1>5. frame.reason \in S!Reasons \cup {S!NoReason}
  BY <1>4 DEF S!Frames
<1>6. /\ EndpointOK(s, opened, rest) /\ ~opened.checked /\ opened.phase = "Authenticating"
  BY <1>1, <1>2, <1>3, OpenedOK, Zenon
<1>7. {"hello", "close"} \subseteq S!Types /\ "protocol_violation" \in S!Reasons
  BY DEF S!Types, S!Reasons
<1> HIDE DEF s, e, frame, rest, opened
<1>8. CASE S!Update(s, S!Shut(e)) /\ S!Quiet(s, <<>>)
  BY <1>1, <1>2, <1>3, <1>4, <1>8, ShutOK, QuietKeeps, Zenon
<1>9. CASE S!Update(s, f) /\ S!Seal(s, rest, "hello", S!NoReason)
  <2>1. opened \in S!EstablishedEndpoint
    BY <1>6 DEF EndpointOK
  <2>2. /\ g \in S!EstablishedEndpoint /\ g.closed = opened.closed
        /\ g.checked = opened.checked /\ g.acked = opened.acked
    BY <2>1, SealedIs
  <2> HIDE DEF g
  <2>3. /\ f \in S!EstablishedEndpoint /\ f.closed = g.closed
        /\ f.checked = g.checked /\ f.acked = g.acked
    BY <2>2 DEF S!EstablishedEndpoint, S!Phases
  <2> HIDE DEF f
  <2>4. EndpointOK(s, f, rest)
    BY <1>6, <2>2, <2>3 DEF EndpointOK
  <2> QED
    BY <1>1, <1>2, <1>3, <1>4, <1>7, <1>9, <2>4, SealKeeps, Zenon
<1>10. CASE /\ S!Update(s, S!Answered(opened, frame.reason))
            /\ S!Seal(s, <<>>, "close", frame.reason)
  <2>1. /\ EndpointOK(s, S!Answered(opened, frame.reason), <<>>)
        /\ S!Answered(opened, frame.reason).closed
    BY <1>1, <1>5, <1>6, AnsweredOK
  <2> QED
    BY <1>1, <1>2, <1>3, <1>4, <1>5, <1>7, <1>10, <2>1, SealKeeps, Zenon
<1>11. CASE /\ S!Update(s, S!CloseSealed(opened, "protocol_violation"))
            /\ S!Seal(s, rest, "close", "protocol_violation")
  <2>1. /\ EndpointOK(s, S!CloseSealed(opened, "protocol_violation"), rest)
        /\ S!CloseSealed(opened, "protocol_violation").closed
    BY <1>1, <1>6, <1>7, CloseSealedOK
  <2> QED
    BY <1>1, <1>2, <1>3, <1>4, <1>7, <1>11, <2>1, SealKeeps, Zenon
<1> QED
  BY <1>8, <1>9, <1>10, <1>11 DEF S!receive_ready, s, e, frame, rest, opened

\* Entering the established session keeps the invariant.
LEMMA Established ==
    ASSUME SessionInv, NEW s \in S!Sides, S!enter_established(s)
    PROVE  SessionInv'
<1> DEFINE f == [side[s] EXCEPT !.phase = "Serving", !.awaiting = (s = "Proxy")]
<1>1. EndpointOK(s, side[s], wire[s]) /\ QueueOK(s, wire[s]) /\ users \subseteq S!Sides
  BY SessionNow
<1>2. side[s].phase = "Ready" /\ (s = "Proxy") \in BOOLEAN
  BY DEF S!enter_established, S!phase
<1>3. /\ f \in S!EstablishedEndpoint /\ f.phase = "Serving" /\ f.closed = side[s].closed
      /\ f.checked = side[s].checked /\ f.acked = side[s].acked
  BY <1>1, <1>2, Zenon DEF EndpointOK, S!EstablishedEndpoint, S!Phases
<1>4. S!Update(s, f) /\ S!Quiet(s, wire[s]) /\ UNCHANGED <<records, link>> /\ UNCHANGED users
  BY DEF S!enter_established, S!Platform
<1> HIDE DEF f
<1>5. EndpointOK(s, f, wire[s])
  BY <1>1, <1>2, <1>3, Zenon DEF EndpointOK
<1> QED
  BY <1>1, <1>4, <1>5, QuietKeeps, Zenon

\* A side closes: with a revocation notice or close_with_reason.
LEMMA ClosesKeep ==
    ASSUME SessionInv, NEW s \in S!Sides, NEW reason \in S!Reasons,
           S!Update(s, S!CloseSealed(side[s], reason)), S!Seal(s, wire[s], "close", reason),
           UNCHANGED <<records, link>>, users' \subseteq S!Sides
    PROVE  SessionInv'
<1>1. EndpointOK(s, side[s], wire[s]) /\ QueueOK(s, wire[s])
  BY SessionNow, Zenon
<1>2. side[s].checked => wire[s] # <<>>
  BY <1>1, Zenon DEF EndpointOK
<1>3. /\ EndpointOK(s, S!CloseSealed(side[s], reason), wire[s])
      /\ S!CloseSealed(side[s], reason).closed
  BY <1>1, <1>2, CloseSealedOK
<1>4. "close" \in S!Types
  BY DEF S!Types
<1> QED
  BY <1>1, <1>3, <1>4, SealKeeps, Zenon

\* The steps that may seal a frame keep the invariant.
LEMMA SessionSends ==
    ASSUME SessionInv, NEW s \in S!Sides,
           \/ S!deliver_revocation_notice(s)
           \/ \E reason \in PlatformReasons : S!platform_closes(s, reason)
           \/ S!serve(s)
           \/ S!poll_ping(s)
           \/ S!poll_inactive(s)
    PROVE  SessionInv'
<1>1. EndpointOK(s, side[s], wire[s]) /\ QueueOK(s, wire[s]) /\ users \subseteq S!Sides
  BY SessionNow, Zenon
<1>2. side[s].checked => wire[s] # <<>>
  BY <1>1, Zenon DEF EndpointOK
<1>3. /\ "pairing_revoked" \in S!Reasons /\ {"data", "ping"} \subseteq S!Types
      /\ PlatformReasons \subseteq S!Reasons
  BY PartsAssumption DEF S!Reasons, S!Types, S!SessionAssumption
<1>4. CASE \/ S!deliver_revocation_notice(s)
           \/ S!poll_inactive(s)
           \/ S!serve(s) /\ S!close_with_reason(s, "pairing_revoked")
  <2>1. /\ S!Update(s, S!CloseSealed(side[s], "pairing_revoked"))
        /\ S!Seal(s, wire[s], "close", "pairing_revoked")
        /\ UNCHANGED <<records, link>> /\ UNCHANGED users
    BY <1>4 DEF S!deliver_revocation_notice, S!poll_inactive, S!serve,
       S!close_with_reason, S!Platform
  <2> QED
    BY <1>1, <1>3, <2>1, ClosesKeep, Zenon
<1>5. ASSUME NEW reason \in PlatformReasons, S!platform_closes(s, reason)
      PROVE  SessionInv'
  <2>1. reason \in S!Reasons /\ users' \subseteq S!Sides
    BY <1>1, <1>3, <1>5, Zenon DEF S!platform_closes
  <2>2. /\ S!Update(s, S!CloseSealed(side[s], reason))
        /\ S!Seal(s, wire[s], "close", reason)
        /\ UNCHANGED <<records, link>>
    BY <1>5, Zenon DEF S!platform_closes, S!close_with_reason
  <2> QED
    BY <2>1, <2>2, ClosesKeep, Zenon
<1>6. CASE S!poll_ping(s)
  <2>1. /\ S!Update(s, S!Sealed(side[s])) /\ S!Seal(s, wire[s], "ping", S!NoReason)
        /\ UNCHANGED <<records, link>> /\ UNCHANGED users
    BY <1>6, Zenon DEF S!poll_ping, S!Platform
  <2>2. EndpointOK(s, S!Sealed(side[s]), wire[s])
    BY <1>1, <1>2, SealedOK, Zenon
  <2> QED
    BY <1>1, <1>3, <2>1, <2>2, SealKeeps, Zenon
<1>7. CASE S!serve(s) /\ ~S!close_with_reason(s, "pairing_revoked")
  <2> DEFINE g == S!Sealed(side[s])
             f == [g EXCEPT !.served = g.served + 1]
  <2>1. EndpointOK(s, g, wire[s])
    BY <1>1, <1>2, SealedOK, Zenon
  <2>2. /\ S!Update(s, [g EXCEPT !.served = @ + 1]) /\ S!Seal(s, wire[s], "data", S!NoReason)
        /\ UNCHANGED <<records, link>> /\ UNCHANGED users
    BY <1>7 DEF S!serve, S!Platform
  <2> HIDE DEF g
  <2>3. g.served + 1 \in Nat /\ g \in S!EstablishedEndpoint
    BY <2>1 DEF EndpointOK, S!EstablishedEndpoint
  <2>4. /\ f \in S!EstablishedEndpoint /\ f.phase = g.phase /\ f.closed = g.closed
        /\ f.checked = g.checked /\ f.acked = g.acked
        /\ f = [g EXCEPT !.served = @ + 1]
    BY <2>3 DEF S!EstablishedEndpoint
  <2> HIDE DEF f
  <2>5. EndpointOK(s, f, wire[s])
    BY <2>1, <2>4 DEF EndpointOK
  <2> QED
    BY <1>1, <1>3, <2>2, <2>4, <2>5, SealKeeps
<1> QED
  BY <1>4, <1>5, <1>6, <1>7

\* The steps that shut an endpoint without a frame keep the invariant.
LEMMA SessionShut ==
    ASSUME SessionInv, NEW s \in S!Sides, S!poll_silence(s) \/ S!close_session(s)
    PROVE  SessionInv'
<1>1. EndpointOK(s, side[s], wire[s]) /\ users \subseteq S!Sides /\ QueueOK(s, <<>>)
  BY SessionNow, NoQueue, Zenon
<1>2. /\ S!Update(s, S!Shut(side[s])) /\ S!Quiet(s, <<>>)
      /\ UNCHANGED <<records, link>> /\ UNCHANGED users
  BY Zenon DEF S!poll_silence, S!close_session, S!Platform
<1>3. EndpointOK(s, S!Shut(side[s]), <<>>)
  BY <1>1, ShutOK, Zenon
<1> QED
  BY <1>1, <1>2, <1>3, QuietKeeps, Zenon

\* A call takes the first half of receive_frame: the frame stays in the queue.
LEMMA CheckedKeeps ==
    ASSUME SessionInv, NEW s \in S!Sides, S!receive_checked(s)
    PROVE  SessionInv'
<1> DEFINE f == [side[s] EXCEPT !.checked = TRUE]
<1>1. /\ side[s] \in S!EstablishedEndpoint /\ side \in [S!Sides -> S!EstablishedEndpoint]
      /\ side[s].phase = "Serving" /\ wire[s] # <<>>
      /\ side' = [side EXCEPT ![s] = f] /\ UNCHANGED <<wire, records, link, users>>
  BY DEF SessionInv, S!TypeOK, S!receive_checked, S!phase, S!Update, S!Platform
<1>2. /\ f \in S!EstablishedEndpoint /\ f.phase = "Serving" /\ f.closed = side[s].closed
      /\ f.acked = side[s].acked
  BY <1>1, Zenon DEF S!EstablishedEndpoint
<1> HIDE DEF f
<1>3. /\ side' \in [S!Sides -> S!EstablishedEndpoint]
      /\ \A t \in S!Sides : /\ side'[t].phase = side[t].phase
                            /\ side'[t].closed = side[t].closed
                            /\ side'[t].acked = side[t].acked
                            /\ side'[t].checked => t = s \/ side[t].checked
  BY <1>1, <1>2, Zenon
<1>4. \A t \in S!Sides : side'[t].checked => wire'[t] # <<>>
  BY <1>1, <1>3, Zenon DEF SessionInv, S!TypeOK
<1>5. S!TypeOK'
  BY <1>1, <1>3, <1>4, Zenon DEF SessionInv, S!TypeOK
<1>6. \A t \in S!Sides : S!Peer(t) \in S!Sides
  BY PeerIs
<1>7. ClosedInv'
  BY <1>1, <1>3, <1>6, ZenonT(60) DEF SessionInv, ClosedInv, S!phase
<1>8. S!EchoIsEvidence'
  BY <1>3, <1>6, Zenon DEF SessionInv, S!EchoIsEvidence, S!phase
<1> QED
  BY <1>5, <1>7, <1>8 DEF SessionInv

\* EstablishedSessionRuntime.receive of a frame.
LEMMA RuntimeKeeps ==
    ASSUME SessionInv, NEW s \in S!Sides, NEW e, NEW rest, EndpointOK(s, e, rest), ~e.checked,
           e.phase = "Serving", QueueOK(s, rest), NEW frame \in S!Frames,
           S!receive_runtime(s, e, frame, rest),
           UNCHANGED <<records, link>>, users' \subseteq S!Sides
    PROVE  SessionInv'
<1> DEFINE opened == S!Opened(e)
<1>1. EndpointOK(s, opened, rest) /\ ~opened.checked /\ opened.phase = "Serving"
  BY OpenedOK
<1>2. /\ QueueOK(s, <<>>) /\ frame.reason \in S!Reasons \cup {S!NoReason}
      /\ {"close", "pong"} \subseteq S!Types /\ "protocol_violation" \in S!Reasons
  BY NoQueue DEF S!Frames, S!Types, S!Reasons
<1>3. opened \in S!EstablishedEndpoint
  BY <1>1, Zenon DEF EndpointOK
<1> HIDE DEF opened
<1>4. CASE S!Update(s, S!Shut(e)) /\ S!Quiet(s, <<>>)
  BY <1>2, <1>4, ShutOK, QuietKeeps
<1>5. CASE S!close_for_violation(s, opened, rest)
  <2>1. /\ EndpointOK(s, S!CloseSealed(opened, "protocol_violation"), rest)
        /\ S!CloseSealed(opened, "protocol_violation").closed
    BY <1>1, <1>2, CloseSealedOK, Zenon
  <2>2. /\ S!Update(s, S!CloseSealed(opened, "protocol_violation"))
        /\ S!Seal(s, rest, "close", "protocol_violation")
    BY <1>5 DEF S!close_for_violation
  <2> QED
    BY <1>2, <2>1, <2>2, SealKeeps, Zenon
<1>6. CASE /\ S!Update(s, S!Answered(opened, frame.reason))
           /\ S!Seal(s, <<>>, "close", frame.reason)
  <2>1. /\ EndpointOK(s, S!Answered(opened, frame.reason), <<>>)
        /\ S!Answered(opened, frame.reason).closed
    BY <1>1, <1>2, AnsweredOK, Zenon
  <2> QED
    BY <1>2, <1>6, <2>1, SealKeeps, Zenon
<1>7. CASE S!Update(s, [opened EXCEPT !.awaiting = FALSE]) /\ S!Quiet(s, rest)
  <2> DEFINE f == [opened EXCEPT !.awaiting = FALSE]
  <2>1. /\ f \in S!EstablishedEndpoint /\ f.phase = opened.phase /\ f.closed = opened.closed
        /\ f.checked = opened.checked /\ f.acked = opened.acked
    BY <1>3, Zenon DEF S!EstablishedEndpoint
  <2>2. S!Update(s, f)
    BY <1>7
  <2> HIDE DEF f
  <2>3. EndpointOK(s, f, rest)
    BY <1>1, <2>1, Zenon DEF EndpointOK
  <2> QED
    BY <1>7, <2>2, <2>3, QuietKeeps
<1>8. CASE S!Update(s, S!Sealed(opened)) /\ S!Seal(s, rest, "pong", S!NoReason)
  <2>1. EndpointOK(s, S!Sealed(opened), rest)
    BY <1>1, SealedOK
  <2> QED
    BY <1>2, <1>8, <2>1, SealKeeps, Zenon
<1>9. CASE S!Update(s, opened) /\ S!Quiet(s, rest)
  BY <1>1, <1>9, QuietKeeps, Zenon
<1>10. CASE S!Update(s, [opened EXCEPT !.served = @ + 1]) /\ S!Quiet(s, rest)
  <2> DEFINE f == [opened EXCEPT !.served = @ + 1]
  <2>1. opened.served + 1 \in Nat
    BY <1>3 DEF S!EstablishedEndpoint
  <2>2. /\ f \in S!EstablishedEndpoint /\ f.phase = opened.phase /\ f.closed = opened.closed
        /\ f.checked = opened.checked /\ f.acked = opened.acked
    BY <1>3, <2>1 DEF S!EstablishedEndpoint
  <2>3. S!Update(s, f)
    BY <1>10
  <2> HIDE DEF f
  <2>4. EndpointOK(s, f, rest)
    BY <1>1, <2>2 DEF EndpointOK
  <2> QED
    BY <1>10, <2>3, <2>4, QuietKeeps
<1> QED
  BY <1>4, <1>5, <1>6, <1>7, <1>8, <1>9, <1>10 DEF S!receive_runtime, opened

\* Handling a frame in an open session keeps the invariant.
LEMMA ServedKeeps ==
    ASSUME SessionInv, NEW s \in S!Sides, S!receive_served(s)
    PROVE  SessionInv'
<1> DEFINE e == [side[s] EXCEPT !.checked = FALSE]
           frame == Head(wire[s])
           rest == Tail(wire[s])
<1>1. EndpointOK(s, side[s], wire[s]) /\ QueueOK(s, wire[s]) /\ users \subseteq S!Sides
  BY SessionNow
<1>2. /\ side[s].checked /\ UNCHANGED <<records, link>> /\ UNCHANGED users
      /\ wire[s] # <<>>
  BY <1>1 DEF S!receive_served, S!Platform, EndpointOK
<1>3. frame \in S!Frames /\ QueueOK(s, rest)
  BY <1>1, <1>2, QueueIs, Zenon
<1>4. /\ e \in S!EstablishedEndpoint /\ e.phase = side[s].phase /\ e.closed = side[s].closed
      /\ e.checked = FALSE /\ e.acked = side[s].acked
  BY <1>1, Zenon DEF EndpointOK, S!EstablishedEndpoint
<1>5. \/ S!Update(s, e) /\ S!Quiet(s, rest)
      \/ /\ S!Update(s, S!CloseSealed(e, "pairing_revoked"))
         /\ S!Seal(s, rest, "close", "pairing_revoked")
      \/ S!phase(s) = "Serving" /\ S!receive_runtime(s, e, frame, rest)
  BY DEF S!receive_served
<1> HIDE DEF e, frame, rest
<1>6. EndpointOK(s, e, rest) /\ ~e.checked
  BY <1>1, <1>4, Zenon DEF EndpointOK
<1>7. "pairing_revoked" \in S!Reasons /\ "close" \in S!Types
  BY DEF S!Reasons, S!Types
<1>8. CASE S!Update(s, e) /\ S!Quiet(s, rest)
  BY <1>1, <1>2, <1>3, <1>6, <1>8, QuietKeeps, Zenon
<1>9. CASE /\ S!Update(s, S!CloseSealed(e, "pairing_revoked"))
           /\ S!Seal(s, rest, "close", "pairing_revoked")
  <2>1. /\ EndpointOK(s, S!CloseSealed(e, "pairing_revoked"), rest)
        /\ S!CloseSealed(e, "pairing_revoked").closed
    BY <1>6, <1>7, CloseSealedOK
  <2> QED
    BY <1>1, <1>2, <1>3, <1>7, <1>9, <2>1, SealKeeps, Zenon
<1>10. CASE S!phase(s) = "Serving" /\ S!receive_runtime(s, e, frame, rest)
  BY <1>1, <1>2, <1>3, <1>4, <1>6, <1>10, RuntimeKeeps, Zenon DEF S!phase
<1> QED
  BY <1>5, <1>8, <1>9, <1>10

\* Handling a frame while waiting for the echo keeps the invariant.
LEMMA ClosingKeeps ==
    ASSUME SessionInv, NEW s \in S!Sides, S!receive_while_closing(s)
    PROVE  SessionInv'
<1> DEFINE e == side[s]
           frame == Head(wire[s])
           rest == Tail(wire[s])
           opened == S!Opened(e)
           g == [opened EXCEPT !.told = frame.reason, !.acked = TRUE]
<1>1. EndpointOK(s, e, wire[s]) /\ QueueOK(s, wire[s]) /\ users \subseteq S!Sides
  BY SessionNow
<1>2. /\ wire[s] # <<>> /\ ~e.checked /\ UNCHANGED <<records, link>> /\ UNCHANGED users
  BY Zenon DEF S!receive_while_closing, S!Platform
<1>3. /\ frame \in S!Frames /\ QueueOK(s, rest) /\ QueueOK(s, <<>>)
      /\ frame.type = "close" => side[S!Peer(s)].closed
  BY <1>1, <1>2, QueueIs, NoQueue, Zenon
<1>4. EndpointOK(s, opened, rest)
  BY <1>1, <1>2, OpenedOK, Zenon
<1>5. \/ S!Update(s, S!Shut(e)) /\ S!Quiet(s, <<>>)
      \/ frame.type = "close" /\ S!Update(s, S!Shut(g)) /\ S!Quiet(s, <<>>)
      \/ S!Update(s, opened) /\ S!Quiet(s, rest)
  BY DEF S!receive_while_closing, S!acknowledges, S!Acknowledged
<1>6. opened \in S!EstablishedEndpoint /\ frame.reason \in S!Reasons \cup {S!NoReason}
  BY <1>3, <1>4, Zenon DEF EndpointOK, S!Frames
<1> HIDE DEF e, frame, rest, opened
<1>7. CASE S!Update(s, S!Shut(e)) /\ S!Quiet(s, <<>>)
  BY <1>1, <1>2, <1>3, <1>7, ShutOK, QuietKeeps, Zenon
<1>8. CASE frame.type = "close" /\ S!Update(s, S!Shut(g)) /\ S!Quiet(s, <<>>)
  <2>1. /\ g \in S!EstablishedEndpoint /\ g.phase = opened.phase /\ g.closed = opened.closed
        /\ g.checked = opened.checked
    BY <1>6, Zenon DEF S!EstablishedEndpoint
  <2> HIDE DEF g
  <2>2. EndpointOK(s, g, rest)
    BY <1>3, <1>4, <1>8, <2>1, Zenon DEF EndpointOK
  <2> QED
    BY <1>1, <1>2, <1>3, <1>8, <2>2, ShutOK, QuietKeeps, Zenon
<1>9. CASE S!Update(s, opened) /\ S!Quiet(s, rest)
  BY <1>1, <1>2, <1>3, <1>4, <1>9, QuietKeeps, Zenon
<1> QED
  BY <1>5, <1>7, <1>8, <1>9

\* The transport takes the frames in flight with it, but for one a call holds.
LEMMA LostKeeps ==
    ASSUME SessionInv, S!transport_lost
    PROVE  SessionInv'
<1>1. /\ UNCHANGED <<side, records, users>> /\ link' = FALSE
      /\ wire' = [s \in S!Sides |-> IF side[s].checked THEN <<Head(wire[s])>> ELSE <<>>]
      /\ wire \in [S!Sides -> Seq(S!Frames)]
  BY DEF S!transport_lost, SessionInv, S!TypeOK
<1>2. ASSUME NEW s \in S!Sides
      PROVE  /\ wire'[s] \in Seq(S!Frames) /\ (side'[s].checked => wire'[s] # <<>>)
             /\ \A i \in DOMAIN wire'[s] :
                   wire'[s][i].type = "close" => side[S!Peer(s)].closed
  <2>1. EndpointOK(s, side[s], wire[s]) /\ QueueOK(s, wire[s])
    BY SessionNow, Zenon
  <2>2. CASE side[s].checked
    <3>1. wire[s] # <<>> /\ wire'[s] = <<Head(wire[s])>>
      BY <1>1, <2>1, <2>2, Zenon DEF EndpointOK
    <3>2. Head(wire[s]) \in S!Frames /\ (Head(wire[s]).type = "close" => side[S!Peer(s)].closed)
      BY <2>1, <3>1, QueueIs, Zenon
    <3>3. wire'[s] \in Seq(S!Frames) /\ DOMAIN wire'[s] = {1} /\ wire'[s][1] = Head(wire[s])
      BY <3>1, <3>2
    <3> QED
      BY <3>2, <3>3
  <2>3. CASE ~side[s].checked
    BY <1>1, <2>3
  <2> QED
    BY <2>2, <2>3, Zenon
<1>3. S!TypeOK'
  BY <1>1, <1>2, Zenon DEF SessionInv, S!TypeOK
<1>4. ClosedInv'
  BY <1>1, <1>2, Zenon DEF SessionInv, ClosedInv, S!phase
<1>5. S!EchoIsEvidence'
  BY <1>1, Zenon DEF SessionInv, S!EchoIsEvidence, S!phase
<1> QED
  BY <1>3, <1>4, <1>5 DEF SessionInv

\* The pair record ends; the session learns of it later.
LEMMA RecordEnds ==
    ASSUME SessionInv, NEW s \in S!Sides, S!forget(s) \/ S!revoke(s)
    PROVE  SessionInv'
<1>1. UNCHANGED <<side, wire, link>>
  BY Zenon DEF S!forget, S!revoke
<1>2. records' \in [S!Sides -> {"active", "forgotten", "revoked"}]
  BY Zenon DEF S!forget, S!revoke, SessionInv, S!TypeOK
<1>3. users' \subseteq S!Sides
  BY DEF S!forget, S!revoke, SessionInv, S!TypeOK
<1>4. S!TypeOK'
  BY <1>1, <1>2, <1>3, Zenon DEF SessionInv, S!TypeOK
<1> QED
  BY <1>1, <1>4, Zenon DEF SessionInv, ClosedInv, S!EchoIsEvidence, S!phase

\* Every step of a session keeps the invariant.
LEMMA SessionStep ==
    ASSUME SessionInv, S!Next
    PROVE  SessionInv'
  BY ReadySent, ReadyReceived, Established, SessionSends, SessionShut, CheckedKeeps,
     ServedKeeps, ClosingKeeps, RecordEnds, LostKeeps, Zenon DEF S!Next, S!Step

\* Nothing but serve and the second half of receive_frame serves a message, and
\* both consult the record.
LEMMA ServesActive ==
    ASSUME SessionInv, S!Next
    PROVE  S!ServesWhileActive
<1> SUFFICES ASSUME NEW t \in S!Sides, records[t] # "active"
             PROVE  side'[t].served = side[t].served
  BY Zenon DEF S!ServesWhileActive
<1>1. side \in [S!Sides -> S!EstablishedEndpoint]
  BY DEF SessionInv, S!TypeOK
<1>2. ASSUME NEW s \in S!Sides, NEW e, S!Update(s, e), s # t \/ e.served = side[s].served
      PROVE  side'[t].served = side[t].served
  BY <1>1, <1>2 DEF S!Update
<1>3. ASSUME UNCHANGED side
      PROVE  side'[t].served = side[t].served
  BY <1>3
<1>4. \A s \in S!Sides :
          /\ side[s] \in S!EstablishedEndpoint
          /\ S!Sealed(side[s]).served = side[s].served
          /\ S!Shut(side[s]).served = side[s].served
          /\ \A reason \in S!Reasons :
                 S!CloseSealed(side[s], reason).served = side[s].served
  BY <1>1, SealedIs, ShutIs, CloseSealedIs, Zenon
<1>5. "pairing_revoked" \in S!Reasons /\ "protocol_violation" \in S!Reasons
      /\ PlatformReasons \subseteq S!Reasons
  BY PartsAssumption DEF S!Reasons, S!SessionAssumption
<1>6. CASE S!send_ready
  <2> DEFINE g == S!Sealed(side["Proxy"])
  <2>1. "Proxy" \in S!Sides
    BY DEF S!Sides
  <2>2. g \in S!EstablishedEndpoint /\ g.served = side["Proxy"].served
    BY <1>4, <2>1, SealedIs, Zenon
  <2> HIDE DEF g
  <2>3. [g EXCEPT !.phase = "Ready"].served = g.served
    BY <2>2 DEF S!EstablishedEndpoint
  <2> QED
    BY <1>2, <1>6, <2>1, <2>2, <2>3 DEF S!send_ready, g
<1>7. CASE S!receive_ready
  <2> DEFINE s == "Requester"
             o == S!Opened(side[s])
             g == S!Sealed(o)
  <2>1. s \in S!Sides
    BY DEF S!Sides
  <2>2. o \in S!EstablishedEndpoint /\ o.served = side[s].served
    BY <1>4, <2>1, OpenedIs, Zenon
  <2>3. wire[s] # <<>> /\ Head(wire[s]).reason \in S!Reasons \cup {S!NoReason}
    <3>1. QueueOK(s, wire[s]) /\ wire[s] # <<>>
      BY <1>7, <2>1, SessionNow DEF S!receive_ready
    <3>2. Head(wire[s]) \in S!Frames
      BY <2>1, <3>1, QueueIs
    <3> QED
      BY <3>1, <3>2, Zenon DEF S!Frames
  <2>4. S!Answered(o, Head(wire[s]).reason).served = side[s].served
    BY <2>2, <2>3, AnsweredIs, Zenon
  <2>5. S!CloseSealed(o, "protocol_violation").served = side[s].served
    BY <1>5, <2>2, CloseSealedIs, Zenon
  <2>6. g \in S!EstablishedEndpoint /\ g.served = side[s].served
    BY <2>2, SealedIs, Zenon
  <2> HIDE DEF g
  <2>7. [g EXCEPT !.phase = "Ready"].served = side[s].served
    BY <2>6 DEF S!EstablishedEndpoint
  <2> QED
    BY <1>2, <1>4, <1>7, <2>1, <2>4, <2>5, <2>7, Zenon DEF S!receive_ready, g
<1>8. ASSUME NEW s \in S!Sides, S!Step(s)
      PROVE  side'[t].served = side[t].served
  <2> DEFINE e == [side[s] EXCEPT !.checked = FALSE]
  <2>1. CASE S!enter_established(s)
    <3>1. [side[s] EXCEPT !.phase = "Serving", !.awaiting = (s = "Proxy")].served = side[s].served
      BY <1>4 DEF S!EstablishedEndpoint
    <3> QED
      BY <1>2, <2>1, <3>1 DEF S!enter_established
  <2>2. CASE S!deliver_revocation_notice(s) \/ S!poll_inactive(s)
             \/ \E reason \in PlatformReasons : S!platform_closes(s, reason)
    BY <1>2, <1>4, <1>5, <2>2, Zenon DEF S!deliver_revocation_notice, S!poll_inactive,
       S!platform_closes, S!close_with_reason
  <2>3. CASE S!serve(s)
    BY <1>2, <1>4, <1>5, <2>3 DEF S!serve, S!close_with_reason
  <2>4. CASE S!poll_ping(s) \/ S!poll_silence(s) \/ S!close_session(s)
    BY <1>2, <1>4, <2>4, Zenon DEF S!poll_ping, S!poll_silence, S!close_session
  <2>5. CASE S!receive_checked(s)
    <3>1. [side[s] EXCEPT !.checked = TRUE].served = side[s].served
      BY <1>4 DEF S!EstablishedEndpoint
    <3> QED
      BY <1>2, <2>5, <3>1, Zenon DEF S!receive_checked
  <2>6. CASE S!receive_served(s)
    <3>1. e \in S!EstablishedEndpoint /\ e.served = side[s].served
      BY <1>4, ZenonT(60) DEF S!EstablishedEndpoint
    <3>2. \/ S!Update(s, e)
          \/ S!Update(s, S!CloseSealed(e, "pairing_revoked"))
          \/ records[s] = "active" /\ S!receive_runtime(s, e, Head(wire[s]), Tail(wire[s]))
      BY <2>6 DEF S!receive_served, S!serves
    <3> HIDE DEF e
    <3>3. CASE s = t
      <4>1. S!CloseSealed(e, "pairing_revoked").served = side[s].served
        BY <1>5, <3>1, CloseSealedIs, Zenon
      <4>2. S!Update(s, e) \/ S!Update(s, S!CloseSealed(e, "pairing_revoked"))
        BY <3>2, <3>3
      <4> QED
        BY <1>2, <3>1, <4>1, <4>2, Zenon
    <3>4. CASE s # t
      BY <1>2, <3>2, <3>4 DEF S!receive_runtime, S!close_for_violation
    <3> QED
      BY <3>3, <3>4
  <2>7. CASE S!receive_while_closing(s)
    <3> DEFINE o == S!Opened(side[s])
               g == [o EXCEPT !.told = Head(wire[s]).reason, !.acked = TRUE]
    <3>1. o \in S!EstablishedEndpoint /\ o.served = side[s].served
      BY <1>4, OpenedIs, Zenon
    <3>2. Head(wire[s]).reason \in S!Reasons \cup {S!NoReason}
      <4>1. QueueOK(s, wire[s]) /\ wire[s] # <<>>
        BY <2>7, SessionNow, Zenon DEF S!receive_while_closing
      <4>2. Head(wire[s]) \in S!Frames
        BY <4>1, QueueIs, Zenon
      <4> QED
        BY <4>2 DEF S!Frames
    <3>3. \/ S!Update(s, S!Shut(side[s])) \/ S!Update(s, S!Shut(g)) \/ S!Update(s, o)
      BY <2>7 DEF S!receive_while_closing, S!Acknowledged
    <3> HIDE DEF o
    <3>4. g \in S!EstablishedEndpoint /\ g.served = o.served
      BY <3>1, <3>2, Zenon DEF S!EstablishedEndpoint
    <3> HIDE DEF g
    <3> QED
      BY <1>2, <1>4, <3>1, <3>3, <3>4, ShutIs, ZenonT(60)
  <2>8. CASE S!forget(s) \/ S!revoke(s)
    BY <1>3, <2>8, Zenon DEF S!forget, S!revoke
  <2> QED
    BY <1>8, <2>1, <2>2, <2>3, <2>4, <2>5, <2>6, <2>7, <2>8, Zenon DEF S!Step
<1>9. CASE S!transport_lost
  BY <1>3, <1>9, Zenon DEF S!transport_lost
<1> QED
  BY <1>6, <1>7, <1>8, <1>9, Zenon DEF S!Next

-----------------------------------------------------------------------------
(* The search. *)

\* A set of natural numbers that is not empty has a least element.
LEMMA Least ==
    ASSUME NEW T, T \subseteq Nat, T # {}
    PROVE  C!Min(T) \in T
<1> DEFINE R == OpToRel(<, Nat)
<1>1. IsWellFoundedOn(R, Nat)
  BY NatLessThanWellFounded, Zenon
<1>2. \A x, y \in Nat : x < y => <<x, y>> \in R
  BY DEF OpToRel
<1> HIDE DEF R
<1>3. PICK x \in T : \A y \in T : ~ (<<y, x>> \in R)
  BY <1>1, WFMin, Zenon
<1>4. \A y \in T : x <= y
  <2> TAKE y \in T
  <2>1. x \in Nat /\ y \in Nat
    OBVIOUS
  <2>2. ~ (y < x)
    BY <1>2, <1>3, <2>1, Zenon
  <2> QED
    BY <2>1, <2>2
<1> QED
  BY <1>4, Zenon DEF C!Min

Candidate == [endpoint : Endpoints, status : C!Statuses]

\* The invariant holds before the search.
LEMMA SearchInit ==
    ASSUME C!Init
    PROVE  SearchInv
<1>1. /\ candidates \in Seq([endpoint : Endpoints, status : C!Statuses])
      /\ openings \in Nat /\ tried \in Seq(Offers) /\ search_clock \in Nat
      /\ guesses \in [Offers -> Nat]
  BY DEF C!Init
<1>2. phase \in C!Phases /\ phase = "Closed" /\ report \in C!Reports
  BY DEF C!Init, C!Phases, C!Reports
<1>3. busy_answered \in BOOLEAN
  BY Zenon DEF C!Init
<1>4. C!TypeOK
  BY <1>1, <1>2, <1>3 DEF C!TypeOK
<1> QED
  BY <1>4 DEF SearchInv, TriedInv, C!Init

\* The candidates of a status are candidates of the list.
LEMMA AtDomain ==
    ASSUME candidates \in Seq(Candidate), NEW kind
    PROVE  C!At(kind) \subseteq DOMAIN candidates /\ C!At(kind) \subseteq Nat
  BY DEF C!At

\* The candidates that may be opened are candidates of the list.
LEMMA OpenableDomain ==
    ASSUME candidates \in Seq(Candidate)
    PROVE  C!Openable \subseteq DOMAIN candidates
<1>1. C!At("Waiting") # {} => C!Min(C!At("Waiting")) \in DOMAIN candidates
  BY AtDomain, Least
<1>2. C!At("Deferred") \subseteq DOMAIN candidates
  BY AtDomain
<1> QED
  BY <1>1, <1>2, Zenon DEF C!Openable

\* While a connection is open, Connected is its endpoint.
LEMMA ConnectedIs ==
    ASSUME C!TypeOK, phase \in {"Opened", "Trying"}
    PROVE  /\ C!Connected \in DOMAIN candidates
           /\ candidates \in Seq(Candidate)
           /\ OfferOf[candidates[C!Connected].endpoint] \in Offers
<1>1. C!At("Open") # {} /\ candidates \in Seq(Candidate)
  BY DEF C!TypeOK, Candidate
<1>2. C!Connected \in DOMAIN candidates
  BY <1>1, AtDomain DEF C!Connected
<1>3. candidates[C!Connected] \in Candidate
  BY <1>1, <1>2
<1>4. candidates[C!Connected].endpoint \in Endpoints
  BY <1>3 DEF Candidate
<1> QED
  BY <1>1, <1>2, <1>4, PartsAssumption DEF C!CandidatesAssumption

\* One endpoint gets a new status.
LEMMA StatusSet ==
    ASSUME candidates \in Seq(Candidate), NEW i \in DOMAIN candidates,
           NEW status \in C!Statuses,
           candidates' = [candidates EXCEPT ![i].status = status]
    PROVE  /\ candidates' \in Seq(Candidate) /\ DOMAIN candidates' = DOMAIN candidates
           /\ candidates'[i].status = status
<1>1. candidates[i] \in Candidate
  OBVIOUS
<1>2. [candidates[i] EXCEPT !.status = status] \in Candidate
  BY <1>1 DEF Candidate
<1>3. candidates' = [candidates EXCEPT ![i] = [candidates[i] EXCEPT !.status = status]]
  OBVIOUS
<1>4. [candidates[i] EXCEPT !.status = status].status = status
  BY <1>1 DEF Candidate
<1> DEFINE c == [candidates[i] EXCEPT !.status = status]
<1> HIDE DEF c
<1>5. candidates' = [candidates EXCEPT ![i] = c] /\ c \in Candidate /\ c.status = status
  BY <1>2, <1>3, <1>4 DEF c
<1> QED
  BY <1>5

\* The statuses a candidate gets are statuses.
LEMMA StatusTypes ==
    /\ \A kind \in {"Waiting", "Open", "Done"} :
           C!Status(kind) \in C!Statuses /\ C!Status(kind).kind = kind
    /\ \A time \in Nat : C!Deferred(time) \in C!Statuses
  BY DEF C!Status, C!Deferred, C!Statuses

\* A try is recorded: the offer was not tried, so it has had no guess.
LEMMA TryRecorded ==
    ASSUME tried \in Seq(Offers), guesses \in [Offers -> Nat], TriedInv,
           NEW offer \in Offers, C!untried(offer),
           tried' = Append(tried, offer), guesses' = [guesses EXCEPT ![offer] = @ + 1]
    PROVE  /\ TriedInv' /\ tried' \in Seq(Offers) /\ guesses' \in [Offers -> Nat]
<1>1. \A i \in DOMAIN tried : tried[i] # offer
  BY DEF C!untried
<1>2. /\ tried' \in Seq(Offers) /\ tried' # <<>>
      /\ DOMAIN tried' = DOMAIN tried \cup {Len(tried) + 1}
      /\ \A i \in DOMAIN tried : tried'[i] = tried[i]
      /\ tried'[Len(tried) + 1] = offer
      /\ Len(tried) + 1 \notin DOMAIN tried
  OBVIOUS
<1>3. \A i, j \in DOMAIN tried' : tried'[i] = tried'[j] => i = j
  BY <1>1, <1>2 DEF TriedInv
<1>4. guesses[offer] = 0
  BY <1>1 DEF TriedInv
<1>5. /\ guesses' \in [Offers -> Nat] /\ guesses'[offer] = 1
      /\ \A o \in Offers : o # offer => guesses'[o] = guesses[o]
  BY <1>4
<1>6. \A o \in Offers : guesses'[o] = IF \E i \in DOMAIN tried' : tried'[i] = o THEN 1 ELSE 0
  <2> TAKE o \in Offers
  <2>1. CASE o = offer
    BY <1>2, <1>5, <2>1
  <2>2. CASE o # offer
    <3>1. (\E i \in DOMAIN tried' : tried'[i] = o) <=> \E i \in DOMAIN tried : tried[i] = o
      BY <1>2, <2>2, Zenon
    <3> QED
      BY <1>5, <2>2, <3>1, Zenon DEF TriedInv
  <2> QED
    BY <2>1, <2>2, Zenon
<1> QED
  BY <1>2, <1>3, <1>5, <1>6, Zenon DEF TriedInv

\* The last try is given back: its offer was tried once.
LEMMA TryGivenBack ==
    ASSUME tried \in Seq(Offers), guesses \in [Offers -> Nat], TriedInv, tried # <<>>,
           tried' = SubSeq(tried, 1, Len(tried) - 1), guesses' = [guesses EXCEPT ![tried[Len(tried)]] = @ - 1],
           phase' # "Trying"
    PROVE  /\ TriedInv' /\ tried' \in Seq(Offers) /\ guesses' \in [Offers -> Nat]
<1> DEFINE n == Len(tried)
           last == tried[n]
<1>1. n \in Nat \ {0} /\ n \in DOMAIN tried /\ last \in Offers
  OBVIOUS
<1>2. tried' = SubSeq(tried, 1, n - 1) /\ guesses' = [guesses EXCEPT ![last] = guesses[last] - 1]
  BY <1>1
<1>3. /\ tried' \in Seq(Offers) /\ DOMAIN tried' = DOMAIN tried \ {n}
      /\ \A i \in DOMAIN tried' : tried'[i] = tried[i]
  BY <1>1, <1>2
<1>4. \A i, j \in DOMAIN tried' : tried'[i] = tried'[j] => i = j
  BY <1>3 DEF TriedInv
<1>5. guesses[last] = 1
  BY <1>1 DEF TriedInv
<1> HIDE DEF n, last
<1>6. /\ guesses' \in [Offers -> Nat] /\ guesses'[last] = 0
      /\ \A o \in Offers : o # last => guesses'[o] = guesses[o]
  BY <1>1, <1>2, <1>5
<1>7. \A o \in Offers : guesses'[o] = IF \E i \in DOMAIN tried' : tried'[i] = o THEN 1 ELSE 0
  <2> TAKE o \in Offers
  <2>1. CASE o = last
    <3>1. \A i \in DOMAIN tried' : tried'[i] # last
      BY <1>1, <1>3, Zenon DEF TriedInv, last
    <3> QED
      BY <1>6, <2>1, <3>1, Zenon
  <2>2. CASE o # last
    <3>1. (\E i \in DOMAIN tried' : tried'[i] = o) <=> \E i \in DOMAIN tried : tried[i] = o
      BY <1>3, <2>2, Zenon DEF last
    <3> QED
      BY <1>6, <2>2, <3>1, Zenon DEF TriedInv
  <2> QED
    BY <2>1, <2>2
<1> QED
  BY <1>3, <1>4, <1>6, <1>7, Zenon DEF TriedInv

\* The connection ended: the ledger has its types and no connection is open.
LEMMA ConnectionEnded ==
    ASSUME C!TypeOK, phase \in {"Opened", "Trying"},
           NEW status \in C!Statuses, NEW next \in {"Try", "Deferred"},
           NEW offers \in Seq(Offers), NEW busy \in BOOLEAN,
           C!after_connection(status, next, offers, busy), guesses' \in [Offers -> Nat]
    PROVE  C!TypeOK' /\ phase' \notin {"Opened", "Trying"}
<1> DEFINE list == [candidates EXCEPT ![C!Connected].status = status]
           told == IF C!left(list) /\ C!within_limit THEN next
                      ELSE IF offers = <<>> /\ ~busy THEN "NoneTried"
                      ELSE "NotAccepted"
<1>1. /\ candidates' = list /\ tried' = offers /\ busy_answered' = busy
      /\ report' = told
      /\ phase' = IF told = "NotAccepted" THEN "NotAccepted" ELSE "Closed"
      /\ UNCHANGED <<openings, search_clock>>
  BY DEF C!after_connection
<1>2. candidates' \in Seq(Candidate)
  BY <1>1, ConnectedIs, StatusSet, Zenon
<1>3. told \in {next, "NoneTried", "NotAccepted"}
  OBVIOUS
<1> HIDE DEF told, list
<1>4. report' \in C!Reports /\ phase' \in C!Phases /\ phase' \notin {"Opened", "Trying"}
  BY <1>1, <1>3 DEF C!Reports, C!Phases
<1>5. busy_answered' \in BOOLEAN
  BY <1>1
<1> QED
  BY <1>1, <1>2, <1>4, <1>5, Zenon DEF C!TypeOK, Candidate

\* Discovery reports an endpoint.
LEMMA FoundKeeps ==
    ASSUME SearchInv, NEW e \in Endpoints, C!found(e)
    PROVE  SearchInv'
<1> DEFINE c == [endpoint |-> e, status |-> C!Status("Waiting")]
<1>1. /\ UNCHANGED <<openings, tried, busy_answered, phase, search_clock, report, guesses>>
      /\ candidates' = candidates \/ candidates' = Append(candidates, c)
  BY DEF C!found
<1>2. C!TypeOK /\ TriedInv /\ candidates \in Seq(Candidate)
  BY DEF SearchInv, C!TypeOK, Candidate
<1>3. c \in Candidate
  BY StatusTypes DEF Candidate
<1> HIDE DEF c
<1>4. /\ candidates' \in Seq(Candidate)
      /\ \A i \in DOMAIN candidates : i \in DOMAIN candidates' /\ candidates'[i] = candidates[i]
  BY <1>1, <1>2, <1>3
<1>5. C!At("Open") # {} => C!At("Open")' # {}
  BY <1>4 DEF C!At
<1>6. C!TypeOK'
  BY <1>1, <1>2, <1>4, <1>5 DEF C!TypeOK, Candidate
<1> QED
  BY <1>1, <1>2, <1>6, Zenon DEF SearchInv, TriedInv

\* next_endpoint opens the connection that Connected then names.
LEMMA EndpointKeeps ==
    ASSUME SearchInv, C!next_endpoint
    PROVE  SearchInv'
<1>1. C!TypeOK /\ TriedInv /\ candidates \in Seq(Candidate) /\ phase = "Closed"
  BY DEF SearchInv, C!TypeOK, Candidate, C!next_endpoint
<1>2. UNCHANGED <<tried, busy_answered, search_clock, guesses>>
  BY DEF C!next_endpoint
<1>3. CASE report' = "Exhausted" /\ UNCHANGED <<candidates, openings, phase>>
  <2>1. report' \in C!Reports
    BY <1>3 DEF C!Reports
  <2> QED
    BY <1>1, <1>2, <1>3, <2>1, Zenon DEF SearchInv, C!TypeOK, TriedInv, C!At
<1>4. ASSUME NEW i \in C!Openable, candidates' = C!marked_open(i), openings' = openings + 1,
             phase' = "Opened", report' = "none"
      PROVE  SearchInv'
  <2>1. i \in DOMAIN candidates
    BY <1>1, OpenableDomain
  <2>2. C!Status("Open") \in C!Statuses /\ C!Status("Open").kind = "Open"
    BY StatusTypes
  <2>3. /\ candidates' \in Seq(Candidate) /\ DOMAIN candidates' = DOMAIN candidates
        /\ candidates'[i].status = C!Status("Open")
    BY <1>1, <1>4, <2>1, <2>2, StatusSet, Zenon DEF C!marked_open
  <2>4. i \in C!At("Open")'
    BY <2>1, <2>2, <2>3 DEF C!At
  <2>5. openings' \in Nat /\ phase' \in C!Phases /\ report' \in C!Reports
    BY <1>1, <1>4 DEF C!TypeOK, C!Phases, C!Reports
  <2>6. C!TypeOK'
    BY <1>1, <1>2, <2>3, <2>4, <2>5, Zenon DEF C!TypeOK, Candidate
  <2> QED
    BY <1>1, <1>2, <1>4, <2>6, Zenon DEF SearchInv, TriedInv
<1> QED
  BY <1>3, <1>4 DEF C!next_endpoint

\* Beginning a try with a custodian not tried before keeps the invariant.
LEMMA TryKeeps ==
    ASSUME SearchInv, C!begin_try
    PROVE  SearchInv'
<1> DEFINE offer == OfferOf[candidates[C!Connected].endpoint]
<1>1. C!TypeOK /\ TriedInv /\ phase = "Opened"
  BY Zenon DEF SearchInv, C!begin_try
<1>2. offer \in Offers
  BY <1>1, ConnectedIs
<1>3. /\ C!untried(offer) /\ tried' = Append(tried, offer)
      /\ guesses' = [guesses EXCEPT ![offer] = @ + 1] /\ phase' = "Trying"
      /\ UNCHANGED <<candidates, openings, busy_answered, search_clock, report>>
  BY Zenon DEF C!begin_try
<1>4. tried \in Seq(Offers) /\ guesses \in [Offers -> Nat]
  BY <1>1 DEF C!TypeOK
<1> HIDE DEF offer
<1>5. TriedInv' /\ tried' \in Seq(Offers) /\ guesses' \in [Offers -> Nat]
  BY <1>1, <1>2, <1>3, <1>4, TryRecorded, Zenon
<1>6. C!At("Open")' = C!At("Open")
  BY <1>3 DEF C!At
<1>7. phase' \in C!Phases
  BY <1>3 DEF C!Phases
<1>8. C!TypeOK'
  BY <1>1, <1>3, <1>5, <1>6, <1>7, Zenon DEF C!TypeOK
<1> QED
  BY <1>5, <1>8 DEF SearchInv

\* The end of a connection, with a try given back or not, keeps the invariant.
LEMMA EndKeeps ==
    ASSUME SearchInv, C!ConnectionEnds
    PROVE  SearchInv'
<1>1. /\ C!TypeOK /\ TriedInv /\ tried \in Seq(Offers) /\ guesses \in [Offers -> Nat]
      /\ search_clock \in Nat /\ busy_answered \in BOOLEAN
  BY Zenon DEF SearchInv, C!TypeOK
<1>2. CASE C!closed
  <2>1. /\ phase \in {"Opened", "Trying"} /\ UNCHANGED guesses
        /\ C!after_connection(C!Status("Done"), "Try", tried, busy_answered)
    BY <1>2 DEF C!closed
  <2>2. C!TypeOK' /\ phase' \notin {"Opened", "Trying"}
    BY <1>1, <2>1, StatusTypes, ConnectionEnded, Zenon
  <2>3. tried' = tried
    BY <2>1 DEF C!after_connection
  <2> QED
    BY <1>1, <2>1, <2>2, <2>3, Zenon DEF SearchInv, TriedInv
<1>3. ASSUME NEW retry \in RetryAfter, C!busy(retry)
      PROVE  SearchInv'
  <2>1. /\ phase \in {"Opened", "Trying"}
        /\ C!after_connection(C!Deferred(search_clock + retry), "Deferred", C!given_back, TRUE)
        /\ guesses' = IF phase = "Trying"
                      THEN [guesses EXCEPT ![tried[Len(tried)]] = @ - 1] ELSE guesses
        /\ tried' = C!given_back
    BY <1>3 DEF C!busy, C!after_connection
  <2>2. search_clock + retry \in Nat
    BY <1>1, PartsAssumption DEF C!CandidatesAssumption
  <2>3. phase' # "Trying"
    BY <2>1 DEF C!after_connection
  <2>4. TriedInv' /\ tried' \in Seq(Offers) /\ guesses' \in [Offers -> Nat]
    <3>1. CASE phase = "Trying"
      <4>1. /\ tried # <<>> /\ tried' = SubSeq(tried, 1, Len(tried) - 1)
            /\ guesses' = [guesses EXCEPT ![tried[Len(tried)]] = @ - 1]
        BY <1>1, <2>1, <3>1, Zenon DEF TriedInv, C!given_back
      <4> QED
        BY <1>1, <2>3, <4>1, TryGivenBack
    <3>2. CASE phase # "Trying"
      BY <1>1, <2>1, <2>3, <3>2, Zenon DEF TriedInv, C!given_back
    <3> QED
      BY <3>1, <3>2
  <2>5. C!Deferred(search_clock + retry) \in C!Statuses /\ C!given_back \in Seq(Offers)
    BY <2>1, <2>2, <2>4, StatusTypes, Zenon
  <2>6. C!TypeOK'
    BY <1>1, <2>1, <2>4, <2>5, ConnectionEnded, Zenon
  <2> QED
    BY <2>4, <2>6 DEF SearchInv
<1>4. CASE C!accepted
  <2>1. /\ phase' = "Accepted"
        /\ UNCHANGED <<candidates, openings, tried, busy_answered, search_clock, report,
                       guesses>>
    BY <1>4 DEF C!accepted
  <2>2. phase' \in C!Phases
    BY <2>1 DEF C!Phases
  <2> QED
    BY <1>1, <2>1, <2>2, Zenon DEF SearchInv, C!TypeOK, TriedInv
<1> QED
  BY <1>2, <1>3, <1>4, Zenon DEF C!ConnectionEnds

\* Every step of the search keeps the invariant.
LEMMA SearchStep ==
    ASSUME SearchInv, C!Next
    PROVE  SearchInv'
<1>1. CASE C!Tick
  <2>1. /\ UNCHANGED <<candidates, openings, tried, busy_answered, phase, report, guesses>>
        /\ search_clock' = search_clock + 1
    BY <1>1 DEF C!Tick, C!ledger
  <2>2. search_clock' \in Nat
    BY <2>1 DEF SearchInv, C!TypeOK
  <2>3. C!At("Open")' = C!At("Open")
    BY <2>1, Zenon DEF C!At
  <2> QED
    BY <2>1, <2>2, <2>3, Zenon DEF SearchInv, C!TypeOK, TriedInv
<1> QED
  BY <1>1, FoundKeeps, EndpointKeeps, TryKeeps, EndKeeps DEF C!Next

-----------------------------------------------------------------------------
(* Theorems. *)

\* Whichever part runs, its steps keep the invariant.
LEMMA PeeringStep ==
    ASSUME PeeringInv, [PeeringNext]_peering
    PROVE  PeeringInv'
<1>1. CASE SearchNext
  BY <1>1, SearchStep DEF SearchNext, PeeringInv
<1>2. CASE SessionNext
  BY <1>2, SessionStep DEF SessionNext, PeeringInv
<1>3. CASE RecordNext
  BY <1>3 DEF RecordNext, PeeringInv
<1>4. CASE UNCHANGED peering
  <2>1. UNCHANGED <<part, candidates, openings, tried, busy_answered, phase, search_clock,
                    report, guesses>> /\ UNCHANGED <<side, records, wire, link, users>>
    BY <1>4 DEF peering, search, session
  <2>2. SessionInv => SessionInv'
    BY <2>1, Zenon DEF SessionInv, S!TypeOK, ClosedInv, S!EchoIsEvidence, S!phase
  <2>3. SearchInv => SearchInv'
    BY <2>1, Zenon DEF SearchInv, C!TypeOK, C!At, TriedInv
  <2> QED
    BY <2>1, <2>2, <2>3, Zenon DEF PeeringInv
<1> QED
  BY <1>1, <1>2, <1>3, <1>4 DEF PeeringNext

\* The invariant is inductive.
THEOREM PeeringInvariant == PeeringSafety => []PeeringInv
<1>1. PeeringInit => PeeringInv
  BY SearchInit, SessionInit DEF PeeringInit, PeeringInv
<1>2. PeeringInv /\ [PeeringNext]_peering => PeeringInv'
  BY PeeringStep
<1> QED
  BY <1>1, <1>2, PTL DEF PeeringSafety

\* However many endpoints reach a custodian and however often it answers busy,
\* it gets at most one guess of the code (begin_try, busy).
THEOREM OneGuess == PeeringSpec => []OneGuessPerCustodian
<1>1. PeeringInv => OneGuessPerCustodian
  BY DEF PeeringInv, SearchInv, TriedInv, OneGuessPerCustodian, C!OneGuessPerCustodian
<1> QED
  BY <1>1, PeeringInvariant, PTL DEF PeeringSpec

\* CloseAcknowledged is evidence that the peer sealed its own close and serves
\* nothing more, for any number of frames in flight (receive_while_closing).
THEOREM Evidence == PeeringSpec => []EchoIsEvidence
<1>1. PeeringInv => EchoIsEvidence
  BY DEF PeeringInv, SessionInv, EchoIsEvidence
<1> QED
  BY <1>1, PeeringInvariant, PTL DEF PeeringSpec

\* A forgotten or revoked pairing serves nothing: no call, and no frame that
\* another thread holds between the halves of receive_frame
\* (serve_while_active).
THEOREM ServesNothing == PeeringSpec => ForgottenServesNothing
<1>1. PeeringInv /\ [PeeringNext]_peering => [part = "session" => S!ServesWhileActive]_peering
  <2> SUFFICES ASSUME PeeringInv, PeeringNext, part = "session"
               PROVE  S!ServesWhileActive
    OBVIOUS
  <2>1. S!Next /\ SessionInv
    BY DEF PeeringNext, SearchNext, RecordNext, SessionNext, PeeringInv
  <2> QED
    BY <2>1, ServesActive
<1> QED
  BY <1>1, PeeringInvariant, PTL DEF PeeringSpec, PeeringSafety, ForgottenServesNothing

\* The parts together do to the pair record only what the record's own
\* specification allows, so what is proved of it holds of them.
THEOREM RecordRefined == PeeringSafety => Spec
<1>1. PeeringInit => Init
  BY DEF PeeringInit
<1>2. [PeeringNext]_peering => [Next]_vars
  BY DEF PeeringNext, SearchNext, RecordNext, SessionNext, peering
<1> QED
  BY <1>1, <1>2, PTL DEF PeeringSafety, Spec

\* A pairing the user ended, or that expired, stays ended and its key is gone
\* with it, whichever object runs and whatever crashes or fails between the
\* steps (forget, revoke, sweep).
THEOREM PairingEnds ==
    PeeringSpec => []ForgottenIsFinal /\ []KeyDestroyed /\ ExpiresOnlyWhenIdle
<1> QED
  BY RecordRefined, EndIsFinal, KeyGone, IdleOnly, PTL DEF PeeringSpec

=============================================================================
