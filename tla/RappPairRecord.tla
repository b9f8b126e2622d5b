--------------------------- MODULE RappPairRecord ---------------------------
(***************************************************************************)
(* The life of one pairing at one endpoint: the pair record in memory      *)
(* (RappPairRecord over PairRecord), the platform's device-only vault, and *)
(* the wall clock.  The record is stored unconfirmed, confirmed once the   *)
(* peer stored its own, used by sessions, swept for idle expiry, forgotten *)
(* by its user and revoked.  Every vault call may fail, the process may    *)
(* stop between any two steps and load the record again, and the wall      *)
(* clock may be set back or forward.                                       *)
(*                                                                         *)
(* The process holds one RappPairRecord per pairing, shared by its         *)
(* sessions and its user interface.  Every operation holds the record's    *)
(* lock over its vault calls, so each is one step.  A vault call that      *)
(* fails before anything changed is a step that changes nothing, and a     *)
(* crash after a vault call is that call's step and then a crash.          *)
(***************************************************************************)
EXTENDS Naturals

CONSTANTS
    Created,       \* created_at_ms
    IdleLimit,     \* PAIRING_IDLE_EXPIRY_MS
    NoticeLimit,   \* REVOCATION_NOTICE_MS
    AttemptBound,  \* REVOCATION_ATTEMPT_BOUND_MS
    MaxTime,       \* bound of the wall clock
    MaxSets,       \* bound on how often the wall clock is set
    Absent,        \* no record, in memory or in the vault
    Tombstone      \* what the vault keeps of a revoked pairing

Roles == {"Requester", "Proxy"}

\* 0 is the absence of a time.
NoTime == 0
Times == Nat \ {NoTime}

\* PairRecord: whether the peer confirmed its storage, when the pairing was
\* forgotten, and the latest session recorded.
PairRecords == [confirmed : BOOLEAN, forgotten : Nat, session : Nat]

ASSUME RecordAssumption ==
    /\ Created \in Times
    /\ IdleLimit \in Times
    /\ NoticeLimit \in Times
    /\ AttemptBound \in Times
    /\ MaxTime \in Times
    /\ MaxSets \in Nat
    /\ Absent \notin PairRecords
    /\ Tombstone \notin PairRecords
    /\ Absent # Tombstone

VARIABLES
    role,         \* EndpointRole of this endpoint
    memory,       \* RappPairRecord.record
    vault,        \* what the vault holds under the pair identifier
    ceremony,     \* the pairing bridge awaits the peer's storage confirmation
    established,  \* a session to the peer is established
    clock,        \* wall clock
    sets,         \* times the wall clock was set
    ended,        \* history: why the pairing ended: "user", "idle"
    held          \* history: latest time a sweep returned Recorded

vars == <<role, memory, vault, ceremony, established, clock, sets, ended, held>>

Loaded == memory \in PairRecords
Stored == vault \in PairRecords

\* The pairing is in force in this form of the record.
Active(form) == form \in PairRecords /\ form.confirmed /\ form.forgotten = NoTime

-----------------------------------------------------------------------------
(***************************************************************************)
(* Storing and confirming.                                                 *)
(***************************************************************************)
\* persist_device_only: the vault refuses an identifier it knows.
persist_device_only ==
    /\ Loaded
    /\ vault = Absent
    /\ vault' = memory
    /\ UNCHANGED <<role, memory, ceremony, established, clock, sets, ended, held>>

\* activate_pairing, when both storage confirmations were exchanged: the
\* caller sent its own after persist_device_only.
activate_pairing ==
    /\ ceremony
    /\ Loaded /\ Stored
    /\ ceremony' = FALSE
    /\ memory' = [memory EXCEPT !.confirmed = TRUE]
    /\ UNCHANGED <<role, vault, established, clock, sets, ended, held>>

\* The ceremony is cancelled, fails or runs out of time.
ceremony_ends ==
    /\ ceremony
    /\ ceremony' = FALSE
    /\ UNCHANGED <<role, memory, vault, established, clock, sets, ended, held>>

\* Mutation: the form is the one activation returned, before a forget.
stored_form_AsActivated == [memory EXCEPT !.forgotten = NoTime]

\* The record is encoded under its lock, as memory has it now.
stored_form == memory

\* replace_device_only, for a confirmed record.  A peer's new display name
\* stores the whole record in the same way (record_peer_display_name).
replace_device_only ==
    /\ Loaded /\ memory.confirmed
    /\ Stored
    /\ vault' = stored_form
    /\ UNCHANGED <<role, memory, ceremony, established, clock, sets, ended, held>>

-----------------------------------------------------------------------------
(***************************************************************************)
(* Forgetting, revoking and idle expiry.                                   *)
(***************************************************************************)
\* The vault destroyed the record, and memory lets go of it.
Destroy(cause) ==
    /\ vault' = Tombstone
    /\ memory' = Absent
    /\ ended' = ended \cup {cause}

\* A record already forgotten keeps its first time.
forgotten(record) ==
    IF record.forgotten = NoTime
    THEN [record EXCEPT !.forgotten = clock] ELSE record

\* forget: an unconfirmed record is destroyed; a confirmed one is forgotten
\* in memory, and in the vault unless the vault fails.
forget ==
    /\ Loaded
    /\ \/ /\ ~memory.confirmed
          /\ Stored
          /\ Destroy("user")
       \/ /\ memory.confirmed
          /\ memory' = forgotten(memory)
          /\ \/ /\ Stored
                /\ vault' = forgotten(memory)
                /\ ended' = ended \cup {"user"}
             \/ UNCHANGED <<vault, ended>>
    /\ UNCHANGED <<role, ceremony, established, clock, sets, held>>

\* revoke: by the user, after a delivered notice, past the notice window, or
\* at the first start that finds the record unconfirmed.
revoke ==
    /\ Loaded /\ Stored
    /\ Destroy("user")
    /\ UNCHANGED <<role, ceremony, established, clock, sets, held>>

\* saturating_sub
minus(a, b) == IF a >= b THEN a - b ELSE 0

later_session(recorded, at) == IF recorded >= at THEN recorded ELSE at

idle_limit_reached(record) ==
    LET since == IF record.session > Created THEN record.session ELSE Created
    IN  minus(clock, since) >= IdleLimit

revocation_notice_expired(record) ==
    /\ record.forgotten # NoTime
    /\ \/ role = "Proxy" /\ minus(clock, record.forgotten) >= NoticeLimit
       \/ role = "Requester" /\ clock < record.forgotten
       \/ role = "Requester" /\ minus(clock, record.forgotten) >= AttemptBound

\* The custodian's platform finds the notice expired and revokes.
revoke_expired ==
    /\ Loaded /\ role = "Proxy"
    /\ revocation_notice_expired(memory)
    /\ revoke

\* The outcome of plan_sweep.
outcome ==
    IF memory.forgotten # NoTime THEN "Kept"
    ELSE IF established THEN "Recorded"
    ELSE IF idle_limit_reached(memory) THEN "Expired"
    ELSE "Kept"

\* The record plan_sweep leaves.
plan_sweep ==
    CASE outcome = "Recorded" ->
            [memory EXCEPT !.session = later_session(@, clock)]
      [] outcome = "Expired" -> [memory EXCEPT !.forgotten = clock]
      [] OTHER -> memory

\* Mutation: a record whose attempt is over is not destroyed.
requester_drops_OnlyExpired == role = "Requester" /\ outcome = "Expired"

requester_drops ==
    /\ role = "Requester"
    /\ outcome = "Expired" \/ revocation_notice_expired(plan_sweep)

\* A change is stored first, then taken into memory; nothing is stored when
\* nothing changes.
sweep_stores ==
    /\ memory' = plan_sweep
    /\ vault' = IF outcome = "Kept" THEN vault ELSE plan_sweep

\* sweep: past its store, a requester's expired record is destroyed, or left
\* forgotten when the vault fails to.
sweep ==
    /\ Loaded /\ memory.confirmed
    /\ Stored \/ outcome = "Kept"
    /\ held' = IF outcome = "Recorded" /\ clock > held THEN clock ELSE held
    /\ \/ /\ requester_drops /\ Stored
          /\ Destroy(IF outcome = "Expired" THEN "idle" ELSE "user")
       \/ /\ sweep_stores
          /\ ended' = IF outcome = "Expired" THEN ended \cup {"idle"} ELSE ended
    /\ UNCHANGED <<role, ceremony, established, clock, sets>>

-----------------------------------------------------------------------------
(***************************************************************************)
(* Sessions, the process and the clock.                                    *)
(***************************************************************************)
\* begin and enter_established: the record is confirmed and not forgotten.
opens_session == Loaded /\ memory.confirmed /\ memory.forgotten = NoTime

session_opens ==
    /\ ~established
    /\ opens_session
    /\ established' = TRUE
    /\ UNCHANGED <<role, memory, vault, ceremony, clock, sets, ended, held>>

session_ends ==
    /\ established
    /\ established' = FALSE
    /\ UNCHANGED <<role, memory, vault, ceremony, clock, sets, ended, held>>

\* The process stops: memory, sessions and the ceremony go with it.
crash ==
    /\ memory' = Absent
    /\ established' = FALSE
    /\ ceremony' = FALSE
    /\ UNCHANGED <<role, vault, clock, sets, ended, held>>

\* load_from_vault, at the next start.
load_from_vault ==
    /\ memory = Absent /\ Stored
    /\ memory' = vault
    /\ UNCHANGED <<role, vault, ceremony, established, clock, sets, ended, held>>

Tick ==
    /\ clock < MaxTime
    /\ clock' = clock + 1
    /\ UNCHANGED <<role, memory, vault, ceremony, established, sets, ended, held>>

\* The user or the network sets the clock.
SetClock(time) ==
    /\ sets < MaxSets
    /\ clock' = time
    /\ sets' = sets + 1
    /\ UNCHANGED <<role, memory, vault, ceremony, established, ended, held>>

-----------------------------------------------------------------------------
\* build_pair_record made the record, unconfirmed; nothing is stored yet.
Init ==
    /\ role \in Roles
    /\ memory = [confirmed |-> FALSE, forgotten |-> NoTime, session |-> NoTime]
    /\ vault = Absent
    /\ ceremony = TRUE
    /\ established = FALSE
    /\ clock = Created
    /\ sets = 0
    /\ ended = {}
    /\ held = NoTime

Next ==
    \/ persist_device_only \/ activate_pairing \/ ceremony_ends
    \/ replace_device_only
    \/ forget \/ revoke \/ sweep
    \/ session_opens \/ session_ends
    \/ crash \/ load_from_vault
    \/ Tick
    \/ \E time \in 1..MaxTime : SetClock(time)

Spec == Init /\ [][Next]_vars

-----------------------------------------------------------------------------
TypeOK ==
    /\ role \in Roles
    /\ memory \in PairRecords \cup {Absent}
    /\ vault \in PairRecords \cup {Absent, Tombstone}
    /\ ceremony \in BOOLEAN
    /\ established \in BOOLEAN
    /\ clock \in Times
    /\ sets \in Nat
    /\ ended \subseteq {"user", "idle"}
    /\ held \in Nat

\* A pairing that its user forgot or revoked, or that expired, with success,
\* is never in force again: not in memory, not in the vault, and so not after
\* a restart either, whatever else stores the record meanwhile.
ForgottenIsFinal == ended # {} => ~Active(memory) /\ ~Active(vault)

\* Once the vault destroyed the record nothing in the process holds its key.
KeyDestroyed == vault = Tombstone => memory = Absent

\* A sweep ends a pairing only when no session is established and IdleLimit
\* has passed since the latest session any sweep recorded, in this run of the
\* process or an earlier one, however the wall clock was set in between.
ExpiresOnlyWhenIdle ==
    [][ended' \ ended = {"idle"} =>
          /\ ~established
          /\ clock >= held + IdleLimit
          /\ clock >= Created + IdleLimit]_vars

\* The time a stored pairing was forgotten never moves: the notice window and
\* the bounded attempt run from the revocation, across restarts, a second
\* forget and writes of the record for other reasons.
NoticeRunsFromRevocation ==
    [][Stored /\ vault.forgotten # NoTime /\ vault' \in PairRecords =>
          vault'.forgotten = vault.forgotten]_vars

\* A forgotten record is destroyed in the end even when no connection to the
\* peer ever carries the notice, at the latest once the time its role allows
\* has passed.
ForgottenIsDestroyed ==
    /\ Stored /\ vault.forgotten # NoTime
    /\ vault.forgotten + (IF role = "Proxy" THEN NoticeLimit ELSE AttemptBound)
          <= MaxTime
    ~> vault = Tombstone
==============================================================================
