----------------------------- MODULE RappPairing -----------------------------
(***************************************************************************)
(* The pairing ceremony of RAPP: one custodian's offer, the requesters that *)
(* connect to it, the pairing bridge on each side (RappPairingBridge of     *)
(* crates/rapp/src/bindings.rs) and what it drives: the attempt slot and    *)
(* the rate limit (pairing_attempts.rs), the PAKE, the handshake, the       *)
(* confirmation and the storage exchange (pairing_flow.rs).                 *)
(*                                                                          *)
(* Each call of the bridge is one action, taken before the deadline of its  *)
(* phase, or after it, when require_live_offer ends the ceremony instead.   *)
(* The PAKE and the cipher are ideal: the keys agree when the typed code is *)
(* the custodian's and both sides speak on the same connection.             *)
(***************************************************************************)
EXTENDS Naturals, Sequences, FiniteSets

CONSTANTS
    Requesters,      \* the requesters that may try the offer
    RightCodes,      \* the sets of requesters at which the custodian's code may be typed
    Grants,          \* the grant sets a user may confirm
    OfferTtl,        \* OFFER_TTL_MS
    AttemptWindow,   \* CPACE_ATTEMPT_WINDOW_MS
    Spacing,         \* PRE_AUTHENTICATION_SPACING_MS
    HandshakeWindow, \* POST_PAKE_HANDSHAKE_MS
    ConfirmWindow,   \* POST_PAKE_CONFIRMATION_MS
    MaxConnections,  \* connections opened in all
    MaxTime          \* the clock's bound

ASSUME WindowsAssumption ==
    /\ {OfferTtl, AttemptWindow, Spacing, HandshakeWindow, ConfirmWindow} \subseteq Nat \ {0}
    /\ MaxConnections \in Nat /\ MaxTime \in Nat

Custodian == "custodian"

ASSUME SidesAssumption ==
    /\ RightCodes \subseteq SUBSET Requesters
    /\ Custodian \notin Requesters /\ "none" \notin Grants \cup Requesters

VARIABLES
    now,      \* the monotonic clock
    typed,    \* typed[r]: the code typed at r is the custodian's
    bridge,   \* bridge[s]: the pairing bridge of each side
    slot,     \* the custodian's CpaceAttemptSlot and PreAuthenticationRateLimit
    link,     \* link[r]: r's connection and the frames on it
    vault,    \* vault[s]: the record the side stored
    opened,   \* connections opened so far
    guesses,  \* codes the custodian answered with its T_B
    wrote     \* wrote[s]: the records the side ever stored

vars == <<now, typed, bridge, slot, link, vault, opened, guesses, wrote>>

Sides == Requesters \cup {Custodian}
None == "none"
Never == 0
Endings == {"Completed", "Expired", "Failed"}

Frame(type, arg) == [type |-> type, arg |-> arg]

\* PairingBridgeState, with the fields of the phase the side is in.  step is
\* the CPace state or the number of handshake messages, peer and conn name the
\* connection the bridge works on.
NewBridge(phase, deadline) ==
    [phase |-> phase, deadline |-> deadline, step |-> 0, peer |-> None, conn |-> 0,
     hello_sent |-> FALSE, peer_hello |-> FALSE, local_grants |-> None, peer_grants |-> None,
     stored_sent |-> FALSE, peer_stored |-> FALSE]

NoRecord == [pair |-> <<>>, grants |-> None, state |-> "none"]
Down == [up |-> FALSE, conn |-> 0, toC |-> <<>>, toR |-> <<>>]

-----------------------------------------------------------------------------
(* Frames and the connection *)

Wire(s) == IF s = Custodian THEN bridge[s].peer ELSE s

\* The side has a connection, and it is the one its bridge began on
Connected(s) ==
    /\ Wire(s) \in Requesters
    /\ link[Wire(s)].up
    /\ link[Wire(s)].conn = bridge[s].conn

Inbox(s) == IF s = Custodian THEN link[Wire(s)].toC ELSE link[s].toR
Sent(l, s, frame) ==
    IF s = Custodian THEN [l EXCEPT !.toR = Append(@, frame)]
    ELSE [l EXCEPT !.toC = Append(@, frame)]
Taken(l, s) ==
    IF s = Custodian THEN [l EXCEPT !.toC = Tail(@)] ELSE [l EXCEPT !.toR = Tail(@)]

NextIs(s, type) == Connected(s) /\ Inbox(s) # <<>> /\ Head(Inbox(s)).type = type

Send(s, frame) == link' = [link EXCEPT ![Wire(s)] = Sent(@, s, frame)]
Take(s) == link' = [link EXCEPT ![Wire(s)] = Taken(@, s)]
HangUp(r) == link' = [link EXCEPT ![r] = Down]

-----------------------------------------------------------------------------
(* The deadlines of the phases *)

\* require_live_offer: the phase's deadline, and what the side becomes past it
is_live(s) == now < bridge[s].deadline
AfterDeadline(phase) == IF phase = "Storage" THEN "Failed" ELSE "Expired"

\* Any call past the deadline of a phase that has one
require_live_offer(s) ==
    /\ bridge[s].phase \in {"Offer", "Cpace", "Handshake", "Confirmation", "Storage"}
    /\ ~is_live(s)
    /\ bridge' = [bridge EXCEPT ![s] = NewBridge(AfterDeadline(@.phase), 0)]
    /\ UNCHANGED <<now, typed, slot, link, vault, opened, guesses, wrote>>

At(s, phase) == bridge[s].phase = phase /\ is_live(s)

Ended(s, phase) ==
    bridge' = [bridge EXCEPT ![s] = NewBridge(phase, IF phase = "Offer" THEN @.deadline ELSE 0)]

-----------------------------------------------------------------------------
(* The attempt slot and the rate limit *)

accepts_another_attempt == ~slot.consumed /\ slot.active = Never

\* CpaceAttemptSlot::attempt_is_live
attempt_is_live == slot.active # Never /\ now < slot.active

\* Mutant: the rate limit admits every attempt
spaced_Always == TRUE

\* PreAuthenticationRateLimit::admit would admit now
spaced == slot.last = Never \/ now - slot.last >= Spacing

\* The deadline of an attempt admitted now
AttemptDeadline ==
    IF now + AttemptWindow < bridge[Custodian].deadline
    THEN now + AttemptWindow ELSE bridge[Custodian].deadline

\* admission_wait_ms is zero: no attempt runs and the spacing has passed
admits_now == ~attempt_is_live /\ spaced

\* custodian_attempt_failed within the offer's lifetime: the attempt ends, the
\* offer stays
custodian_attempt_failed ==
    /\ bridge' = [bridge EXCEPT ![Custodian] = NewBridge("Offer", @.deadline)]
    /\ slot' = [slot EXCEPT !.active = Never]

-----------------------------------------------------------------------------
(* Bootstrap *)

\* A requester opens a pairing connection and the custodian answers it with
\* bootstrap_bytes: the offer while it can admit an attempt, else a busy answer
\* or none, after which the platform closes the connection
bootstrap_bytes(r) ==
    /\ ~link[r].up /\ opened < MaxConnections
    /\ bridge[r].phase \in {"none", "Offer", "Expired", "Failed"} /\ vault[r] = NoRecord
    /\ opened' = opened + 1
    /\ bridge' = [bridge EXCEPT ![r] = NewBridge("none", 0)]
    /\ link' = IF At(Custodian, "Offer") /\ admits_now
               THEN [link EXCEPT ![r] = [Down EXCEPT !.up = TRUE, !.conn = opened + 1,
                                                     !.toR = <<Frame("offer", None)>>]]
               ELSE link
    /\ UNCHANGED <<now, typed, slot, vault, guesses, wrote>>

\* from_bootstrap, begin_cpace as requester and its step 1 frame
from_bootstrap(r) ==
    /\ bridge[r].phase = "none" /\ link[r].up
    /\ link[r].toR # <<>> /\ Head(link[r].toR).type = "offer"
    /\ bridge' = [bridge EXCEPT ![r] = [NewBridge("Cpace", now + OfferTtl)
                                          EXCEPT !.step = 1, !.peer = Custodian,
                                                 !.conn = link[r].conn]]
    /\ link' = [link EXCEPT ![r] = Sent(Taken(@, r), r, Frame("step1", typed[r]))]
    /\ UNCHANGED <<now, typed, slot, vault, opened, guesses, wrote>>

-----------------------------------------------------------------------------
(* CPace *)

Step1Waits(r) == link[r].up /\ link[r].toC # <<>> /\ Head(link[r].toC).type = "step1"

\* begin_cpace as custodian, when step 1 arrives on a connection: one attempt
\* per spacing and one at a time; the others are answered busy and closed
begin_cpace(r) ==
    /\ Step1Waits(r)
    /\ ~(bridge[Custodian].phase = "Cpace" /\ bridge[Custodian].step = 1 /\ Connected(Custodian)
         /\ bridge[Custodian].peer = r)
    /\ IF At(Custodian, "Offer") /\ spaced
       THEN /\ slot' = [slot EXCEPT !.last = now]
            /\ IF accepts_another_attempt
               THEN /\ bridge' = [bridge EXCEPT ![Custodian] =
                                    [NewBridge("Cpace", @.deadline)
                                       EXCEPT !.step = 1, !.peer = r, !.conn = link[r].conn]]
                    /\ UNCHANGED link
               ELSE HangUp(r) /\ UNCHANGED bridge
       ELSE HangUp(r) /\ UNCHANGED <<bridge, slot>>
    /\ UNCHANGED <<now, typed, vault, opened, guesses, wrote>>

\* read_cpace_frame of step 1: a malformed point, or a refused admission, leaves
\* the offer; a point of the group is admitted before the answer leaves
read_step1 ==
    /\ At(Custodian, "Cpace") /\ bridge[Custodian].step = 1 /\ NextIs(Custodian, "step1")
    /\ \/ /\ bridge' = [bridge EXCEPT ![Custodian] = NewBridge("Offer", @.deadline)]
          /\ HangUp(Wire(Custodian)) /\ UNCHANGED slot
       \/ /\ accepts_another_attempt
          /\ slot' = [slot EXCEPT !.active = AttemptDeadline]
          /\ bridge' = [bridge EXCEPT ![Custodian].step = 2]
          /\ Take(Custodian)
    /\ UNCHANGED <<now, typed, vault, opened, guesses, wrote>>

\* write_cpace_frame of the custodian: Y_B and T_B, while the attempt is live
write_step2 ==
    /\ At(Custodian, "Cpace") /\ bridge[Custodian].step = 2 /\ Connected(Custodian)
    /\ IF attempt_is_live
       THEN /\ bridge' = [bridge EXCEPT ![Custodian].step = 3]
            /\ Send(Custodian, Frame("step2", typed[bridge[Custodian].peer]))
            /\ guesses' = guesses + 1 /\ UNCHANGED slot
       ELSE /\ custodian_attempt_failed /\ HangUp(Wire(Custodian)) /\ UNCHANGED guesses
    /\ UNCHANGED <<now, typed, vault, opened, wrote>>

\* read_cpace_frame of step 2: a T_B of another code leaves the requester with
\* the offer and no connection
read_step2(r) ==
    /\ At(r, "Cpace") /\ bridge[r].step = 1 /\ NextIs(r, "step2")
    /\ IF Head(Inbox(r)).arg
       THEN /\ bridge' = [bridge EXCEPT ![r].step = 3] /\ Take(r)
       ELSE /\ Ended(r, "Offer") /\ HangUp(r)
    /\ UNCHANGED <<now, typed, slot, vault, opened, guesses, wrote>>

Handshake(s) ==
    [bridge[s] EXCEPT !.phase = "Handshake", !.step = 0, !.deadline = now + HandshakeWindow]

\* write_cpace_frame of step 3: the requester is in the handshake with it
write_step3(r) ==
    /\ At(r, "Cpace") /\ bridge[r].step = 3 /\ Connected(r)
    /\ Send(r, Frame("step3", TRUE))
    /\ bridge' = [bridge EXCEPT ![r] = Handshake(r)]
    /\ UNCHANGED <<now, typed, slot, vault, opened, guesses, wrote>>

\* read_cpace_frame of step 3: a verified T_A consumes the offer
read_step3 ==
    /\ At(Custodian, "Cpace") /\ bridge[Custodian].step = 3 /\ NextIs(Custodian, "step3")
    /\ IF attempt_is_live
       THEN /\ slot' = [slot EXCEPT !.active = Never, !.consumed = TRUE]
            /\ bridge' = [bridge EXCEPT ![Custodian] = Handshake(Custodian)]
            /\ Take(Custodian)
       ELSE custodian_attempt_failed /\ HangUp(Wire(Custodian))
    /\ UNCHANGED <<now, typed, vault, opened, guesses, wrote>>

\* candidate_failed: the connection is gone, or the attempt's time is over.
\* Before the handoff the offer stays, after it the ceremony has failed.
candidate_failed(s) ==
    /\ ~Connected(s) \/ (s = Custodian /\ slot.active # Never /\ ~attempt_is_live)
    /\ \/ /\ At(s, "Handshake") /\ Ended(s, "Failed") /\ UNCHANGED slot
       \/ /\ At(s, "Cpace") /\ s = Custodian /\ custodian_attempt_failed
       \/ /\ At(s, "Cpace") /\ s # Custodian /\ Ended(s, "Offer") /\ UNCHANGED slot
    /\ UNCHANGED <<now, typed, link, vault, opened, guesses, wrote>>

\* cancel_pairing: the user, or a failed vault write, ends an unfinished ceremony
cancel_pairing(s) ==
    /\ bridge[s].phase \in {"Offer", "Cpace", "Handshake", "Confirmation", "Storage"}
    /\ Ended(s, "Failed")
    /\ UNCHANGED <<now, typed, slot, link, vault, opened, guesses, wrote>>

-----------------------------------------------------------------------------
(* The handshake: three messages, the requester writes the first and third *)

Writer(message) == IF message = 2 THEN {Custodian} ELSE Requesters

\* write_handshake_frame in turn
write_handshake_frame(s) ==
    /\ At(s, "Handshake") /\ Connected(s) /\ bridge[s].step < 3
    /\ s \in Writer(bridge[s].step + 1)
    /\ bridge' = [bridge EXCEPT ![s].step = @ + 1]
    /\ Send(s, Frame("noise", bridge[s].step + 1))
    /\ UNCHANGED <<now, typed, slot, vault, opened, guesses, wrote>>

\* read_handshake_frame of the next message
read_handshake_frame(s) ==
    /\ At(s, "Handshake") /\ NextIs(s, "noise")
    /\ Head(Inbox(s)).arg = bridge[s].step + 1
    /\ bridge' = [bridge EXCEPT ![s].step = @ + 1]
    /\ Take(s)
    /\ UNCHANGED <<now, typed, slot, vault, opened, guesses, wrote>>

enter_confirmation(s) ==
    /\ At(s, "Handshake") /\ bridge[s].step = 3
    /\ bridge' = [bridge EXCEPT ![s].phase = "Confirmation", ![s].deadline = now + ConfirmWindow]
    /\ UNCHANGED <<now, typed, slot, link, vault, opened, guesses, wrote>>

-----------------------------------------------------------------------------
(* Hello, confirmation, storage *)

send_hello(s) ==
    /\ At(s, "Confirmation") /\ Connected(s) /\ ~bridge[s].hello_sent
    /\ bridge' = [bridge EXCEPT ![s].hello_sent = TRUE]
    /\ Send(s, Frame("hello", None))
    /\ UNCHANGED <<now, typed, slot, vault, opened, guesses, wrote>>

receive_hello(s) ==
    /\ At(s, "Confirmation") /\ NextIs(s, "hello")
    /\ bridge' = [bridge EXCEPT ![s].peer_hello = TRUE]
    /\ Take(s)
    /\ UNCHANGED <<now, typed, slot, vault, opened, guesses, wrote>>

\* send_confirmation, after both hellos: the granted profiles must be the
\* peer's, where the peer's are known; a failed step ends the ceremony
send_confirmation(s, grants) ==
    /\ At(s, "Confirmation") /\ Connected(s) /\ bridge[s].hello_sent /\ bridge[s].peer_hello
    /\ bridge[s].local_grants = None
    /\ IF bridge[s].peer_grants \in {None, grants}
       THEN /\ bridge' = [bridge EXCEPT ![s].local_grants = grants]
            /\ Send(s, Frame("confirmation", grants))
       ELSE Ended(s, "Failed") /\ UNCHANGED link
    /\ UNCHANGED <<now, typed, slot, vault, opened, guesses, wrote>>

\* receive_confirmation: the peer's grants must be the local ones, where those
\* were given already
receive_confirmation(s) ==
    /\ At(s, "Confirmation") /\ NextIs(s, "confirmation")
    /\ IF bridge[s].local_grants \in {None, Head(Inbox(s)).arg}
       THEN bridge' = [bridge EXCEPT ![s].peer_grants = Head(Inbox(s)).arg]
       ELSE Ended(s, "Failed")
    /\ Take(s)
    /\ UNCHANGED <<now, typed, slot, vault, opened, guesses, wrote>>

\* build_pair_record, and the vault write the platform makes of the unconfirmed
\* record before it tells the peer; a failed write cancels
build_pair_record(s) ==
    /\ At(s, "Confirmation")
    /\ bridge[s].local_grants # None /\ bridge[s].peer_grants # None
    /\ \/ /\ bridge' = [bridge EXCEPT ![s].phase = "Storage"]
          /\ vault' = [vault EXCEPT ![s] = [pair |-> <<Wire(s), bridge[s].conn>>,
                                            grants |-> bridge[s].local_grants,
                                            state |-> "unconfirmed"]]
          /\ wrote' = [wrote EXCEPT ![s] = @ \cup {<<vault'[s].pair, vault'[s].grants>>}]
       \/ Ended(s, "Failed") /\ UNCHANGED <<vault, wrote>>
    /\ UNCHANGED <<now, typed, slot, link, opened, guesses>>

send_stored(s) ==
    /\ At(s, "Storage") /\ Connected(s) /\ ~bridge[s].stored_sent
    /\ bridge' = [bridge EXCEPT ![s].stored_sent = TRUE]
    /\ Send(s, Frame("stored", None))
    /\ UNCHANGED <<now, typed, slot, vault, opened, guesses, wrote>>

receive_stored(s) ==
    /\ At(s, "Storage") /\ NextIs(s, "stored")
    /\ bridge' = [bridge EXCEPT ![s].peer_stored = TRUE]
    /\ Take(s)
    /\ UNCHANGED <<now, typed, slot, vault, opened, guesses, wrote>>

\* Mutant: the local confirmation alone activates the pairing
is_confirmed_Alone(s) == bridge[s].stored_sent

\* PairingStorage::is_confirmed
is_confirmed(s) == bridge[s].stored_sent /\ bridge[s].peer_stored

\* activate_pairing of a confirmed storage, past the deadline too
activate_pairing(s) ==
    /\ bridge[s].phase = "Storage" /\ is_confirmed(s)
    /\ Ended(s, "Completed")
    /\ vault' = [vault EXCEPT ![s].state = "confirmed"]
    /\ UNCHANGED <<now, typed, slot, link, opened, guesses, wrote>>

\* The platform revokes the record of a ceremony that did not complete
revoke_unconfirmed(s) ==
    /\ bridge[s].phase \in {"Expired", "Failed"} /\ vault[s].state = "unconfirmed"
    /\ vault' = [vault EXCEPT ![s].state = "revoked"]
    /\ UNCHANGED <<now, typed, bridge, slot, link, opened, guesses, wrote>>

-----------------------------------------------------------------------------
(* The transport and the clock *)

\* A connection is lost, or closed by a side that is done with it, with the
\* frames still on it
link_lost(r) ==
    /\ link[r].up
    /\ HangUp(r)
    /\ UNCHANGED <<now, typed, bridge, slot, vault, opened, guesses, wrote>>

Tick ==
    /\ now < MaxTime
    /\ now' = now + 1
    /\ UNCHANGED <<typed, bridge, slot, link, vault, opened, guesses, wrote>>

-----------------------------------------------------------------------------
Init ==
    /\ now = 1
    /\ \E right \in RightCodes : typed = [r \in Requesters |-> r \in right]
    /\ bridge = [s \in Sides |-> IF s = Custodian THEN NewBridge("Offer", 1 + OfferTtl)
                                 ELSE NewBridge("none", 0)]
    /\ slot = [consumed |-> FALSE, active |-> Never, last |-> Never]
    /\ link = [r \in Requesters |-> Down]
    /\ vault = [s \in Sides |-> NoRecord]
    /\ opened = 0
    /\ guesses = 0
    /\ wrote = [s \in Sides |-> {}]

RequesterStep(r) ==
    \/ bootstrap_bytes(r) \/ from_bootstrap(r) \/ begin_cpace(r)
    \/ read_step2(r) \/ write_step3(r) \/ link_lost(r)

SideStep(s) ==
    \/ require_live_offer(s) \/ candidate_failed(s) \/ cancel_pairing(s)
    \/ write_handshake_frame(s) \/ read_handshake_frame(s) \/ enter_confirmation(s)
    \/ send_hello(s) \/ receive_hello(s)
    \/ (\E grants \in Grants : send_confirmation(s, grants))
    \/ receive_confirmation(s) \/ build_pair_record(s)
    \/ send_stored(s) \/ receive_stored(s) \/ activate_pairing(s) \/ revoke_unconfirmed(s)

Next ==
    \/ \E r \in Requesters : RequesterStep(r)
    \/ \E s \in Sides : SideStep(s)
    \/ read_step1 \/ write_step2 \/ read_step3
    \/ Tick

Spec == Init /\ [][Next]_vars

-----------------------------------------------------------------------------
(* Properties *)

\* The rate limit of begin_cpace bounds the codes that can be tested: at any
\* time the custodian has answered no more guesses than one per spacing since
\* the offer began, whichever connections they came on and however they ended.
GuessesSpaced == guesses <= (now - 1) \div Spacing + 1

\* A side holds a confirmed record only of a ceremony whose peer stored a record
\* of the same pairing with the same grants, and only with a requester that
\* typed the custodian's code.
ConfirmedTogether ==
    \A s \in Sides : vault[s].state = "confirmed" =>
        LET r == vault[s].pair[1]
            other == IF s = Custodian THEN r ELSE Custodian
        IN typed[r] /\ <<vault[s].pair, vault[s].grants>> \in wrote[other]
=============================================================================
