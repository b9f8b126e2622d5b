----------------------------- MODULE RappSession -----------------------------
(***************************************************************************)
(* One RAPP session between a requester and a custodian, from the end of   *)
(* its Noise handshake to its close on both sides: RappSessionBridge up to *)
(* the established session, then RappOperationBridge over                  *)
(* EstablishedSessionRuntime and EstablishedEndpoint.  Operations are one  *)
(* kind of data frame here; RappOperation has their detail.                *)
(*                                                                         *)
(* The bridges are shared objects with a lock, called from several threads *)
(* of the platform.  receive_frame takes that lock twice, so its two       *)
(* halves are two actions.                                                 *)
(***************************************************************************)
EXTENDS Naturals, Sequences

CONSTANTS
    PlatformReasons,  \* reasons the platform passes to close_with_reason
    MaxFrames         \* bound of the data and ping frames a side seals

Sides == {"Requester", "Proxy"}
Peer(s) == IF s = "Requester" THEN "Proxy" ELSE "Requester"

\* CloseReason, and its absence; "normal" stands for the five reasons a
\* requester takes for a loss, "service_withdrawn" also for card_unavailable.
Reasons == {"pairing_revoked", "service_withdrawn", "protocol_violation",
            "normal"}
NoReason == "none"

SessionAssumption ==
    PlatformReasons \subseteq Reasons /\ MaxFrames \in Nat

\* Authenticating and Ready are SessionBridgeState::Authentication before and
\* after this side's session.ready or session.hello; Serving is
\* OperationBridgeState::Requester or Proxy; Closing is a close that waits
\* for its echo, in either bridge.
Phases == {"Authenticating", "Ready", "Serving", "Closing", "Closed"}

Types == {"ready", "hello", "data", "ping", "pong", "close"}

\* A sealed message: the nonce of the direction's cipher state, its type, and
\* the reason of a close.
Frames == [n : Nat, type : Types, reason : Reasons \cup {NoReason}]

\* One endpoint: close_sent; awaiting_session_hello; the nonces of the frames
\* it seals and opens next; whether a receive_frame call is between its two
\* halves; the reason of the close it received; whether it was given
\* CloseAcknowledged.  Histories: whether it sealed a close, how many data
\* messages it served, whether it met a message its phase excludes.
EstablishedEndpoint == [phase : Phases, closeSent : Reasons \cup {NoReason},
              awaiting : BOOLEAN, sendN : Nat, recvN : Nat,
              checked : BOOLEAN, told : Reasons \cup {NoReason},
              acked : BOOLEAN,
              closed : BOOLEAN, served : Nat]

VARIABLES
    side,    \* [Sides -> EstablishedEndpoint]
    record,  \* the pair record in memory: active, forgotten or revoked
    wire,    \* [Sides -> frames in flight to that side]
    link,    \* the transport carries frames
    users    \* history: sides whose user ended the pairing

vars == <<side, record, wire, link, users>>

phase(s) == side[s].phase

-----------------------------------------------------------------------------
(***************************************************************************)
(* Frames.  A step of side s leaves the queue mine to it and seals at most *)
(* one frame for its peer, which is lost once the link or the peer is gone.*)
(***************************************************************************)
Wire(s, mine, out) ==
    wire' = [wire EXCEPT ![s] = mine,
                         ![Peer(s)] = IF link /\ phase(Peer(s)) # "Closed"
                                      THEN @ \o out ELSE @]

Quiet(s, mine) == Wire(s, mine, <<>>)

\* seal: the frame takes the next nonce of the direction.
Seal(s, mine, type, reason) ==
    Wire(s, mine, <<[n |-> side[s].sendN, type |-> type, reason |-> reason]>>)

\* An endpoint that sealed a frame.
Sealed(e) == [e EXCEPT !.sendN = @ + 1]

\* An endpoint that opened one.
Opened(e) == [e EXCEPT !.recvN = @ + 1]

\* Without its channel the endpoint is Closed.
Shut(e) == [e EXCEPT !.phase = "Closed", !.checked = FALSE]

\* EstablishedEndpoint.send of a close, and its likes: close_sent is set and
\* the endpoint waits for the echo.
CloseSealed(e, reason) ==
    [Sealed(e) EXCEPT !.phase = "Closing", !.closeSent = reason,
                      !.closed = TRUE]

\* answer_close: the echo is sealed and the channel dropped; close_sent stays.
Answered(e, reason) ==
    Shut([Sealed(e) EXCEPT !.closed = TRUE, !.told = reason])

\* channel.open: the cipher state opens exactly the frame of its next nonce.
opens(e, frame) == frame.n = e.recvN

Update(s, e) == side' = [side EXCEPT ![s] = e]
Platform == UNCHANGED <<record, link, users>>

-----------------------------------------------------------------------------
(***************************************************************************)
(* Before the established session: RappSessionBridge.                      *)
(***************************************************************************)
\* send_ready of the custodian, refused for a forgotten or revoked record.
send_ready ==
    /\ phase("Proxy") = "Authenticating"
    /\ record["Proxy"] = "active"
    /\ Seal("Proxy", wire["Proxy"], "ready", NoReason)
    /\ Update("Proxy", [Sealed(side["Proxy"]) EXCEPT !.phase = "Ready"])
    /\ Platform

\* receive_ready of the requester: a ready is answered with session.hello, a
\* close with its echo; any other message is a violation.
receive_ready ==
    LET e == side["Requester"]
    IN  /\ e.phase = "Authenticating"
        /\ wire["Requester"] # <<>>
        /\ LET frame == Head(wire["Requester"])
               rest == Tail(wire["Requester"])
           IN  \/ /\ ~opens(e, frame)
                  /\ Update("Requester", Shut(e))
                  /\ Quiet("Requester", <<>>)
               \/ /\ opens(e, frame) /\ frame.type = "ready"
                  /\ Update("Requester",
                            [Sealed(Opened(e)) EXCEPT !.phase = "Ready"])
                  /\ Seal("Requester", rest, "hello", NoReason)
               \/ /\ opens(e, frame) /\ frame.type = "close"
                  /\ Update("Requester", Answered(Opened(e), frame.reason))
                  /\ Seal("Requester", <<>>, "close", frame.reason)
               \/ /\ opens(e, frame) /\ frame.type \notin {"ready", "close"}
                  /\ Update("Requester",
                            CloseSealed(Opened(e), "protocol_violation"))
                  /\ Seal("Requester", rest, "close", "protocol_violation")
        /\ Platform

\* enter_established, then the operation bridge takes the session over.
enter_established(s) ==
    /\ phase(s) = "Ready"
    /\ record[s] = "active"
    /\ Update(s, [side[s] EXCEPT !.phase = "Serving",
                                 !.awaiting = (s = "Proxy")])
    /\ Quiet(s, wire[s])
    /\ Platform

\* deliver_revocation_notice: in place of session.ready, which a custodian
\* that sent it can no longer do, or of session.hello or right after it.
deliver_revocation_notice(s) ==
    /\ phase(s) = "Authenticating" \/ (s = "Requester" /\ phase(s) = "Ready")
    /\ record[s] = "forgotten"
    /\ Update(s, CloseSealed(side[s], "pairing_revoked"))
    /\ Seal(s, wire[s], "close", "pairing_revoked")
    /\ Platform

-----------------------------------------------------------------------------
(***************************************************************************)
(* The established session: RappOperationBridge.                           *)
(***************************************************************************)
\* close_with_reason: a session that serves sends its close and waits.
close_with_reason(s, reason) ==
    /\ phase(s) = "Serving"
    /\ Update(s, CloseSealed(side[s], reason))
    /\ Seal(s, wire[s], "close", reason)

\* The platform closes the session; with pairing_revoked its user ends the
\* pairing.
platform_closes(s, reason) ==
    /\ close_with_reason(s, reason)
    /\ users' = IF reason = "pairing_revoked" THEN users \cup {s} ELSE users
    /\ UNCHANGED <<record, link>>

\* A call that serves the session with a message: a request, a card status, a
\* progress or a result.  serving: on a record that is not active the close
\* takes its place.
serve(s) ==
    /\ \/ /\ record[s] = "active"
          /\ phase(s) = "Serving" /\ side[s].sendN < MaxFrames
          /\ Update(s, [Sealed(side[s]) EXCEPT !.served = @ + 1])
          /\ Seal(s, wire[s], "data", NoReason)
       \/ /\ record[s] # "active"
          /\ close_with_reason(s, "pairing_revoked")
    /\ Platform

\* poll_liveness while serving: nothing, a ping, or the end of a session whose
\* peer was silent for the limit; the clock is not modelled here, so each may
\* be due.  A record that is not active closes the session instead.
poll_ping(s) ==
    /\ phase(s) = "Serving" /\ record[s] = "active"
    /\ side[s].sendN < MaxFrames
    /\ Update(s, Sealed(side[s]))
    /\ Seal(s, wire[s], "ping", NoReason)
    /\ Platform

poll_silence(s) ==
    /\ phase(s) = "Serving" /\ record[s] = "active"
    /\ Update(s, Shut(side[s]))
    /\ Quiet(s, <<>>)
    /\ Platform

\* Mutation: the poll does not consult the record.
poll_inactive_Skipped(s) == FALSE

poll_inactive(s) ==
    /\ record[s] # "active"
    /\ close_with_reason(s, "pairing_revoked")
    /\ Platform

\* admits: the phase of the session admits the message.
admits(e, frame) ==
    \/ frame.type = "hello" /\ e.awaiting
    \/ frame.type = "close" /\ frame.reason = "pairing_revoked"
    \/ frame.type \in {"data", "ping", "pong", "close"} /\ ~e.awaiting

\* The session closes on a violation: the notice goes out as a close.
close_for_violation(s, e, rest) ==
    /\ Update(s, CloseSealed(e, "protocol_violation"))
    /\ Seal(s, rest, "close", "protocol_violation")

\* EstablishedSessionRuntime.receive of a frame by a session that serves, and
\* what the bridge does with its outcome; rest is the queue behind the frame.
\* The operation engine may find a violation in authenticated data.
receive_runtime(s, e, frame, rest) ==
    LET opened == Opened(e)
    IN  \/ /\ ~opens(e, frame)
           /\ Update(s, Shut(e))
           /\ Quiet(s, <<>>)
        \/ /\ opens(e, frame) /\ ~admits(e, frame)
           /\ close_for_violation(s, opened, rest)
        \/ /\ opens(e, frame) /\ admits(e, frame)
           /\ \/ /\ frame.type = "close"
                 /\ Update(s, Answered(opened, frame.reason))
                 /\ Seal(s, <<>>, "close", frame.reason)
              \/ /\ frame.type = "hello"
                 /\ Update(s, [opened EXCEPT !.awaiting = FALSE])
                 /\ Quiet(s, rest)
              \/ /\ frame.type = "ping"
                 /\ Update(s, Sealed(opened))
                 /\ Seal(s, rest, "pong", NoReason)
              \/ /\ frame.type = "pong"
                 /\ Update(s, opened)
                 /\ Quiet(s, rest)
              \/ /\ frame.type = "data"
                 /\ \/ /\ Update(s, [opened EXCEPT !.served = @ + 1])
                       /\ Quiet(s, rest)
                    \/ close_for_violation(s, opened, rest)

\* First half of receive_frame: the session does not wait for an echo.
receive_checked(s) ==
    /\ phase(s) = "Serving" /\ ~side[s].checked
    /\ wire[s] # <<>>
    /\ Update(s, [side[s] EXCEPT !.checked = TRUE])
    /\ UNCHANGED wire
    /\ Platform

\* Mutation: the record is not consulted.
serves_Always(s) == TRUE

\* serve_while_active: the record is active, and held so while the call runs.
serves(s) == record[s] = "active"

\* Second half: the record decides whether the frame is served.  The frame of
\* a record that is not active, and of a session that began to close between
\* the halves, is dropped unopened.
receive_served(s) ==
    LET e == [side[s] EXCEPT !.checked = FALSE]
        frame == Head(wire[s])
        rest == Tail(wire[s])
    IN  /\ side[s].checked
        /\ \/ /\ phase(s) = "Closing"
              /\ Update(s, e)
              /\ Quiet(s, rest)
           \/ /\ phase(s) = "Serving" /\ ~serves(s)
              /\ Update(s, CloseSealed(e, "pairing_revoked"))
              /\ Seal(s, rest, "close", "pairing_revoked")
           \/ /\ phase(s) = "Serving" /\ serves(s)
              /\ receive_runtime(s, e, frame, rest)
        /\ Platform

-----------------------------------------------------------------------------
(***************************************************************************)
(* The end of the session, in either bridge.                               *)
(***************************************************************************)
\* Mutation: any message acknowledges the close.
acknowledges_AnyFrame(frame) == TRUE

\* Only a close is the echo, or a close that crossed this one.
acknowledges(frame) == frame.type = "close"

\* The close that arrived ends the session unanswered.
Acknowledged(s, e, reason) ==
    /\ Update(s, Shut([Opened(e) EXCEPT !.told = reason, !.acked = TRUE]))
    /\ Quiet(s, <<>>)

\* receive_while_closing and receive_close_echo.
receive_while_closing(s) ==
    /\ phase(s) = "Closing" /\ ~side[s].checked
    /\ wire[s] # <<>>
    /\ LET e == side[s]
           frame == Head(wire[s])
       IN  \/ /\ ~opens(e, frame)
              /\ Update(s, Shut(e))
              /\ Quiet(s, <<>>)
           \/ /\ opens(e, frame) /\ acknowledges(frame)
              /\ Acknowledged(s, e, frame.reason)
           \/ /\ opens(e, frame) /\ ~acknowledges(frame)
              /\ Update(s, Opened(e))
              /\ Quiet(s, Tail(wire[s]))
    /\ Platform

\* close_session: the wait for the echo ended, the transport closed, or the
\* platform gave the session up; nothing is sent.
close_session(s) ==
    /\ phase(s) # "Closed"
    /\ Update(s, Shut(side[s]))
    /\ Quiet(s, <<>>)
    /\ Platform

\* The transport fails and loses what is in flight; a frame a call already
\* holds stays with it.
transport_lost ==
    /\ link
    /\ link' = FALSE
    /\ wire' = [s \in Sides |-> IF side[s].checked THEN <<Head(wire[s])>>
                                ELSE <<>>]
    /\ UNCHANGED <<side, record, users>>

-----------------------------------------------------------------------------
(***************************************************************************)
(* The pair record.                                                        *)
(***************************************************************************)
\* forget: the user of this side ends the pairing.
forget(s) ==
    /\ record[s] = "active"
    /\ record' = [record EXCEPT ![s] = "forgotten"]
    /\ users' = users \cup {s}
    /\ UNCHANGED <<side, wire, link>>

\* RequesterSessionEnd::of_received_close.
of_received_close(reason) ==
    CASE reason = "pairing_revoked" -> "Revoked"
      [] reason = "service_withdrawn" -> "Withdrawn"
      [] reason = "protocol_violation" -> "Violation"
      [] OTHER -> "Loss"

\* The platform revokes the record of a closed session whose close it received
\* or sent was pairing_revoked, and destroys its keys.
revoke(s) ==
    /\ phase(s) = "Closed" /\ record[s] # "revoked"
    /\ \/ of_received_close(side[s].told) = "Revoked"
       \/ side[s].closeSent = "pairing_revoked"
    /\ record' = [record EXCEPT ![s] = "revoked"]
    /\ UNCHANGED <<side, wire, link, users>>

-----------------------------------------------------------------------------
Init ==
    /\ side = [s \in Sides |->
                 [phase |-> "Authenticating", closeSent |-> NoReason,
                  awaiting |-> FALSE, sendN |-> 0, recvN |-> 0,
                  checked |-> FALSE, told |-> NoReason, acked |-> FALSE,
                  closed |-> FALSE, served |-> 0]]
    /\ record = [s \in Sides |-> "active"]
    /\ wire = [s \in Sides |-> <<>>]
    /\ link = TRUE
    /\ users = {}

Step(s) ==
    \/ enter_established(s)
    \/ deliver_revocation_notice(s)
    \/ \E reason \in PlatformReasons : platform_closes(s, reason)
    \/ serve(s)
    \/ poll_ping(s)
    \/ poll_silence(s)
    \/ poll_inactive(s)
    \/ receive_checked(s)
    \/ receive_served(s)
    \/ receive_while_closing(s)
    \/ close_session(s)
    \/ forget(s)
    \/ revoke(s)

Next ==
    \/ send_ready
    \/ receive_ready
    \/ \E s \in Sides : Step(s)
    \/ transport_lost

Spec == Init /\ [][Next]_vars

\* The peer or the link is gone.
Unreachable(s) == phase(Peer(s)) = "Closed" \/ ~link

-----------------------------------------------------------------------------
\* Every variable has its type, and a call holds a frame between its halves.
TypeOK ==
    /\ side \in [Sides -> EstablishedEndpoint]
    /\ record \in [Sides -> {"active", "forgotten", "revoked"}]
    /\ wire \in [Sides -> Seq(Frames)]
    /\ link \in BOOLEAN
    /\ users \subseteq Sides
    /\ \A s \in Sides : side[s].checked => wire[s] # <<>>

\* CloseAcknowledged is evidence that the peer's side of the session is over:
\* it sealed its own close and serves nothing more (receive_while_closing).
EchoIsEvidence ==
    \A s \in Sides : side[s].acked =>
        side[Peer(s)].closed /\ phase(Peer(s)) \in {"Closing", "Closed"}

\* A forgotten or revoked pairing serves nothing from then on: neither a call
\* nor a frame already in the hands of another thread (serve_while_active).
ServesWhileActive ==
    \A s \in Sides : record[s] # "active" => side'[s].served = side[s].served

\* A close that reaches an endpoint waiting for the echo of its own ends the
\* wait: the sender "ignores every message but a `session.close`, and closes
\* the transport once the echo arrives" (doc/protocols/rapp-v26.11.2.md,
\* section 7.1 item 7).
CloseEndsTheWait ==
    [][\A s \in Sides :
          (receive_while_closing(s) /\ Head(wire[s]).type = "close")
              => side'[s].acked]_vars

\* A side serves a pairing its user forgot, and the session is over.
ServesForgotten(s) == record[s] # "active" /\ phase(s) = "Serving"
BothClosed == \A t \in Sides : phase(t) = "Closed"
==============================================================================
