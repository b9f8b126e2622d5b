----------------------------- MODULE RappPeering -----------------------------
(***************************************************************************)
(* What leads to a RAPP session and what it leaves: the search for a       *)
(* custodian (RappCandidates), the pair record (RappPairRecord) and the    *)
(* session itself (RappSession).  They run in different objects that share *)
(* nothing but the record's state, which RappSession and RappPairRecord    *)
(* each hold, so a behaviour is that of one of them: part says of which.   *)
(***************************************************************************)
EXTENDS RappPairRecord, Sequences, FiniteSets

CONSTANTS
    Endpoints, Offers, OfferOf, CandidatesMax, RetryAfter, MaxSearchTime,
    PlatformReasons, MaxFrames

VARIABLES
    part,                              \* the object this behaviour is of
    candidates, openings, tried, busy_answered, phase, search_clock, report, guesses,
    side, records, wire, link, users

search == <<candidates, openings, tried, busy_answered, phase, search_clock, report, guesses>>
session == <<side, records, wire, link, users>>
peering == <<part, vars, search, session>>

C == INSTANCE RappCandidates WITH clock <- search_clock, MaxTime <- MaxSearchTime
S == INSTANCE RappSession WITH record <- records

ASSUME PartsAssumption == C!CandidatesAssumption /\ S!SessionAssumption

Off == "off"
SearchOff ==
    /\ candidates = Off /\ openings = Off /\ tried = Off /\ busy_answered = Off
    /\ phase = Off /\ search_clock = Off /\ report = Off /\ guesses = Off
SessionOff == side = Off /\ records = Off /\ wire = Off /\ link = Off /\ users = Off

PeeringInit ==
    \/ part = "search" /\ C!Init /\ SessionOff /\ Init /\ role = "Requester"
    \/ part = "record" /\ Init /\ SearchOff /\ SessionOff
    \/ part = "session" /\ S!Init /\ SearchOff /\ Init /\ role = "Requester"

SearchNext == part = "search" /\ C!Next /\ UNCHANGED <<part, vars, session>>
RecordNext == part = "record" /\ Next /\ UNCHANGED <<part, search, session>>
SessionNext == part = "session" /\ S!Next /\ UNCHANGED <<part, vars, search>>

PeeringNext == SearchNext \/ RecordNext \/ SessionNext

(***************************************************************************)
(* The search: the platform asks for the next endpoint, every connection   *)
(* ends within its deadlines, and time passes.                             *)
(*                                                                         *)
(* The record: the endpoint starts again after a crash; at each start and  *)
(* once a day it sweeps every pairing, and a custodian destroys one whose  *)
(* notice expired; the vault does not fail for ever, and time passes.      *)
(*                                                                         *)
(* The session: both platforms feed what arrives to the bridge and poll    *)
(* it; the wait for an echo is bounded, and a side whose peer or link is   *)
(* gone sees the transport close or the silence limit.  Nothing is assumed *)
(* of the users, of what the platform sends or when it closes a session.   *)
(***************************************************************************)
SearchFairness ==
    /\ WF_search(part = "search" /\ C!next_endpoint)
    /\ WF_search(part = "search" /\ C!ConnectionEnds)
    /\ WF_search(part = "search" /\ C!Tick)

RecordFairness ==
    /\ WF_vars(part = "record" /\ load_from_vault)
    /\ SF_vars(part = "record" /\ sweep /\ vault' = Tombstone)
    /\ SF_vars(part = "record" /\ revoke_expired)
    /\ WF_vars(part = "record" /\ Tick)

SessionFairness ==
    \A s \in S!Sides :
        /\ WF_session(part = "session" /\ S!receive_checked(s))
        /\ WF_session(part = "session" /\ S!receive_served(s))
        /\ WF_session(part = "session" /\ S!receive_while_closing(s))
        /\ WF_session(part = "session" /\ S!poll_inactive(s))
        /\ WF_session(part = "session" /\ S!phase(s) = "Closing" /\ S!close_session(s))
        /\ WF_session(part = "session" /\ S!Unreachable(s) /\ S!close_session(s))

PeeringSafety == PeeringInit /\ [][PeeringNext]_peering

PeeringSpec == PeeringSafety /\ SearchFairness /\ RecordFairness /\ SessionFairness

-----------------------------------------------------------------------------
\* Each custodian gets at most one guess of the code, whatever busy answers
\* give a try back and however many endpoints reach it (begin_try, busy).
OneGuessPerCustodian == part = "search" => C!OneGuessPerCustodian

\* The search comes to an end: the code is accepted, or the report comes when
\* no endpoint found is left to open, one that asked for a wait included, or
\* when every connection was used (after_connection, next_endpoint).
SearchEnds == [](part = "search" /\ C!Begun => <>(part = "search" /\ C!Over))

\* CloseAcknowledged is evidence that the peer's side of the session is over:
\* it sealed its own close and serves nothing more (receive_while_closing).
EchoIsEvidence == part = "session" => S!EchoIsEvidence

\* A forgotten or revoked pairing serves nothing from then on: neither a call
\* nor a frame already in the hands of another thread (serve_while_active).
ForgottenServesNothing == [][part = "session" => S!ServesWhileActive]_peering

\* Forgetting a pairing ends its session on both sides even if nothing is
\* sent or received: the liveness poll finds the record inactive.
ForgetEndsSession ==
    \A s \in S!Sides : (part = "session" /\ S!ServesForgotten(s)) ~> (part = "session" /\ S!BothClosed)

==============================================================================
