---------------------------- MODULE RappOperation ----------------------------
(***************************************************************************)
(* The operations of one established RAPP session.  The requester's        *)
(* RequesterOperationEngine and the custodian's ProxyOperationEngine, with *)
(* the AuthorizationTransaction it holds, exchange typed messages over the *)
(* session's secure channel, which keeps each direction in order and       *)
(* neither loses nor repeats a frame while the session lives; the end of a *)
(* side loses what is in flight to it.  An engine serves one session, so   *)
(* the model runs one session from its start to its end.                   *)
(*                                                                         *)
(* The custodian's continuous clock only ever meets the deadline of the    *)
(* live operation, so the model keeps the time elapsed since its receipt.  *)
(***************************************************************************)
EXTENDS Naturals, Sequences, FiniteSets

CONSTANTS
    Ids,          \* operation identifiers the requester draws from
    Lifetimes,    \* values of expires_after_ms a request carries
    MaxLifetime,  \* maximum_lifetime_ms of the custodian's bridge
    MaxSeen,      \* MAX_SEEN_OPERATION_IDS
    BatchTotal,   \* documents of a batch request
    Granted,      \* kinds whose profile the pairing granted
    MaxQueue,     \* bound of the frames in flight in one direction
    None          \* no live operation

Kinds == {"read", "sign", "batch", "unsupported"}
Stages == {"Requested", "AwaitingConsent", "ExecutingSafeRead", "Executing",
           "Terminal"}

ASSUME ConstantsAssumption ==
    /\ Lifetimes \subseteq Nat \ {0}
    /\ MaxLifetime \in Nat \ {0}
    /\ MaxSeen \in Nat
    /\ MaxQueue \in Nat
    /\ BatchTotal \in Nat \ {0}
    /\ IsFiniteSet(Ids)
    /\ Granted \subseteq Kinds

\* OperationRequest as it travels; its kind stands for the closed operation
\* body, "unsupported" for one the custodian's decoder refuses.
Requests == [id : Ids, kind : Kinds, life : Lifetimes]

\* AuthorizationTransaction: the admitted request, the time elapsed since its
\* receipt, its stage and how many batch signatures it recorded.
Transactions == [id : Ids, kind : Kinds, life : Lifetimes,
                 elapsed : 0..(MaxLifetime + 1), stage : Stages, sigs : Nat]

ASSUME NoneAssumption ==
    None \notin Transactions /\ None \notin Requests

\* How an operation is answered: completed, or the ResultError it carries.
\* "rejected" stands for unsupported_parameter, user_cancelled, retry_floor,
\* card_error and operation_failed, which the engines treat alike.
Refusals == {"busy", "duplicate_operation", "unauthorized"}
Statuses == {"completed", "operation_expired", "rejected"} \cup Refusals

\* What the custodian sends: operation.result, error and operation.progress.
\* The kind and the signature count are those of a completed response.
Answers == [type : {"result", "error", "progress"}, id : Ids,
            status : Statuses, kind : Kinds, sigs : Nat]

\* UserApproval: the operation it names and when the holder gave it.
Approvals == [id : Ids, at : 0..(MaxLifetime + 1)]

Violations == {"none", "OperationMemoryExhausted", "InvalidResult"}

VARIABLES
    rOpen,       \* the requester's side of the session is open
    rLive,       \* RequesterOperationEngine.live
    rUsed,       \* RequesterOperationEngine.used
    pOpen,       \* the custodian's side of the session is open
    pLive,       \* ProxyOperationEngine.live
    pSeen,       \* ProxyOperationEngine.seen
    approvals,   \* approvals the holder gave and the bridge has not applied
    toProxy,     \* frames in flight to the custodian
    toRequester, \* frames in flight to the requester
    violation,   \* the authenticated protocol violation that ended a side
    asked,       \* history: identifiers the session's requests carried
    commands,    \* history: [Ids -> times the card was commanded for it]
    consents,    \* history: operations whose approval was applied
    signatures,  \* history: [Ids -> batch signatures the card made for it]
    answered,    \* history: [Ids -> results and errors sent for it]
    outcomes     \* history: what the requester was told of each operation

rVars == <<rOpen, rLive, rUsed>>
pVars == <<pOpen, pLive, pSeen>>
card == <<commands, consents, signatures>>
vars == <<rVars, pVars, approvals, toProxy, toRequester, violation, asked,
          card, answered, outcomes>>

(***************************************************************************)
(* The operators the engines are built from.                               *)
(***************************************************************************)
is_consequential(kind) == kind \in {"sign", "batch"}

is_terminal(op) == op.stage = "Terminal"

\* local_deadline_ms, counted from the receipt.
deadline(op) == IF op.life <= MaxLifetime THEN op.life ELSE MaxLifetime

is_expired(op) == op.elapsed > deadline(op)

prepare(req) == [id |-> req.id, kind |-> req.kind, life |-> req.life,
                 elapsed |-> 0, stage |-> "Requested", sigs |-> 0]

Answer(type, id, status, kind, sigs) ==
    [type |-> type, id |-> id, status |-> status, kind |-> kind,
     sigs |-> sigs]

\* A result or error leaves for the requester.
Reply(type, id, status, kind, sigs) ==
    /\ Len(toRequester) < MaxQueue
    /\ toRequester' = Append(toRequester, Answer(type, id, status, kind, sigs))
    /\ answered' = [answered EXCEPT ![id] = @ + 1]

\* A result that carries no response.
Refuse(type, id, status) == Reply(type, id, status, "unsupported", 0)

\* live_mut: the custodian's live operation is this one.
live_mut(id) == pOpen /\ pLive # None /\ pLive.id = id

\* validate_for: a completed response answers the operation requested.
validate_for(kind, sigs, op) ==
    kind = op.kind /\ (kind = "batch" => sigs = BatchTotal)

NoReply == UNCHANGED <<toRequester, answered>>
Requester == UNCHANGED <<rVars, outcomes, asked>>

-----------------------------------------------------------------------------
(***************************************************************************)
(* Requester: RequesterOperationEngine.                                    *)
(***************************************************************************)
\* begin: one live operation, every identifier used once.
begin(req) ==
    /\ rOpen
    /\ rLive = None
    /\ req.id \notin rUsed
    /\ Len(toProxy) < MaxQueue
    /\ rUsed' = rUsed \cup {req.id}
    /\ rLive' = req
    /\ toProxy' = IF pOpen THEN Append(toProxy, req) ELSE toProxy
    /\ asked' = asked \cup {req.id}
    /\ UNCHANGED <<rOpen, pVars, approvals, violation, outcomes, card>>
    /\ NoReply

\* cancel: stop waiting; nothing travels.
cancel ==
    /\ rLive # None
    /\ rLive' = None
    /\ UNCHANGED <<rOpen, rUsed, pVars, approvals, toProxy, violation, asked,
                   outcomes, card>>
    /\ NoReply

\* receive and receive_error: the answer ends the operation waited for.
answers_live(m) ==
    rLive # None /\ rLive.id = m.id /\ m.type # "progress"

\* A completed result has a response that answers the request.
valid_result(m) ==
    m.status = "completed" => validate_for(m.kind, m.sigs, rLive)

\* The requester's engine forgets the session's operations.
EndRequester ==
    /\ rOpen' = FALSE
    /\ rLive' = None
    /\ rUsed' = {}
    /\ toRequester' = <<>>

\* An answer that does not name the live operation, and any progress, changes
\* nothing; one that does ends it; a completed result that does not answer the
\* request is a violation that closes the session.
requester_receive ==
    /\ rOpen
    /\ toRequester # <<>>
    /\ LET m == Head(toRequester)
       IN  \/ /\ ~answers_live(m)
              /\ toRequester' = Tail(toRequester)
              /\ UNCHANGED <<rVars, outcomes, violation>>
           \/ /\ answers_live(m) /\ valid_result(m)
              /\ toRequester' = Tail(toRequester)
              /\ rLive' = None
              /\ outcomes' = outcomes \cup {[id |-> m.id, kind |-> rLive.kind,
                                             status |-> m.status]}
              /\ UNCHANGED <<rOpen, rUsed, violation>>
           \/ /\ answers_live(m) /\ ~valid_result(m)
              /\ EndRequester
              /\ violation' = "InvalidResult"
              /\ UNCHANGED outcomes
    /\ UNCHANGED <<pVars, approvals, toProxy, asked, card, answered>>

\* session_closed, when the requester's side of the session ends.
requester_session_closed ==
    /\ rOpen
    /\ EndRequester
    /\ UNCHANGED <<pVars, approvals, toProxy, violation, asked, card, answered,
                   outcomes>>

-----------------------------------------------------------------------------
(***************************************************************************)
(* Custodian: ProxyOperationEngine as RappOperationBridge drives it.       *)
(***************************************************************************)
\* Mutation: a request that arrives while one is live is admitted in its
\* place instead of being refused as busy.
admission_refusal_IgnoresLive(id) ==
    IF id \in pSeen THEN "duplicate_operation"
    ELSE IF Cardinality(pSeen) >= MaxSeen THEN "OperationMemoryExhausted"
    ELSE "admitted"

\* admission_refusal: the seen check precedes the memory bound, and a busy
\* refusal already counts the identifier as seen.
admission_refusal(id) ==
    IF id \in pSeen THEN "duplicate_operation"
    ELSE IF Cardinality(pSeen) >= MaxSeen THEN "OperationMemoryExhausted"
    ELSE IF pLive # None /\ ~is_terminal(pLive) THEN "busy"
    ELSE "admitted"

\* The custodian's side ends: session_closed clears the memory and takes the
\* live operation; a card command in progress runs on and is never answered.
EndProxy ==
    /\ pOpen' = FALSE
    /\ pLive' = None
    /\ pSeen' = {}
    /\ toProxy' = <<>>

\* receive, receive_request and the refusal of an undecodable request.
proxy_receive ==
    /\ pOpen
    /\ toProxy # <<>>
    /\ LET req == Head(toProxy)
           refusal == admission_refusal(req.id)
       IN  \/ /\ refusal = "OperationMemoryExhausted"
              /\ violation' = refusal
              /\ EndProxy
              /\ NoReply
           \/ /\ refusal # "OperationMemoryExhausted"
              /\ pSeen' = pSeen \cup {req.id}
              /\ toProxy' = Tail(toProxy)
              /\ \/ /\ refusal # "admitted"
                    /\ pLive' = pLive
                    /\ Refuse("error", req.id, refusal)
                 \/ /\ refusal = "admitted"
                    /\ req.kind = "unsupported"
                    /\ pLive' = pLive
                    /\ Refuse("result", req.id, "rejected")
                 \/ /\ refusal = "admitted"
                    /\ req.kind \notin Granted \cup {"unsupported"}
                    /\ pLive' = pLive
                    /\ Refuse("result", req.id, "unauthorized")
                 \/ /\ refusal = "admitted"
                    /\ req.kind \in Granted \ {"unsupported"}
                    /\ pLive' = prepare(req)
                    /\ NoReply
              /\ UNCHANGED <<pOpen, violation>>
    /\ UNCHANGED <<approvals, card>>
    /\ Requester

\* The engine's finish_failure with an error; the result leaves at once.
Finish(id, status) ==
    /\ pLive' = [pLive EXCEPT !.stage = "Terminal"]
    /\ Refuse("result", id, status)

\* prerequisites_complete: an expired operation is cancelled, a consequential
\* one goes to consent, a read is handed to the card.
prerequisites_complete(id) ==
    /\ live_mut(id)
    /\ pLive.stage = "Requested"
    /\ \/ /\ is_expired(pLive)
          /\ Finish(id, "operation_expired")
          /\ UNCHANGED commands
       \/ /\ ~is_expired(pLive)
          /\ is_consequential(pLive.kind)
          /\ pLive' = [pLive EXCEPT !.stage = "AwaitingConsent"]
          /\ UNCHANGED commands
          /\ NoReply
       \/ /\ ~is_expired(pLive)
          /\ ~is_consequential(pLive.kind)
          /\ pLive' = [pLive EXCEPT !.stage = "ExecutingSafeRead"]
          /\ commands' = [commands EXCEPT ![id] = @ + 1]
          /\ NoReply
    /\ UNCHANGED <<pOpen, pSeen, approvals, toProxy, violation, consents,
                   signatures>>
    /\ Requester

\* The holder enters the PIN on the prompt of the live operation, perhaps
\* twice; the platform passes the approval on with the time it was given.
holder_approves ==
    /\ pOpen /\ pLive # None
    /\ pLive.stage = "AwaitingConsent"
    /\ approvals' = approvals \cup {[id |-> pLive.id, at |-> pLive.elapsed]}
    /\ UNCHANGED <<pVars, toProxy, violation, card>>
    /\ NoReply
    /\ Requester

\* Mutation: the stage of the operation is not looked at.
consent_awaited_AnyStage(id) == live_mut(id)

\* The stage check of approve: the operation is live and at its prompt.
consent_awaited(id) == live_mut(id) /\ pLive.stage = "AwaitingConsent"

\* approve: the bridge passes the approval's own time as the current time.
\* An approval of an operation that is not live, or not at its prompt, is
\* refused; one given past the deadline cancels; any other hands out the card
\* command.
approve(a) ==
    /\ approvals' = approvals \ {a}
    /\ \/ /\ ~consent_awaited(a.id)
          /\ UNCHANGED <<pLive, commands, consents>>
          /\ NoReply
       \/ /\ consent_awaited(a.id)
          /\ a.at > deadline(pLive)
          /\ Finish(a.id, "operation_expired")
          /\ UNCHANGED <<commands, consents>>
       \/ /\ consent_awaited(a.id)
          /\ a.at <= deadline(pLive)
          /\ pLive' = [pLive EXCEPT !.stage = "Executing"]
          /\ commands' = [commands EXCEPT ![a.id] = @ + 1]
          /\ consents' = consents \cup {a.id}
          /\ NoReply
    /\ UNCHANGED <<pOpen, pSeen, toProxy, violation, signatures>>
    /\ Requester

\* Mutation: the holder's prompt does not expire.
waiting_OnlyRequested(op) == op.stage = "Requested"

\* Mutation: an operation the card is working on expires too.
waiting_UntilTerminal(op) == ~is_terminal(op)

\* The stages expire_due cancels: the card has not been commanded.
waiting(op) == op.stage \in {"Requested", "AwaitingConsent"}

expire_due ==
    /\ pOpen /\ pLive # None
    /\ waiting(pLive) /\ is_expired(pLive)
    /\ Finish(pLive.id, "operation_expired")
    /\ UNCHANGED <<pOpen, pSeen, approvals, toProxy, violation, card>>
    /\ Requester

\* deny, request_invalid_or_unsupported, retry_floor, card_error and
\* operation_failed: any operation without its result.
finish_failure(id) ==
    /\ live_mut(id)
    /\ ~is_terminal(pLive)
    /\ Finish(id, "rejected")
    /\ UNCHANGED <<pOpen, pSeen, approvals, toProxy, violation, card>>
    /\ Requester

\* What finish_completed requires of the response: it answers the request,
\* and a batch has recorded one signature per document.
answers_operation(kind, sigs) ==
    /\ validate_for(kind, sigs, pLive)
    /\ pLive.kind = "batch" => pLive.sigs = BatchTotal /\ sigs = pLive.sigs

\* complete_inspection, _identity, _certificate and _signature (kind "read" or
\* "sign"), and complete_batch with the signatures recorded.
finish_completed(id, kind) ==
    /\ live_mut(id)
    /\ pLive.stage \in {"Executing", "ExecutingSafeRead"}
    /\ LET sigs == IF kind = "batch" THEN pLive.sigs ELSE 0
       IN  /\ answers_operation(kind, sigs)
           /\ Reply("result", id, "completed", kind, sigs)
    /\ pLive' = [pLive EXCEPT !.stage = "Terminal"]
    /\ UNCHANGED <<pOpen, pSeen, approvals, toProxy, violation, card>>
    /\ Requester

record_batch_signature(id) ==
    /\ live_mut(id)
    /\ pLive.stage = "Executing"
    /\ pLive.kind = "batch"
    /\ pLive.sigs < BatchTotal
    /\ pLive' = [pLive EXCEPT !.sigs = @ + 1]
    /\ signatures' = [signatures EXCEPT ![id] = @ + 1]
    /\ UNCHANGED <<pOpen, pSeen, approvals, toProxy, violation, commands,
                   consents>>
    /\ NoReply
    /\ Requester

\* Progress never takes the last place of the bounded queue, which a result
\* may need; the code bounds neither.
report_progress(id) ==
    /\ live_mut(id)
    /\ ~is_terminal(pLive)
    /\ Len(toRequester) + 1 < MaxQueue
    /\ toRequester' = Append(toRequester,
                             Answer("progress", id, "busy", "unsupported", 0))
    /\ UNCHANGED <<pVars, approvals, toProxy, violation, card, answered>>
    /\ Requester

proxy_session_closed ==
    /\ pOpen
    /\ EndProxy
    /\ UNCHANGED <<approvals, violation, card>>
    /\ NoReply
    /\ Requester

\* The continuous clock; past the last deadline more time changes nothing.
Tick ==
    /\ pLive # None
    /\ pLive.elapsed <= MaxLifetime
    /\ pLive' = [pLive EXCEPT !.elapsed = @ + 1]
    /\ UNCHANGED <<pOpen, pSeen, approvals, toProxy, violation, card>>
    /\ NoReply
    /\ Requester

-----------------------------------------------------------------------------
Init ==
    /\ rOpen = TRUE /\ pOpen = TRUE
    /\ rLive = None /\ pLive = None
    /\ rUsed = {} /\ pSeen = {} /\ approvals = {}
    /\ toProxy = <<>> /\ toRequester = <<>>
    /\ violation = "none"
    /\ asked = {} /\ consents = {} /\ outcomes = {}
    /\ commands = [id \in Ids |-> 0]
    /\ signatures = [id \in Ids |-> 0]
    /\ answered = [id \in Ids |-> 0]

RequesterStep ==
    \/ \E req \in Requests : begin(req)
    \/ cancel
    \/ requester_receive
    \/ requester_session_closed

ProxyStep ==
    \/ proxy_receive
    \/ holder_approves
    \/ \E a \in approvals : approve(a)
    \/ \E id \in Ids :
         \/ prerequisites_complete(id)
         \/ finish_failure(id)
         \/ \E kind \in Kinds \ {"unsupported"} : finish_completed(id, kind)
         \/ record_batch_signature(id)
         \/ report_progress(id)
    \/ expire_due
    \/ proxy_session_closed
    \/ Tick

Next == RequesterStep \/ ProxyStep

Spec == Init /\ [][Next]_vars

\* The card's answer, or its absence, ends an exchange that began.
card_exchange_ends ==
    \E id \in Ids :
        /\ live_mut(id)
        /\ pLive.stage \in {"Executing", "ExecutingSafeRead"}
        /\ finish_failure(id) \/ \E kind \in Kinds : finish_completed(id, kind)

\* Both endpoints drain their transport, the custodian's clock runs and its
\* bridge is polled for expiry, the card answers an exchange that began, and
\* the side whose peer is gone ends too (the silence limit of liveness.rs).
\* Nothing is assumed of the holder, of prerequisites or of progress.
Fairness ==
    /\ WF_vars(requester_receive)
    /\ WF_vars(proxy_receive)
    /\ WF_vars(expire_due)
    /\ WF_vars(Tick)
    /\ WF_vars(card_exchange_ends)
    /\ WF_vars(~pOpen /\ requester_session_closed)
    /\ WF_vars(~rOpen /\ proxy_session_closed)

FairSpec == Spec /\ Fairness

-----------------------------------------------------------------------------
\* Every variable has its type.
TypeOK ==
    /\ rOpen \in BOOLEAN /\ pOpen \in BOOLEAN
    /\ rLive \in Requests \cup {None}
    /\ pLive \in Transactions \cup {None}
    /\ rUsed \subseteq Ids /\ pSeen \subseteq Ids
    /\ approvals \subseteq Approvals
    /\ toProxy \in Seq(Requests) /\ toRequester \in Seq(Answers)
    /\ violation \in Violations
    /\ asked \subseteq Ids /\ consents \subseteq Ids
    /\ commands \in [Ids -> Nat]
    /\ signatures \in [Ids -> Nat]
    /\ answered \in [Ids -> Nat]
    /\ outcomes \subseteq [id : Ids, kind : Kinds, status : Statuses]

\* The one card command: whatever approvals, repeated taps, expiries and
\* closes cross each other, ExecuteCardCommand or ExecuteSafeRead is handed
\* out at most once per operation (AuthorizationTransaction::approve,
\* prerequisites_complete).
CommandAtMostOnce == \A id \in Ids : commands[id] <= 1

\* An operation the requester reports as completed was commanded to the card,
\* with the holder's approval applied when it uses a private key, and a batch
\* with one card signature per document.
CompletedWasCommanded ==
    \A o \in outcomes : o.status = "completed" =>
        /\ commands[o.id] = 1
        /\ o.kind \in {"sign", "batch"} => o.id \in consents
        /\ o.kind = "batch" => signatures[o.id] = BatchTotal

\* An operation reported expired, busy, duplicate or unauthorized never
\* reached the card, before or after the report: the requester may safely
\* start over (section 8.1 of the protocol; expire_due, admission_refusal).
RefusedNeverCommanded ==
    \A o \in outcomes :
        o.status \in Refusals \cup {"operation_expired"} => commands[o.id] = 0

\* What the requester reports of an operation is what happened at the card:
\* completed when it was commanded, approved and done in full, refused or expired
\* only when it never reached the card.
ReportIsTrue == CompletedWasCommanded /\ RefusedNeverCommanded

\* An operation identifier gets at most one result or error, however expiry,
\* failure and completion race (finish_failure, finish_completed).
AnsweredAtMostOnce == \A id \in Ids : answered[id] <= 1

\* The custodian's slot keeps its operation over a step.
LiveKept ==
    (pLive # None /\ ~is_terminal(pLive) /\ pOpen')
        => (pLive' # None /\ pLive'.id = pLive.id)

\* A live operation leaves the custodian's slot only by its result or the end
\* of the session: no later request displaces it (admission_refusal).
LiveNotDisplaced == [][LiveKept]_vars

\* Every operation the requester waits for ends: with a result, a refusal or
\* the session (the requester never waits on a silent custodian).
EveryOperationEnds ==
    \A id \in Ids :
        (rLive # None /\ rLive.id = id) ~> (rLive = None \/ rLive.id # id)
==============================================================================
