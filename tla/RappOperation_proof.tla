------------------------- MODULE RappOperation_proof -------------------------
(***************************************************************************)
(* Proofs about RappOperation, for any identifiers, lifetimes, batch size, *)
(* grants and bounds: the types, the one card command per operation, and   *)
(* that what the requester is told agrees with what the card was told.     *)
(***************************************************************************)
EXTENDS RappOperation, TLAPS

\* Nothing happened yet at the custodian for this identifier.
Fresh(id) ==
    /\ commands[id] = 0 /\ answered[id] = 0 /\ signatures[id] = 0
    /\ pLive # None => pLive.id # id

\* A request in flight is the only one with its identifier, which the
\* requester's used set keeps it from sending again.
QueueInv ==
    /\ rOpen => rUsed = asked
    /\ \A id \in Ids \ asked : Fresh(id)
    /\ \A i \in 1..Len(toProxy) :
          toProxy[i].id \in asked /\ Fresh(toProxy[i].id)
    /\ \A i, j \in 1..Len(toProxy) : i # j => toProxy[i].id # toProxy[j].id

\* The stage of the live operation tells what was done for it.
LiveInv ==
    pLive # None =>
        /\ pLive.id \in asked
        /\ signatures[pLive.id] = pLive.sigs
        /\ pLive.stage \in {"Requested", "AwaitingConsent"}
              => commands[pLive.id] = 0
        /\ pLive.stage \in {"Executing", "ExecutingSafeRead"}
              => commands[pLive.id] = 1
        /\ pLive.stage = "Executing" => pLive.id \in consents
        /\ pLive.stage = "ExecutingSafeRead" => ~is_consequential(pLive.kind)
        /\ pLive.stage # "Terminal" => answered[pLive.id] = 0

\* What an answer to operation id says is so, and stays so.
Sound(id, status, kind) ==
    /\ answered[id] = 1
    /\ status = "completed" =>
          /\ commands[id] = 1
          /\ is_consequential(kind) => id \in consents
          /\ kind = "batch" => signatures[id] = BatchTotal
    /\ status \in Refusals \cup {"operation_expired"} => commands[id] = 0

AnswerInv ==
    \A i \in 1..Len(toRequester) :
        LET m == toRequester[i]
        IN  m.type # "progress" => Sound(m.id, m.status, m.kind)

OutcomeInv == \A o \in outcomes : Sound(o.id, o.status, o.kind)

IInv ==
    /\ TypeOK
    /\ QueueInv
    /\ LiveInv
    /\ AnswerInv
    /\ OutcomeInv
    /\ CommandAtMostOnce
    /\ AnsweredAtMostOnce

-----------------------------------------------------------------------------
\* A queue's elements after its head is taken.
LEMMA TailElements ==
    ASSUME NEW S, NEW q \in Seq(S), q # <<>>
    PROVE  /\ Tail(q) \in Seq(S)
           /\ Head(q) = q[1] /\ q[1] \in S /\ 1 \in 1..Len(q)
           /\ \A i \in 1..Len(Tail(q)) :
                 i + 1 \in 1..Len(q) /\ Tail(q)[i] = q[i + 1]
  OBVIOUS

\* A queue's elements after one is appended.
LEMMA AppendElements ==
    ASSUME NEW S, NEW q \in Seq(S), NEW e \in S
    PROVE  /\ Append(q, e) \in Seq(S)
           /\ Len(Append(q, e)) = Len(q) + 1
           /\ \A i \in 1..Len(q) : Append(q, e)[i] = q[i]
           /\ Append(q, e)[Len(q) + 1] = e
  OBVIOUS

\* Every initial state is well typed.
LEMMA TypeInit == Init => TypeOK
  BY DEF Init, TypeOK, Violations

\* A reply is a well-typed answer, counted once for its operation.
LEMMA TypeReply ==
    ASSUME TypeOK, NEW type \in {"result", "error"}, NEW id \in Ids,
           NEW status \in Statuses, NEW kind \in Kinds, NEW sigs \in Nat,
           Reply(type, id, status, kind, sigs)
    PROVE  /\ toRequester' \in Seq(Answers)
           /\ answered' \in [Ids -> Nat]
  BY DEF Reply, Answer, Answers, TypeOK

\* The end of the requester's side leaves empty, well-typed state.
LEMMA TypeEndRequester ==
    ASSUME EndRequester
    PROVE  /\ rOpen' \in BOOLEAN
           /\ rLive' \in Requests \cup {None}
           /\ rUsed' \subseteq Ids
           /\ toRequester' \in Seq(Answers)
  <1>1. <<>> \in Seq(Answers)
    OBVIOUS
  <1> QED
    BY <1>1, Zenon DEF EndRequester

\* A requester step keeps the types.
LEMMA TypeRequester ==
    ASSUME TypeOK, RequesterStep
    PROVE  TypeOK'
  <1>1. ASSUME NEW req \in Requests, begin(req)
        PROVE  TypeOK'
    BY <1>1, AppendElements, ZenonT(60) DEF begin, NoReply, TypeOK, pVars, card, Requests
  <1>2. CASE cancel
    BY <1>2 DEF cancel, NoReply, TypeOK, pVars, card
  <1>3. CASE requester_receive
    <2>1. Head(toRequester) \in Answers /\ Tail(toRequester) \in Seq(Answers)
      BY <1>3, TailElements DEF requester_receive, TypeOK
    <2>2. CASE ~answers_live(Head(toRequester))
      BY <1>3, <2>1, <2>2, Zenon
         DEF requester_receive, EndRequester, TypeOK, pVars, rVars, card
    <2>3. CASE answers_live(Head(toRequester)) /\ valid_result(Head(toRequester))
      <3>1. rLive \in Requests
        BY <2>3 DEF answers_live, TypeOK
      <3>2. [id |-> Head(toRequester).id, kind |-> rLive.kind,
             status |-> Head(toRequester).status]
               \in [id : Ids, kind : Kinds, status : Statuses]
        BY <2>1, <3>1 DEF Answers, Requests
      <3> QED
        BY <1>3, <2>1, <2>3, <3>2, Zenon
           DEF requester_receive, EndRequester, TypeOK, pVars, card
    <2>4. CASE answers_live(Head(toRequester)) /\ ~valid_result(Head(toRequester))
      BY <1>3, <2>4, TypeEndRequester, Zenon
         DEF requester_receive, TypeOK, pVars, card, Violations
    <2> QED
      BY <2>2, <2>3, <2>4
  <1>4. CASE requester_session_closed
    BY <1>4, TypeEndRequester
       DEF requester_session_closed, TypeOK, pVars, card
  <1> QED
    BY <1>1, <1>2, <1>3, <1>4 DEF RequesterStep

\* A live operation moved to another stage is well typed.
LEMMA TypeStage ==
    ASSUME TypeOK, NEW id \in Ids, live_mut(id), NEW stage \in Stages
    PROVE  /\ pLive \in Transactions
           /\ [pLive EXCEPT !.stage = stage] \in Transactions
  BY Zenon DEF TypeOK, live_mut, Transactions

\* A result without a response keeps the types.
LEMMA TypeFinish ==
    ASSUME TypeOK, NEW id \in Ids, live_mut(id), NEW status \in Statuses,
           Finish(id, status)
    PROVE  /\ pLive' \in Transactions
           /\ toRequester' \in Seq(Answers)
           /\ answered' \in [Ids -> Nat]
  <1>1. "Terminal" \in Stages /\ "unsupported" \in Kinds /\ 0 \in Nat
    BY DEF Stages, Kinds
  <1>2. pLive' \in Transactions
    BY <1>1, TypeStage DEF Finish
  <1>3. Reply("result", id, status, "unsupported", 0)
    BY DEF Finish, Refuse
  <1> QED
    BY <1>1, <1>2, <1>3, TypeReply

\* Receiving a request keeps the types.
LEMMA TypeProxyReceive ==
    ASSUME TypeOK, proxy_receive
    PROVE  TypeOK'
  <1> DEFINE req == Head(toProxy)
  <1>1. req \in Requests /\ Tail(toProxy) \in Seq(Requests)
    BY TailElements DEF proxy_receive, TypeOK
  <1>2. req.id \in Ids /\ req.kind \in Kinds /\ req.life \in Lifetimes
    BY <1>1 DEF Requests
  <1>3. prepare(req) \in Transactions
    BY <1>2, ConstantsAssumption DEF prepare, Transactions, Stages
  <1>4. <<>> \in Seq(Requests)
    OBVIOUS
  <1>5. CASE admission_refusal(req.id) = "OperationMemoryExhausted"
    <2>1. /\ pOpen' \in BOOLEAN /\ pLive' = None /\ pSeen' = {}
          /\ toProxy' = <<>> /\ violation' = "OperationMemoryExhausted"
          /\ UNCHANGED <<toRequester, answered>>
      BY <1>5, Zenon DEF proxy_receive, EndProxy, NoReply
    <2> QED
      BY <1>4, <2>1 DEF proxy_receive, Requester, TypeOK, Violations, rVars, card
  <1>6. CASE admission_refusal(req.id) # "OperationMemoryExhausted"
    <2> DEFINE refusal == admission_refusal(req.id)
    <2>1. /\ pSeen' \subseteq Ids /\ toProxy' \in Seq(Requests)
          /\ UNCHANGED <<pOpen, violation, approvals, card, rVars, outcomes,
                         asked>>
      BY <1>1, <1>2, <1>6, Zenon DEF proxy_receive, Requester, TypeOK
    <2>2. CASE pLive' = prepare(req) /\ NoReply
      BY <1>3, <2>1, <2>2 DEF NoReply, TypeOK, rVars, card
    <2>3. ASSUME NEW type \in {"result", "error"}, NEW status \in Statuses,
                 pLive' = pLive, Refuse(type, req.id, status)
          PROVE  TypeOK'
      <3>1. toRequester' \in Seq(Answers) /\ answered' \in [Ids -> Nat]
        BY <1>2, <2>3, TypeReply DEF Refuse, Kinds
      <3> QED
        BY <2>1, <2>3, <3>1, Zenon DEF TypeOK, rVars, card
    <2>4. refusal # "admitted" => refusal \in Statuses
      BY <1>6 DEF admission_refusal, Statuses, Refusals
    <2>5. "rejected" \in Statuses /\ "unauthorized" \in Statuses
      BY DEF Statuses, Refusals
    <2> QED
      BY <1>6, <2>2, <2>3, <2>4, <2>5, Zenon DEF proxy_receive
  <1> QED
    BY <1>5, <1>6

\* Deadlines and approval times are numbers.
LEMMA DeadlineNat ==
    ASSUME TypeOK, NEW a \in approvals, consent_awaited(a.id)
    PROVE  deadline(pLive) \in Nat /\ a.at \in Nat
  <1>1. pLive \in Transactions /\ a \in Approvals
    BY DEF TypeOK, consent_awaited, live_mut
  <1>2. MaxLifetime \in Nat /\ Lifetimes \subseteq Nat
    BY ConstantsAssumption
  <1>3. pLive.life \in Nat
    BY <1>1, <1>2, Zenon DEF Transactions
  <1>4. a.at \in Nat
    BY <1>1, <1>2 DEF Approvals
  <1> QED
    BY <1>2, <1>3, <1>4 DEF deadline

\* A custodian step keeps the types.
LEMMA TypeProxy ==
    ASSUME TypeOK, ProxyStep
    PROVE  TypeOK'
  <1> USE DEF Requester, NoReply, rVars, pVars, card
  <1>1. CASE proxy_receive
    BY <1>1, TypeProxyReceive
  <1>2. CASE holder_approves
    <2>1. [id |-> pLive.id, at |-> pLive.elapsed] \in Approvals
      BY <1>2 DEF holder_approves, TypeOK, Transactions, Approvals
    <2> QED
      BY <1>2, <2>1 DEF holder_approves, TypeOK
  <1>3. ASSUME NEW a \in approvals, approve(a)
        PROVE  TypeOK'
    <2>1. a.id \in Ids
      BY DEF TypeOK, Approvals
    <2>2. CASE ~consent_awaited(a.id)
      BY <1>3, <2>2 DEF approve, TypeOK
    <2>3. CASE consent_awaited(a.id) /\ a.at > deadline(pLive)
      <3>1. /\ Finish(a.id, "operation_expired")
            /\ approvals' \subseteq approvals
            /\ UNCHANGED <<pOpen, pSeen, toProxy, violation, card, rVars,
                           outcomes, asked>>
        BY <1>3, <2>3, DeadlineNat DEF approve
      <3>2. live_mut(a.id) /\ "operation_expired" \in Statuses
        BY <2>3 DEF consent_awaited, Statuses
      <3>3. /\ pLive' \in Transactions
            /\ toRequester' \in Seq(Answers)
            /\ answered' \in [Ids -> Nat]
        BY <2>1, <3>1, <3>2, TypeFinish
      <3> QED
        BY <3>1, <3>3 DEF TypeOK
    <2>4. CASE consent_awaited(a.id) /\ a.at <= deadline(pLive)
      <3>1. /\ pLive' = [pLive EXCEPT !.stage = "Executing"]
            /\ commands' = [commands EXCEPT ![a.id] = @ + 1]
            /\ consents' = consents \cup {a.id}
            /\ approvals' \subseteq approvals
            /\ UNCHANGED <<pOpen, pSeen, toProxy, violation, signatures, rVars,
                           outcomes, asked, toRequester, answered>>
        BY <1>3, <2>4, DeadlineNat DEF approve
      <3>2. live_mut(a.id) /\ "Executing" \in Stages
        BY <2>4 DEF consent_awaited, Stages
      <3>3. pLive' \in Transactions
        BY <2>1, <3>1, <3>2, TypeStage
      <3> QED
        BY <2>1, <3>1, <3>3 DEF TypeOK
    <2> QED
      BY <1>3, <2>2, <2>3, <2>4 DEF approve
  <1>4. ASSUME NEW id \in Ids, prerequisites_complete(id)
        PROVE  TypeOK'
    <2>1. live_mut(id)
      BY <1>4 DEF prerequisites_complete
    <2>2. CASE is_expired(pLive)
      BY <1>4, <2>1, <2>2, TypeFinish, Zenon
         DEF prerequisites_complete, TypeOK, Statuses
    <2>3. CASE ~is_expired(pLive)
      <3>1. pLive' \in Transactions
        BY <1>4, <2>1, <2>3, TypeStage DEF prerequisites_complete, Stages
      <3>2. commands' \in [Ids -> Nat]
        BY <1>4, <2>3 DEF prerequisites_complete, TypeOK
      <3> QED
        BY <1>4, <2>3, <3>1, <3>2, Zenon DEF prerequisites_complete, TypeOK
    <2> QED
      BY <2>2, <2>3
  <1>5. ASSUME NEW id \in Ids, finish_failure(id)
        PROVE  TypeOK'
    BY <1>5, TypeFinish, Zenon DEF finish_failure, TypeOK, Statuses
  <1>6. ASSUME NEW id \in Ids, NEW kind \in Kinds, finish_completed(id, kind)
        PROVE  TypeOK'
    <2>1. live_mut(id) /\ "Terminal" \in Stages /\ "completed" \in Statuses
      BY <1>6 DEF finish_completed, Stages, Statuses
    <2>2. pLive \in Transactions /\ pLive' \in Transactions
      BY <1>6, <2>1, TypeStage DEF finish_completed
    <2>3. PICK sigs \in Nat : Reply("result", id, "completed", kind, sigs)
      BY <1>6, <2>2 DEF finish_completed, Transactions
    <2>4. toRequester' \in Seq(Answers) /\ answered' \in [Ids -> Nat]
      BY <2>1, <2>3, TypeReply
    <2> QED
      BY <1>6, <2>2, <2>4, Zenon DEF finish_completed, TypeOK
  <1>7. ASSUME NEW id \in Ids, record_batch_signature(id)
        PROVE  TypeOK'
    <2>0. pLive \in Transactions
      BY <1>7 DEF record_batch_signature, live_mut, TypeOK
    <2>1. pLive' \in Transactions
      BY <1>7, <2>0 DEF record_batch_signature, Transactions
    <2> QED
      BY <1>7, <2>1 DEF record_batch_signature, TypeOK
  <1>8. ASSUME NEW id \in Ids, report_progress(id)
        PROVE  TypeOK'
    <2>1. Answer("progress", id, "busy", "unsupported", 0) \in Answers
      BY DEF Answer, Answers, Statuses, Refusals, Kinds
    <2> QED
      BY <1>8, <2>1, AppendElements, Zenon DEF report_progress, TypeOK
  <1>9. CASE expire_due
    <2>1. pLive.id \in Ids /\ live_mut(pLive.id)
      BY <1>9 DEF expire_due, live_mut, TypeOK, Transactions
    <2> QED
      BY <1>9, <2>1, TypeFinish, Zenon DEF expire_due, TypeOK, Statuses
  <1>10. CASE proxy_session_closed
    <2>1. /\ pOpen' \in BOOLEAN /\ pLive' \in Transactions \cup {None}
          /\ pSeen' \subseteq Ids /\ toProxy' \in Seq(Requests)
      <3>1. <<>> \in Seq(Requests)
        OBVIOUS
      <3> QED
        BY <1>10, <3>1, Zenon DEF proxy_session_closed, EndProxy
    <2> QED
      BY <1>10, <2>1 DEF proxy_session_closed, TypeOK
  <1>11. CASE Tick
    <2>0. pLive \in Transactions
      BY <1>11 DEF Tick, TypeOK
    <2>1. pLive' \in Transactions
      BY <1>11, <2>0, ConstantsAssumption DEF Tick, Transactions
    <2> QED
      BY <1>11, <2>1 DEF Tick, TypeOK
  <1> QED
    BY <1>1, <1>2, <1>3, <1>4, <1>5, <1>6, <1>7, <1>8, <1>9, <1>10, <1>11
       DEF ProxyStep

\* A step that changes nothing keeps the types.
LEMMA TypeUnchanged == TypeOK /\ UNCHANGED vars => TypeOK'
  BY DEF TypeOK, vars, rVars, pVars, card

\* The session's state keeps its types: a request, a transaction, an answer
\* and an approval are always of the shape the engines expect.
THEOREM TypeCorrect == Spec => []TypeOK
  <1>1. TypeOK /\ [Next]_vars => TypeOK'
    BY TypeUnchanged, TypeRequester, TypeProxy DEF Next
  <1> QED
    BY <1>1, TypeInit, PTL DEF Spec

-----------------------------------------------------------------------------
\* A step changes the counts of one operation only.
OnlyTouches(x) ==
    /\ \A y \in Ids \ {x} : /\ commands'[y] = commands[y]
                            /\ answered'[y] = answered[y]
                            /\ signatures'[y] = signatures[y]
    /\ consents \subseteq consents'

\* The answer a step appends for operation x, if any, is sound.
SendsSound(x) ==
    \/ toRequester' = toRequester
    \/ \E m \in Answers :
          /\ toRequester' = Append(toRequester, m)
          /\ m.type # "progress" => Sound(m.id, m.status, m.kind)'

\* What was said of an answered operation stays so when a step touches an
\* operation without its answer.
LEMMA SoundKept ==
    ASSUME NEW x \in Ids, NEW id \in Ids, NEW status, NEW kind,
           answered[x] = 0, OnlyTouches(x), Sound(id, status, kind)
    PROVE  Sound(id, status, kind)'
  BY DEF Sound, OnlyTouches

\* A step on an operation without its answer keeps what was said of the others.
LEMMA AnswersKept ==
    ASSUME IInv, TypeOK', NEW x \in Ids, answered[x] = 0, OnlyTouches(x),
           SendsSound(x), UNCHANGED outcomes,
           commands'[x] <= 1, answered'[x] <= 1
    PROVE  AnswerInv' /\ OutcomeInv' /\ CommandAtMostOnce' /\ AnsweredAtMostOnce'
  <1>1. OutcomeInv'
    <2>1. \A o \in outcomes : o.id \in Ids /\ Sound(o.id, o.status, o.kind)
      BY DEF IInv, OutcomeInv, TypeOK
    <2>2. \A o \in outcomes : Sound(o.id, o.status, o.kind)'
      BY <2>1, SoundKept
    <2> QED
      BY <2>2 DEF OutcomeInv, Sound
  <1>2. CommandAtMostOnce' /\ AnsweredAtMostOnce'
    <2>1. ASSUME NEW id \in Ids
          PROVE  commands'[id] <= 1 /\ answered'[id] <= 1
      <3>1. commands[id] <= 1 /\ answered[id] <= 1
        BY DEF IInv, CommandAtMostOnce, AnsweredAtMostOnce
      <3> QED
        BY <3>1 DEF OnlyTouches
    <2> QED
      BY <2>1 DEF CommandAtMostOnce, AnsweredAtMostOnce
  <1>3. ASSUME NEW m \in Answers, Sound(m.id, m.status, m.kind)
        PROVE  Sound(m.id, m.status, m.kind)'
    BY <1>3, SoundKept DEF Answers
  <1>4. \A i \in 1..Len(toRequester) : toRequester[i] \in Answers
    BY DEF IInv, TypeOK
  <1>5. ASSUME toRequester' = toRequester
        PROVE  AnswerInv'
    BY <1>3, <1>4, <1>5 DEF IInv, AnswerInv, Sound
  <1>6. ASSUME NEW m \in Answers, toRequester' = Append(toRequester, m),
               m.type # "progress" => Sound(m.id, m.status, m.kind)'
        PROVE  AnswerInv'
    <2>1. /\ Len(toRequester') = Len(toRequester) + 1
          /\ \A i \in 1..Len(toRequester) : toRequester'[i] = toRequester[i]
          /\ toRequester'[Len(toRequester) + 1] = m
          /\ Len(toRequester) \in Nat
      BY <1>6, AppendElements DEF IInv, TypeOK
    <2>2. ASSUME NEW i \in 1..Len(toRequester'),
                 toRequester'[i].type # "progress"
          PROVE  \E n \in Answers : /\ n = toRequester'[i]
                                    /\ Sound(n.id, n.status, n.kind)'
      <3>1. CASE i = Len(toRequester) + 1
        BY <1>6, <2>1, <2>2, <3>1
      <3>2. CASE i \in 1..Len(toRequester)
        BY <1>3, <1>4, <2>1, <2>2, <3>2 DEF IInv, AnswerInv
      <3> QED
        BY <2>1, <3>1, <3>2
    <2> QED
      BY <2>2 DEF AnswerInv
  <1> QED
    BY <1>1, <1>2, <1>5, <1>6 DEF SendsSound

\* A step on the live operation keeps the requests in flight fresh.
LEMMA QueueKept ==
    ASSUME IInv, pLive # None, pLive' # None, pLive'.id = pLive.id,
           OnlyTouches(pLive.id), UNCHANGED <<toProxy, asked, rOpen, rUsed>>
    PROVE  QueueInv'
  <1>1. ASSUME NEW id \in Ids, Fresh(id)
        PROVE  Fresh(id)'
    BY <1>1 DEF Fresh, OnlyTouches
  <1>2. \A i \in 1..Len(toProxy) : toProxy[i].id \in Ids
    BY DEF IInv, TypeOK, QueueInv
  <1>3. \A id \in Ids \ asked : Fresh(id)'
    BY <1>1 DEF IInv, QueueInv
  <1>4. ASSUME NEW i \in 1..Len(toProxy)
        PROVE  \E id \in asked : id = toProxy[i].id /\ Fresh(id)'
    BY <1>1, <1>2 DEF IInv, QueueInv
  <1>5. rOpen' => rUsed' = asked'
    BY Zenon DEF IInv, QueueInv
  <1>6. ASSUME NEW i \in 1..Len(toProxy')
        PROVE  toProxy'[i].id \in asked' /\ Fresh(toProxy[i].id)'
    BY <1>4 DEF Fresh
  <1>7. \A i, j \in 1..Len(toProxy') :
            i # j => toProxy'[i].id # toProxy'[j].id
    BY DEF IInv, QueueInv
  <1> QED
    BY <1>3, <1>5, <1>6, <1>7 DEF QueueInv

\* A stage change keeps the rest of the live operation.
LEMMA StageChange ==
    ASSUME NEW op \in Transactions, NEW stage \in Stages
    PROVE  LET new == [op EXCEPT !.stage = stage]
           IN  /\ new # None
               /\ new.id = op.id /\ new.kind = op.kind /\ new.sigs = op.sigs
               /\ new.stage = stage
  <1>1. [op EXCEPT !.stage = stage] \in Transactions
    BY DEF Transactions
  <1> QED
    BY <1>1, NoneAssumption DEF Transactions

\* A step on the live operation, which has no answer yet, keeps the invariant
\* when it sends nothing unsound and leaves the slot in order.
LEMMA LiveStep ==
    ASSUME IInv, TypeOK', NEW x \in Ids, pLive # None, pLive.id = x,
           pLive' # None, pLive'.id = x, answered[x] = 0,
           OnlyTouches(x), SendsSound(x),
           UNCHANGED <<toProxy, asked, rOpen, rUsed, outcomes>>,
           commands'[x] <= 1, answered'[x] <= 1, LiveInv'
    PROVE  IInv'
  <1>1. QueueInv'
    BY QueueKept
  <1> QED
    BY <1>1, AnswersKept DEF IInv

\* A failure or an expiry ends the live operation; an expiry is only reported
\* of an operation the card was not commanded for.
LEMMA FinishKeeps ==
    ASSUME IInv, TypeOK', NEW id \in Ids, live_mut(id),
           pLive.stage # "Terminal",
           NEW status \in {"rejected", "operation_expired"},
           status = "operation_expired" => commands[id] = 0,
           Finish(id, status),
           UNCHANGED <<toProxy, asked, rOpen, rUsed, outcomes, card>>
    PROVE  IInv'
  <1>1. /\ pLive \in Transactions /\ pLive.id = id /\ pLive # None
        /\ pLive' = [pLive EXCEPT !.stage = "Terminal"]
    BY DEF IInv, TypeOK, live_mut, Finish
  <1>2. /\ pLive' # None /\ pLive'.id = id /\ pLive'.stage = "Terminal"
        /\ pLive'.sigs = pLive.sigs
    BY <1>1, StageChange DEF Stages
  <1>3. /\ answered[id] = 0 /\ answered' = [answered EXCEPT ![id] = @ + 1]
        /\ answered \in [Ids -> Nat]
    BY <1>1 DEF IInv, LiveInv, TypeOK, Finish, Refuse, Reply
  <1>4. OnlyTouches(id) /\ answered'[id] = 1
    BY <1>3 DEF OnlyTouches, card
  <1>5. SendsSound(id)
    <2>1. PICK m \in Answers :
              /\ m = Answer("result", id, status, "unsupported", 0)
              /\ toRequester' = Append(toRequester, m)
      BY DEF Finish, Refuse, Reply, Answer, Answers, Statuses, Kinds
    <2>2. m.id = id /\ m.status = status
      BY <2>1 DEF Answer
    <2>3. Sound(m.id, m.status, m.kind)'
      BY <1>4, <2>2 DEF Sound, card, Refusals
    <2> QED
      BY <2>1, <2>3 DEF SendsSound
  <1>6. LiveInv'
    BY <1>1, <1>2 DEF IInv, LiveInv, card
  <1>7. commands'[id] <= 1 /\ answered'[id] <= 1
    BY <1>4 DEF IInv, CommandAtMostOnce, card
  <1> QED
    BY <1>1, <1>2, <1>3, <1>4, <1>5, <1>6, <1>7, LiveStep

\* A change of stage that hands out the card command only from a stage before
\* it, and only once.
LEMMA StageKeeps ==
    ASSUME IInv, TypeOK', NEW id \in Ids, live_mut(id),
           NEW stage \in Stages \ {"Requested", "Terminal"},
           pLive.stage \in {"Requested", "AwaitingConsent"},
           pLive' = [pLive EXCEPT !.stage = stage],
           commands' = IF stage = "AwaitingConsent" THEN commands
                       ELSE [commands EXCEPT ![id] = @ + 1],
           consents \subseteq consents',
           stage = "Executing" => id \in consents',
           stage = "ExecutingSafeRead" => ~is_consequential(pLive.kind),
           UNCHANGED <<toProxy, toRequester, asked, rOpen, rUsed, outcomes,
                       signatures, answered>>
    PROVE  IInv'
  <1>1. /\ pLive \in Transactions /\ pLive.id = id /\ pLive # None
        /\ commands \in [Ids -> Nat]
    BY DEF IInv, TypeOK, live_mut
  <1>2. /\ pLive' # None /\ pLive'.id = id /\ pLive'.stage = stage
        /\ pLive'.sigs = pLive.sigs /\ pLive'.kind = pLive.kind
    BY <1>1, StageChange
  <1>3. answered[id] = 0 /\ commands[id] = 0
    BY <1>1 DEF IInv, LiveInv
  <1>4. commands'[id] = IF stage = "AwaitingConsent" THEN 0 ELSE 1
    BY <1>1, <1>3
  <1>5. OnlyTouches(id) /\ SendsSound(id)
    BY <1>1 DEF OnlyTouches, SendsSound
  <1>6. LiveInv'
    BY <1>1, <1>2, <1>3, <1>4 DEF IInv, LiveInv, Stages
  <1> QED
    BY <1>1, <1>2, <1>3, <1>4, <1>5, <1>6, LiveStep

\* The requester's variables stay.
LEMMA RequesterStays ==
    ASSUME Requester
    PROVE  UNCHANGED <<rOpen, rLive, rUsed, outcomes, asked>>
  BY DEF Requester, rVars

\* prerequisites_complete keeps the invariant.
LEMMA PrerequisitesKeep ==
    ASSUME IInv, TypeOK', NEW id \in Ids, prerequisites_complete(id)
    PROVE  IInv'
  <1> USE RequesterStays DEF prerequisites_complete
  <1>1. CASE is_expired(pLive) /\ Finish(id, "operation_expired")
             /\ UNCHANGED commands
    <2>1. commands[id] = 0
      BY DEF IInv, LiveInv, live_mut
    <2> QED
      BY <1>1, <2>1, FinishKeeps DEF card
  <1>2. CASE is_consequential(pLive.kind)
             /\ pLive' = [pLive EXCEPT !.stage = "AwaitingConsent"]
             /\ UNCHANGED commands /\ NoReply
    BY <1>2, StageKeeps DEF NoReply, Stages
  <1>3. CASE ~is_consequential(pLive.kind)
             /\ pLive' = [pLive EXCEPT !.stage = "ExecutingSafeRead"]
             /\ commands' = [commands EXCEPT ![id] = @ + 1] /\ NoReply
    BY <1>3, StageKeeps, Zenon DEF NoReply, Stages
  <1> QED
    BY <1>1, <1>2, <1>3

\* The history, the queues and the slot stay: the invariant stays.
LEMMA NothingKeeps ==
    ASSUME IInv, TypeOK',
           UNCHANGED <<pLive, toProxy, toRequester, asked, rOpen, rUsed,
                       outcomes, card, answered>>
    PROVE  IInv'
  <1>1. QueueInv'
    <2>1. rOpen' => rUsed' = asked'
      BY Zenon DEF IInv, QueueInv
    <2> QED
      BY <2>1 DEF IInv, QueueInv, Fresh, card
  <1>2. LiveInv' /\ CommandAtMostOnce' /\ AnsweredAtMostOnce'
    BY DEF IInv, LiveInv, card, CommandAtMostOnce, AnsweredAtMostOnce
  <1>3. AnswerInv' /\ OutcomeInv'
    BY DEF IInv, AnswerInv, OutcomeInv, Sound, card
  <1> QED
    BY <1>1, <1>2, <1>3 DEF IInv

\* approve keeps the invariant.
LEMMA ApproveKeeps ==
    ASSUME IInv, TypeOK', NEW a \in approvals, approve(a)
    PROVE  IInv'
  <1> USE RequesterStays DEF approve
  <1>0. a.id \in Ids
    BY DEF IInv, TypeOK, Approvals
  <1>1. CASE UNCHANGED <<pLive, commands, consents>> /\ NoReply
    BY <1>1, NothingKeeps DEF NoReply, card
  <1>2. CASE consent_awaited(a.id) /\ Finish(a.id, "operation_expired")
             /\ UNCHANGED <<commands, consents>>
    <2>1. live_mut(a.id) /\ pLive.stage # "Terminal" /\ commands[a.id] = 0
      BY <1>2 DEF IInv, LiveInv, live_mut, consent_awaited
    <2> QED
      BY <1>0, <1>2, <2>1, FinishKeeps DEF card
  <1>3. CASE /\ consent_awaited(a.id)
             /\ pLive' = [pLive EXCEPT !.stage = "Executing"]
             /\ commands' = [commands EXCEPT ![a.id] = @ + 1]
             /\ consents' = consents \cup {a.id}
             /\ NoReply
    BY <1>0, <1>3, StageKeeps, Zenon DEF NoReply, Stages, consent_awaited
  <1> QED
    BY <1>1, <1>2, <1>3

\* expire_due keeps the invariant.
LEMMA ExpireKeeps ==
    ASSUME IInv, TypeOK', expire_due
    PROVE  IInv'
  <1> USE RequesterStays DEF expire_due
  <1>1. pLive.id \in Ids
    BY Zenon DEF IInv, TypeOK, Transactions
  <1>2. live_mut(pLive.id) /\ pLive.stage # "Terminal" /\ commands[pLive.id] = 0
    BY Zenon DEF IInv, LiveInv, live_mut, waiting
  <1> QED
    BY <1>1, <1>2, FinishKeeps

\* finish_failure keeps the invariant.
LEMMA FailureKeeps ==
    ASSUME IInv, TypeOK', NEW id \in Ids, finish_failure(id)
    PROVE  IInv'
  BY RequesterStays, FinishKeeps DEF finish_failure, is_terminal

\* finish_completed keeps the invariant: the card was commanded, with consent
\* where it is due, and a batch recorded one signature per document.
LEMMA CompletedKeeps ==
    ASSUME IInv, TypeOK', NEW id \in Ids, NEW kind \in Kinds,
           finish_completed(id, kind)
    PROVE  IInv'
  <1> DEFINE sigs == IF kind = "batch" THEN pLive.sigs ELSE 0
  <1>1. /\ pLive \in Transactions /\ pLive.id = id /\ pLive # None
        /\ pLive.stage \in {"Executing", "ExecutingSafeRead"}
        /\ pLive' = [pLive EXCEPT !.stage = "Terminal"]
        /\ answers_operation(kind, sigs)
        /\ Reply("result", id, "completed", kind, sigs)
        /\ UNCHANGED <<toProxy, card>>
        /\ Requester
    BY DEF IInv, TypeOK, finish_completed, live_mut
  <1>2. /\ pLive' # None /\ pLive'.id = id /\ pLive'.stage = "Terminal"
        /\ pLive'.sigs = pLive.sigs
    BY <1>1, StageChange DEF Stages
  <1>3. /\ answered[id] = 0 /\ answered' = [answered EXCEPT ![id] = @ + 1]
        /\ answered \in [Ids -> Nat]
    BY <1>1 DEF IInv, LiveInv, TypeOK, Reply
  <1>4. OnlyTouches(id) /\ answered'[id] = 1
    BY <1>1, <1>3 DEF OnlyTouches, card
  <1>5. SendsSound(id)
    <2>1. sigs \in Nat
      BY <1>1 DEF Transactions
    <2>2. PICK m \in Answers :
              /\ m = Answer("result", id, "completed", kind, sigs)
              /\ toRequester' = Append(toRequester, m)
      BY <1>1, <2>1 DEF Reply, Answer, Answers, Statuses
    <2>3. m.id = id /\ m.status = "completed" /\ m.kind = kind
      BY <2>2 DEF Answer
    <2>4. /\ commands[id] = 1
          /\ is_consequential(kind) => id \in consents
          /\ kind = "batch" => signatures[id] = BatchTotal
      BY <1>1 DEF IInv, LiveInv, answers_operation, validate_for
    <2>5. Sound(m.id, m.status, m.kind)'
      BY <1>1, <1>4, <2>3, <2>4 DEF Sound, card, Refusals
    <2> QED
      BY <2>2, <2>5 DEF SendsSound
  <1>6. LiveInv'
    BY <1>1, <1>2, RequesterStays DEF IInv, LiveInv, card
  <1>7. commands'[id] <= 1 /\ answered'[id] <= 1
    BY <1>1, <1>4 DEF IInv, CommandAtMostOnce, card
  <1> QED
    BY <1>1, <1>2, <1>3, <1>4, <1>5, <1>6, <1>7, LiveStep, RequesterStays

\* record_batch_signature keeps the invariant.
LEMMA SignatureKeeps ==
    ASSUME IInv, TypeOK', NEW id \in Ids, record_batch_signature(id)
    PROVE  IInv'
  <1> USE RequesterStays DEF record_batch_signature
  <1>1. /\ pLive \in Transactions /\ pLive.id = id /\ pLive # None
        /\ signatures \in [Ids -> Nat]
    BY DEF IInv, TypeOK, live_mut
  <1>2. pLive' \in Transactions
    BY <1>1 DEF Transactions
  <1>3. /\ pLive' # None /\ pLive'.id = id /\ pLive'.stage = pLive.stage
        /\ pLive'.sigs = pLive.sigs + 1 /\ pLive'.kind = pLive.kind
    BY <1>1, <1>2, NoneAssumption DEF Transactions
  <1>4. answered[id] = 0 /\ commands[id] = 1 /\ signatures[id] = pLive.sigs
    BY <1>1 DEF IInv, LiveInv
  <1>5. OnlyTouches(id) /\ SendsSound(id)
    BY <1>1 DEF OnlyTouches, SendsSound, NoReply
  <1>6. LiveInv'
    BY <1>1, <1>3, <1>4 DEF IInv, LiveInv, NoReply
  <1>7. commands'[id] <= 1 /\ answered'[id] <= 1
    BY <1>4 DEF NoReply
  <1> QED
    BY <1>1, <1>3, <1>4, <1>5, <1>6, <1>7, LiveStep

\* report_progress keeps the invariant: progress is not an answer.
LEMMA ProgressKeeps ==
    ASSUME IInv, TypeOK', NEW id \in Ids, report_progress(id)
    PROVE  IInv'
  <1> USE RequesterStays DEF report_progress
  <1>1. /\ pLive \in Transactions /\ pLive.id = id /\ pLive # None
        /\ UNCHANGED <<pLive, card, answered>>
    BY DEF IInv, TypeOK, live_mut, pVars
  <1>2. answered[id] = 0
    BY <1>1, Zenon DEF IInv, LiveInv, is_terminal
  <1>3. OnlyTouches(id)
    BY <1>1, Zenon DEF OnlyTouches, card
  <1>4. SendsSound(id)
    <2>1. PICK m \in Answers :
              /\ m = Answer("progress", id, "busy", "unsupported", 0)
              /\ toRequester' = Append(toRequester, m)
      BY DEF Answer, Answers, Statuses, Refusals, Kinds
    <2>2. m.type = "progress"
      BY <2>1 DEF Answer
    <2> QED
      BY <2>1, <2>2 DEF SendsSound
  <1>5. LiveInv'
    BY <1>1 DEF IInv, LiveInv, card
  <1>6. commands'[id] <= 1 /\ answered'[id] <= 1
    BY <1>1 DEF IInv, CommandAtMostOnce, AnsweredAtMostOnce, card
  <1> QED
    BY <1>1, <1>2, <1>3, <1>4, <1>5, <1>6, LiveStep, Zenon

\* Tick keeps the invariant, which does not look at the time.
LEMMA TickKeeps ==
    ASSUME IInv, TypeOK', Tick
    PROVE  IInv'
  <1> USE RequesterStays DEF Tick
  <1>0. pLive \in Transactions /\ pLive.elapsed \in 0..(MaxLifetime + 1)
    BY DEF IInv, TypeOK, Transactions
  <1>1. pLive \in Transactions /\ pLive.elapsed + 1 \in 0..(MaxLifetime + 1)
    BY <1>0, ConstantsAssumption
  <1>2. pLive' \in Transactions
    BY <1>1 DEF Transactions
  <1>3. /\ pLive' # None /\ pLive'.id = pLive.id /\ pLive'.stage = pLive.stage
        /\ pLive'.sigs = pLive.sigs /\ pLive'.kind = pLive.kind
    BY <1>1, <1>2, NoneAssumption DEF Transactions
  <1>4. OnlyTouches(pLive.id) /\ UNCHANGED <<card, answered, toRequester>>
    BY DEF OnlyTouches, NoReply, card
  <1>5. QueueInv'
    BY <1>3, <1>4, QueueKept
  <1>6. LiveInv' /\ CommandAtMostOnce' /\ AnsweredAtMostOnce'
    BY <1>3, <1>4 DEF IInv, LiveInv, card, CommandAtMostOnce, AnsweredAtMostOnce
  <1>7. AnswerInv' /\ OutcomeInv'
    BY <1>4 DEF IInv, AnswerInv, OutcomeInv, Sound, card
  <1> QED
    BY <1>5, <1>6, <1>7 DEF IInv

\* The end of the custodian's side keeps the invariant: the slot and the
\* queue are empty, the history stays.
LEMMA EndProxyKeeps ==
    ASSUME IInv, TypeOK', EndProxy, Requester, NoReply, UNCHANGED card
    PROVE  IInv'
  <1> USE RequesterStays DEF EndProxy, NoReply
  <1>1. Len(toProxy') = 0
    OBVIOUS
  <1>2. rOpen' => rUsed' = asked'
    BY Zenon DEF IInv, QueueInv
  <1>3. \A id \in Ids \ asked' : Fresh(id)'
    BY DEF IInv, QueueInv, Fresh, card
  <1>4. QueueInv'
    BY <1>1, <1>2, <1>3 DEF QueueInv
  <1>5. LiveInv' /\ CommandAtMostOnce' /\ AnsweredAtMostOnce'
    BY DEF IInv, LiveInv, card, CommandAtMostOnce, AnsweredAtMostOnce
  <1>6. AnswerInv' /\ OutcomeInv'
    BY DEF IInv, AnswerInv, OutcomeInv, Sound, card
  <1> QED
    BY <1>4, <1>5, <1>6 DEF IInv

\* The request at the head of the queue is fresh, and none behind it carries
\* its identifier; taking it keeps the queue in order when the step touches
\* only its identifier.
LEMMA HeadTaken ==
    ASSUME IInv, toProxy # <<>>, NEW x \in Ids, x = Head(toProxy).id,
           toProxy' = Tail(toProxy), OnlyTouches(x),
           UNCHANGED <<asked, rOpen, rUsed>>,
           pLive' = pLive \/ (pLive' # None /\ pLive'.id = x)
    PROVE  QueueInv' /\ Fresh(x) /\ x \in asked
  <1>1. /\ Head(toProxy) = toProxy[1] /\ 1 \in 1..Len(toProxy)
        /\ \A i \in 1..Len(toProxy') :
              i + 1 \in 1..Len(toProxy) /\ toProxy'[i] = toProxy[i + 1]
    BY TailElements DEF IInv, TypeOK
  <1>2. Fresh(x) /\ x \in asked
    BY <1>1 DEF IInv, QueueInv
  <1>3. ASSUME NEW id \in Ids, id # x, Fresh(id)
        PROVE  Fresh(id)'
    BY <1>3, Zenon DEF Fresh, OnlyTouches
  <1>4. \A id \in Ids \ asked : Fresh(id)'
    BY <1>2, <1>3, Zenon DEF IInv, QueueInv
  <1>5. ASSUME NEW i \in 1..Len(toProxy')
        PROVE  \E id \in asked : id = toProxy'[i].id /\ Fresh(id)'
    <2>1. toProxy'[i].id \in asked /\ Fresh(toProxy[i + 1].id)
          /\ toProxy'[i].id = toProxy[i + 1].id
      BY <1>1 DEF IInv, QueueInv
    <2>2. toProxy[i + 1].id # x /\ i \in Nat
      BY <1>1 DEF IInv, QueueInv
    <2>3. toProxy[i + 1].id \in Ids
      BY <2>1 DEF IInv, TypeOK
    <2> QED
      BY <1>3, <2>1, <2>2, <2>3
  <1>6. rOpen' => rUsed' = asked'
    BY Zenon DEF IInv, QueueInv
  <1>7. ASSUME NEW i \in 1..Len(toProxy')
        PROVE  toProxy'[i].id \in asked' /\ Fresh(toProxy[i].id)'
    BY <1>5, <1>7 DEF Fresh
  <1>8. \A i, j \in 1..Len(toProxy') :
            i # j => toProxy'[i].id # toProxy'[j].id
    <2>1. \A i, j \in 1..Len(toProxy') : i # j => i + 1 # j + 1
      OBVIOUS
    <2> QED
      BY <1>1, <2>1 DEF IInv, QueueInv
  <1> QED
    BY <1>2, <1>4, <1>6, <1>7, <1>8, Zenon DEF QueueInv

\* proxy_receive refuses a request the card was never commanded for, or takes
\* it into an empty slot.
LEMMA ProxyReceiveKeeps ==
    ASSUME IInv, TypeOK', proxy_receive
    PROVE  IInv'
  <1> DEFINE req == Head(toProxy)
             refusal == admission_refusal(req.id)
  <1>0. /\ toProxy # <<>> /\ Requester
        /\ UNCHANGED <<rOpen, rLive, rUsed, outcomes, asked, card>>
    BY RequesterStays DEF proxy_receive
  <1>1. CASE EndProxy /\ NoReply
    BY <1>0, <1>1, EndProxyKeeps
  <1>2. req \in Requests
    BY <1>0, TailElements DEF IInv, TypeOK
  <1>3. req.id \in Ids
    BY <1>2 DEF Requests
  <1>4. ASSUME NEW type \in {"error", "result"},
               NEW status \in Refusals \cup {"rejected"},
               Refuse(type, req.id, status), pLive' = pLive,
               toProxy' = Tail(toProxy)
        PROVE  IInv'
    <2>1. answered' = [answered EXCEPT ![req.id] = @ + 1]
          /\ answered \in [Ids -> Nat]
      BY <1>4, Zenon DEF Refuse, Reply, IInv, TypeOK
    <2>2. OnlyTouches(req.id)
      BY <1>0, <1>3, <2>1 DEF OnlyTouches, card
    <2>3. QueueInv' /\ Fresh(req.id)
      BY <1>0, <1>3, <1>4, <2>2, HeadTaken
    <2>4. answered[req.id] = 0 /\ answered'[req.id] = 1 /\ commands[req.id] = 0
      BY <1>3, <2>1, <2>3 DEF Fresh
    <2>5. SendsSound(req.id)
      <3>1. PICK m \in Answers :
                /\ m = Answer(type, req.id, status, "unsupported", 0)
                /\ toRequester' = Append(toRequester, m)
        BY <1>3, <1>4 DEF Refuse, Reply, Answer, Answers, Statuses, Kinds
      <3>2. m.id = req.id /\ m.status = status
        BY <3>1 DEF Answer
      <3>3. Sound(m.id, m.status, m.kind)'
        BY <1>0, <2>4, <3>2, Zenon DEF Sound, card, Refusals
      <3> QED
        BY <3>1, <3>3 DEF SendsSound
    <2>6. LiveInv'
      <3>1. ASSUME pLive # None, pLive.stage # "Terminal"
            PROVE  answered'[pLive.id] = 0
        <4>1. pLive.id # req.id /\ pLive.id \in Ids /\ answered[pLive.id] = 0
          BY <2>3, <3>1, Zenon DEF Fresh, IInv, LiveInv, TypeOK, Transactions
        <4> QED
          BY <2>2, <4>1 DEF OnlyTouches
      <3> QED
        BY <1>0, <1>4, <3>1 DEF IInv, LiveInv, card
    <2> QED
      <3>1. commands'[req.id] <= 1 /\ answered'[req.id] <= 1
        BY <1>0, <2>4 DEF card
      <3>2. /\ AnswerInv' /\ OutcomeInv'
            /\ CommandAtMostOnce' /\ AnsweredAtMostOnce'
        BY <1>0, <1>3, <2>2, <2>4, <2>5, <3>1, AnswersKept
      <3> QED
        BY <2>3, <2>6, <3>2 DEF IInv
  <1>5. ASSUME pLive' = prepare(req), NoReply, toProxy' = Tail(toProxy)
        PROVE  IInv'
    <2>1. OnlyTouches(req.id) /\ SendsSound(req.id)
      BY <1>0, <1>5 DEF OnlyTouches, SendsSound, NoReply, card
    <2>2. prepare(req) \in Transactions
      BY <1>2, ConstantsAssumption DEF prepare, Transactions, Requests, Stages
    <2>3. /\ pLive' # None /\ pLive'.id = req.id /\ pLive'.sigs = 0
          /\ pLive'.stage = "Requested"
      BY <1>5, <2>2, NoneAssumption DEF prepare
    <2>4. QueueInv' /\ Fresh(req.id) /\ req.id \in asked
      BY <1>0, <1>3, <1>5, <2>1, <2>3, HeadTaken, Zenon
    <2>5. LiveInv'
      BY <1>0, <1>5, <2>3, <2>4 DEF LiveInv, Fresh, NoReply, card
    <2>6. /\ answered[req.id] = 0 /\ answered'[req.id] <= 1
          /\ commands'[req.id] <= 1
      BY <1>0, <1>5, <2>4 DEF Fresh, NoReply, card
    <2> QED
      BY <1>0, <1>3, <2>1, <2>4, <2>5, <2>6, AnswersKept DEF IInv
  <1> QED
    <2>1. CASE /\ refusal # "OperationMemoryExhausted"
               /\ toProxy' = Tail(toProxy)
               /\ \/ /\ refusal # "admitted" /\ pLive' = pLive
                     /\ Refuse("error", req.id, refusal)
                  \/ pLive' = pLive /\ Refuse("result", req.id, "rejected")
                  \/ pLive' = pLive /\ Refuse("result", req.id, "unauthorized")
                  \/ pLive' = prepare(req) /\ NoReply
      <3>1. refusal \in Refusals \cup {"admitted"}
        BY <2>1 DEF admission_refusal, Refusals
      <3> QED
        BY <1>4, <1>5, <2>1, <3>1 DEF Refusals
    <2> QED
      BY <1>1, <2>1, Zenon DEF proxy_receive

\* begin sends a request under an identifier the session has not carried.
LEMMA BeginKeeps ==
    ASSUME IInv, TypeOK', NEW req \in Requests, begin(req)
    PROVE  IInv'
  <1>1. /\ UNCHANGED <<pLive, card, answered, toRequester, outcomes>>
        /\ asked' = asked \cup {req.id}
        /\ req.id \in Ids /\ asked \subseteq Ids
    BY DEF begin, NoReply, pVars, Requests, IInv, TypeOK
  <1>2. rOpen /\ rUsed = asked /\ req.id \notin asked
    BY Zenon DEF begin, IInv, QueueInv
  <1>3. Fresh(req.id)
    BY <1>1, <1>2, Zenon DEF IInv, QueueInv
  <1>4. ASSUME NEW id \in Ids, Fresh(id)
        PROVE  Fresh(id)'
    BY <1>1, <1>4 DEF Fresh, card
  <1>5. \A id \in Ids \ asked' : Fresh(id)'
    BY <1>1, <1>4 DEF IInv, QueueInv
  <1>6. rOpen' => rUsed' = asked'
    BY <1>2, Zenon DEF begin
  <1>7. \A i \in 1..Len(toProxy) :
            toProxy[i].id \in asked /\ toProxy[i].id \in Ids
            /\ Fresh(toProxy[i].id)
    BY <1>1 DEF IInv, QueueInv
  <1>8. /\ \A i \in 1..Len(toProxy') :
              \E id \in asked' : id = toProxy'[i].id /\ Fresh(id)'
        /\ \A i, j \in 1..Len(toProxy') :
              i # j => toProxy'[i].id # toProxy'[j].id
    <2>1. CASE toProxy' = toProxy
      BY <1>1, <1>4, <1>7, <2>1 DEF IInv, QueueInv
    <2>2. CASE toProxy' = Append(toProxy, req)
      <3>1. /\ Len(toProxy') = Len(toProxy) + 1
            /\ \A i \in 1..Len(toProxy) : toProxy'[i] = toProxy[i]
            /\ toProxy'[Len(toProxy) + 1] = req
            /\ Len(toProxy) \in Nat
        <4>1. toProxy \in Seq(Requests)
          BY DEF IInv, TypeOK
        <4>2. Len(toProxy) \in Nat
          BY <4>1
        <4> QED
          BY <2>2, <4>1, <4>2, AppendElements
      <3>2. \A i \in 1..Len(toProxy') :
                i \in 1..Len(toProxy) \/ i = Len(toProxy) + 1
        BY <3>1
      <3>3. \A i \in 1..Len(toProxy) : toProxy[i].id # req.id
        BY <1>2, <1>7
      <3>4. ASSUME NEW i \in 1..Len(toProxy')
            PROVE  \E id \in asked' : id = toProxy'[i].id /\ Fresh(id)'
        BY <1>1, <1>3, <1>4, <1>7, <3>1, <3>2, Zenon
      <3>5. ASSUME NEW i \in 1..Len(toProxy'), NEW j \in 1..Len(toProxy'),
                   i # j
            PROVE  toProxy'[i].id # toProxy'[j].id
        BY <3>1, <3>2, <3>3, <3>5, Zenon DEF IInv, QueueInv
      <3> QED
        BY <3>4, <3>5
    <2> QED
      BY <2>1, <2>2, Zenon DEF begin
  <1>9. ASSUME NEW i \in 1..Len(toProxy')
        PROVE  toProxy'[i].id \in asked' /\ Fresh(toProxy[i].id)'
    BY <1>8, <1>9 DEF Fresh
  <1>10. QueueInv'
    BY <1>5, <1>6, <1>8, <1>9 DEF QueueInv
  <1>11. LiveInv' /\ CommandAtMostOnce' /\ AnsweredAtMostOnce'
    BY <1>1, Zenon DEF IInv, LiveInv, card, CommandAtMostOnce, AnsweredAtMostOnce
  <1>12. AnswerInv' /\ OutcomeInv'
    BY <1>1, Zenon DEF IInv, AnswerInv, OutcomeInv, Sound, card
  <1> QED
    BY <1>10, <1>11, <1>12 DEF IInv

\* A step of the requester that leaves the custodian alone, takes answers only
\* from the head of its queue and reports only what they say.
LEMMA RequesterKeeps ==
    ASSUME IInv, TypeOK',
           UNCHANGED <<pLive, toProxy, asked, card, answered>>,
           rOpen' => rOpen /\ rUsed' = rUsed,
           \A i \in 1..Len(toRequester') :
              \E j \in 1..Len(toRequester) : toRequester'[i] = toRequester[j],
           \A o \in outcomes' : Sound(o.id, o.status, o.kind)
    PROVE  IInv'
  <1>1. QueueInv'
    <2>1. rOpen' => rUsed' = asked'
      BY Zenon DEF IInv, QueueInv
    <2> QED
      BY <2>1, Zenon DEF IInv, QueueInv, Fresh, card
  <1>2. LiveInv' /\ CommandAtMostOnce' /\ AnsweredAtMostOnce'
    BY Zenon DEF IInv, LiveInv, card, CommandAtMostOnce, AnsweredAtMostOnce
  <1>3. OutcomeInv'
    BY Zenon DEF OutcomeInv, Sound, card
  <1>4. ASSUME NEW i \in 1..Len(toRequester'), toRequester'[i].type # "progress"
        PROVE  LET m == toRequester[i] IN Sound(m.id, m.status, m.kind)'
    <2>1. PICK j \in 1..Len(toRequester) : toRequester'[i] = toRequester[j]
      OBVIOUS
    <2>2. LET m == toRequester[j] IN Sound(m.id, m.status, m.kind)
      BY <1>4, <2>1, Zenon DEF IInv, AnswerInv
    <2> QED
      BY <2>1, <2>2, Zenon DEF Sound, card
  <1>5. AnswerInv'
    BY <1>4, Zenon DEF AnswerInv
  <1> QED
    BY <1>1, <1>2, <1>3, <1>5 DEF IInv

\* The requester's receive, cancel and end keep the invariant.
LEMMA RequesterEndKeeps ==
    ASSUME IInv, TypeOK',
           cancel \/ requester_receive \/ requester_session_closed
    PROVE  IInv'
  <1>1. \A o \in outcomes : Sound(o.id, o.status, o.kind)
    BY DEF IInv, OutcomeInv
  <1>2. CASE cancel
    BY <1>1, <1>2, RequesterKeeps DEF cancel, pVars, NoReply
  <1>3. ASSUME EndRequester, UNCHANGED <<pVars, toProxy, asked, card, answered,
                                         outcomes>>
        PROVE  IInv'
    <2>1. Len(toRequester') = 0
      BY <1>3 DEF EndRequester
    <2>2. ~rOpen'
      BY <1>3, Zenon DEF EndRequester
    <2> QED
      BY <1>1, <1>3, <2>1, <2>2, RequesterKeeps DEF pVars
  <1>4. CASE requester_session_closed
    BY <1>3, <1>4 DEF requester_session_closed
  <1>5. CASE requester_receive
    <2> DEFINE m == Head(toRequester)
    <2>1. /\ UNCHANGED <<pLive, toProxy, asked, card, answered>>
          /\ UNCHANGED pVars
          /\ rOpen /\ toRequester # <<>>
      BY <1>5, Zenon DEF requester_receive, pVars
    <2>2. /\ m = toRequester[1] /\ 1 \in 1..Len(toRequester)
          /\ \A i \in 1..Len(Tail(toRequester)) :
                i + 1 \in 1..Len(toRequester)
                /\ Tail(toRequester)[i] = toRequester[i + 1]
      BY <2>1, TailElements DEF IInv, TypeOK
    <2>3. CASE toRequester' = Tail(toRequester)
               /\ UNCHANGED <<rOpen, rUsed, outcomes>>
      BY <1>1, <2>1, <2>2, <2>3, RequesterKeeps
    <2>4. CASE /\ answers_live(m) /\ valid_result(m)
               /\ toRequester' = Tail(toRequester)
               /\ outcomes' = outcomes \cup {[id |-> m.id, kind |-> rLive.kind,
                                              status |-> m.status]}
               /\ UNCHANGED <<rOpen, rUsed>>
      <3>1. Sound(m.id, m.status, m.kind)
        BY <2>2, <2>4, Zenon DEF IInv, AnswerInv, answers_live
      <3>2. Sound(m.id, m.status, rLive.kind)
        BY <2>4, <3>1, Zenon DEF valid_result, validate_for, Sound
      <3>3. ASSUME NEW o \in outcomes'
            PROVE  Sound(o.id, o.status, o.kind)
        <4> DEFINE new == [id |-> m.id, kind |-> rLive.kind,
                           status |-> m.status]
        <4>1. CASE o \in outcomes
          BY <1>1, <4>1
        <4>2. new.id = m.id /\ new.kind = rLive.kind /\ new.status = m.status
          BY Zenon
        <4>3. CASE o = new
          BY <3>2, <4>2, <4>3, Zenon
        <4> HIDE DEF new
        <4> QED
          BY <2>4, <4>1, <4>3, Zenon DEF new
      <3> QED
        BY <2>1, <2>2, <2>4, <3>3, RequesterKeeps
    <2>5. CASE EndRequester /\ UNCHANGED outcomes
      BY <1>3, <2>1, <2>5
    <2> QED
      BY <1>5, <2>3, <2>4, <2>5, Zenon DEF requester_receive, rVars
  <1> QED
    BY <1>2, <1>4, <1>5

-----------------------------------------------------------------------------
\* Every initial state satisfies the invariant.
LEMMA InvInit == Init => IInv
  <1> SUFFICES ASSUME Init PROVE IInv
    OBVIOUS
  <1>1. Len(toProxy) = 0 /\ Len(toRequester) = 0
    BY DEF Init
  <1>2. rUsed = asked
    BY DEF Init
  <1>3. QueueInv
    <2>1. \A id \in Ids : Fresh(id)
      BY DEF Init, Fresh
    <2>2. 1..Len(toProxy) = {}
      BY <1>1
    <2> QED
      BY <1>2, <2>1, <2>2 DEF QueueInv
  <1>4. LiveInv /\ OutcomeInv
    BY DEF Init, LiveInv, OutcomeInv
  <1>5. AnswerInv
    <2>1. 1..Len(toRequester) = {}
      BY <1>1
    <2> QED
      BY <2>1, Zenon DEF AnswerInv
  <1>6. CommandAtMostOnce /\ AnsweredAtMostOnce
    BY DEF Init, CommandAtMostOnce, AnsweredAtMostOnce
  <1> QED
    BY <1>3, <1>4, <1>5, <1>6, TypeInit DEF IInv

\* Every step keeps the invariant.
LEMMA InvNext == IInv /\ [Next]_vars => IInv'
  <1> SUFFICES ASSUME IInv, [Next]_vars PROVE IInv'
    OBVIOUS
  <1>1. CASE UNCHANGED vars
    <2>1. TypeOK'
      BY <1>1, TypeUnchanged DEF IInv
    <2> QED
      BY <1>1, <2>1, NothingKeeps DEF vars, rVars, pVars
  <1>2. CASE RequesterStep
    <2>1. TypeOK'
      BY <1>2, TypeRequester DEF IInv
    <2> QED
      BY <1>2, <2>1, BeginKeeps, RequesterEndKeeps DEF RequesterStep
  <1>3. CASE ProxyStep
    <2>0. TypeOK'
      BY <1>3, TypeProxy DEF IInv
    <2>1. CASE proxy_receive
      BY <2>0, <2>1, ProxyReceiveKeeps
    <2>2. CASE holder_approves
      BY <2>0, <2>2, NothingKeeps, RequesterStays
         DEF holder_approves, pVars, NoReply
    <2>3. CASE \E a \in approvals : approve(a)
      BY <2>0, <2>3, ApproveKeeps
    <2>4. CASE \E id \in Ids :
                 \/ prerequisites_complete(id)
                 \/ finish_failure(id)
                 \/ \E kind \in Kinds \ {"unsupported"} :
                       finish_completed(id, kind)
                 \/ record_batch_signature(id)
                 \/ report_progress(id)
      BY <2>0, <2>4, PrerequisitesKeep, FailureKeeps, CompletedKeeps,
         SignatureKeeps, ProgressKeeps
    <2>5. CASE expire_due
      BY <2>0, <2>5, ExpireKeeps
    <2>6. CASE proxy_session_closed
      BY <2>0, <2>6, EndProxyKeeps DEF proxy_session_closed
    <2>7. CASE Tick
      BY <2>0, <2>7, TickKeeps
    <2> QED
      BY <1>3, <2>1, <2>2, <2>3, <2>4, <2>5, <2>6, <2>7 DEF ProxyStep
  <1> QED
    BY <1>1, <1>2, <1>3 DEF Next

\* The inductive invariant holds in every reachable state.
THEOREM Invariant == Spec => []IInv
  BY InvInit, InvNext, PTL DEF Spec

\* ExecuteCardCommand and ExecuteSafeRead are handed out at most once per
\* operation, for any identifiers, lifetimes and bounds.
THEOREM OneCommand == Spec => []CommandAtMostOnce
  <1>1. IInv => CommandAtMostOnce
    BY DEF IInv
  <1> QED
    BY <1>1, Invariant, PTL

\* An operation reported completed was commanded once, with the holder's
\* approval where a private key is used and one signature per document.
THEOREM CompletedIsTrue == Spec => []CompletedWasCommanded
  <1>1. IInv => CompletedWasCommanded
    BY DEF IInv, OutcomeInv, Sound, CompletedWasCommanded, is_consequential
  <1> QED
    BY <1>1, Invariant, PTL

\* An operation reported expired, busy, duplicate or unauthorized is never
\* commanded to the card, before the report or after it.
THEOREM RefusalIsFinal == Spec => []RefusedNeverCommanded
  <1>1. IInv => RefusedNeverCommanded
    BY DEF IInv, OutcomeInv, Sound, RefusedNeverCommanded
  <1> QED
    BY <1>1, Invariant, PTL

\* What the requester reports of an operation is what happened at the card.
THEOREM ReportTrue == Spec => []ReportIsTrue
  BY CompletedIsTrue, RefusalIsFinal, PTL DEF ReportIsTrue

\* No operation identifier gets two results or errors.
THEOREM OneAnswer == Spec => []AnsweredAtMostOnce
  <1>1. IInv => AnsweredAtMostOnce
    BY DEF IInv
  <1> QED
    BY <1>1, Invariant, PTL

\* A live operation leaves the custodian's slot only by its result or by the
\* end of the session.
THEOREM NotDisplaced == Spec => LiveNotDisplaced
  <1>1. ASSUME TypeOK, [Next]_vars
        PROVE  [LiveKept]_vars
    <2> SUFFICES ASSUME Next, pLive # None, ~is_terminal(pLive), pOpen'
                 PROVE  pLive' # None /\ pLive'.id = pLive.id
      BY <1>1 DEF LiveKept
    <2>0. pLive \in Transactions
      BY <1>1 DEF TypeOK
    <2>1. ASSUME NEW stage \in Stages, pLive' = [pLive EXCEPT !.stage = stage]
          PROVE  pLive' # None /\ pLive'.id = pLive.id
      BY <2>0, <2>1, StageChange
    <2>2. CASE UNCHANGED pLive
      BY <2>2
    <2>3. CASE RequesterStep
      BY <2>2, <2>3, Zenon DEF RequesterStep, begin, cancel, requester_receive,
                        requester_session_closed, pVars
    <2>4. CASE proxy_receive
      <3>1. admission_refusal(Head(toProxy).id) # "admitted"
        BY DEF admission_refusal
      <3>2. CASE ~pOpen'
        BY <3>2, Zenon
      <3> QED
        BY <2>2, <2>4, <3>1, <3>2, Zenon DEF proxy_receive, EndProxy
    <2>5. CASE holder_approves \/ \E id \in Ids : report_progress(id)
      BY <2>2, <2>5, Zenon DEF holder_approves, report_progress, pVars
    <2>6. CASE \E a \in approvals : approve(a)
      BY <2>1, <2>2, <2>6 DEF approve, Finish, Stages
    <2>7. CASE \E id \in Ids : prerequisites_complete(id)
      BY <2>1, <2>7 DEF prerequisites_complete, Finish, Stages
    <2>8. CASE \E id \in Ids :
                 \/ finish_failure(id)
                 \/ \E kind \in Kinds \ {"unsupported"} :
                       finish_completed(id, kind)
      BY <2>1, <2>8, Zenon DEF finish_failure, finish_completed, Finish, Stages
    <2>9. CASE \E id \in Ids : record_batch_signature(id)
      <3>1. /\ pLive' = [pLive EXCEPT !.sigs = @ + 1]
            /\ pLive' \in Transactions
        BY <2>0, <2>9 DEF record_batch_signature, Transactions
      <3> QED
        BY <2>0, <3>1, NoneAssumption DEF Transactions
    <2>10. CASE expire_due
      BY <2>1, <2>10 DEF expire_due, Finish, Stages
    <2>11. CASE proxy_session_closed
      <3>1. ~pOpen'
        BY <2>11, Zenon DEF proxy_session_closed, EndProxy
      <3> QED
        BY <3>1, Zenon
    <2>12. CASE Tick
      <3>1. pLive.elapsed \in 0..(MaxLifetime + 1)
        BY <2>0 DEF Transactions
      <3>2. pLive.elapsed + 1 \in 0..(MaxLifetime + 1)
        BY <2>12, <3>1, ConstantsAssumption DEF Tick
      <3>3. pLive' = [pLive EXCEPT !.elapsed = @ + 1] /\ pLive' \in Transactions
        BY <2>0, <2>12, <3>2 DEF Tick, Transactions
      <3> QED
        BY <2>0, <3>3, NoneAssumption DEF Transactions
    <2> QED
      BY <2>3, <2>4, <2>5, <2>6, <2>7, <2>8, <2>9, <2>10, <2>11, <2>12
         DEF Next, ProxyStep
  <1> QED
    BY <1>1, TypeCorrect, PTL DEF Spec, LiveNotDisplaced
==============================================================================
