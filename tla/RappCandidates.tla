--------------------------- MODULE RappCandidates ---------------------------
(***************************************************************************)
(* PairingCandidates: the ledger of the custodians in pairing mode that a  *)
(* requester tries with one typed code.  Discovery finds endpoints; the    *)
(* platform opens the ones the ledger hands out, one at a time, and        *)
(* reports how each connection ended.  Several endpoints may reach one     *)
(* custodian, over different transports: they serve the same offer.        *)
(*                                                                         *)
(* The requester's monotonic clock only ever meets the waits of busy       *)
(* answers.                                                                *)
(***************************************************************************)
EXTENDS Naturals, Sequences, FiniteSets, FiniteSetsExt

CONSTANTS
    Endpoints,      \* endpoints discovery can find
    Offers,         \* offers of the custodians
    OfferOf,        \* [Endpoints -> Offers]: what a connection serves
    CandidatesMax,  \* PAIRING_CANDIDATES_MAX
    RetryAfter,     \* waits a busy answer asks for
    MaxTime         \* bound of the clock and of the waits

CandidatesAssumption ==
    /\ OfferOf \in [Endpoints -> Offers]
    /\ CandidatesMax \in Nat \ {0}
    /\ RetryAfter \subseteq Nat
    /\ MaxTime \in Nat

Phases == {"Closed", "Opened", "Trying", "Accepted", "NotAccepted"}

\* EndpointStatus: the time is that of Deferred's earliest reopening.
Statuses == [kind : {"Waiting", "Open", "Deferred", "Done"}, notBefore : Nat]
Status(kind) == [kind |-> kind, notBefore |-> 0]
Deferred(time) == [kind |-> "Deferred", notBefore |-> time]

\* What the platform was last told: NextCandidate and NextEndpoint::Exhausted.
Reports == {"none", "Try", "Deferred", "NotAccepted", "NoneTried", "Exhausted"}

VARIABLES
    candidates,    \* sequence of endpoints found and their status
    openings,      \* pairing connections opened, reopenings included
    tried,         \* offers CPace ran on
    busy_answered, \* a custodian answered pairing-busy
    phase,         \* CandidatePhase
    clock,         \* the requester's monotonic clock
    report,        \* history: what the platform was last told
    guesses        \* history: [Offers -> tries that were not given back]

ledger == <<candidates, openings, tried, busy_answered, phase>>
vars == <<ledger, clock, report, guesses>>

-----------------------------------------------------------------------------
is_settled == phase \in {"Accepted", "NotAccepted"}

At(kind) == {i \in DOMAIN candidates : candidates[i].status.kind = kind}

\* The endpoint of the open connection.
Connected == CHOOSE i \in At("Open") : TRUE

recorded(e) == \E i \in DOMAIN candidates : candidates[i].endpoint = e

\* found: an endpoint beyond the limit, or already recorded, is ignored.
found(e) ==
    /\ candidates' =
         IF is_settled \/ Len(candidates) >= CandidatesMax \/ recorded(e)
         THEN candidates
         ELSE Append(candidates, [endpoint |-> e, status |-> Status("Waiting")])
    /\ UNCHANGED <<openings, tried, busy_answered, phase, clock, report,
                   guesses>>

\* The endpoint to open now: the first never opened, otherwise the deferred
\* one whose wait passed first, and nothing while no wait has passed.
Openable ==
    IF At("Waiting") # {} THEN {Min(At("Waiting"))}
    ELSE {i \in At("Deferred") :
            LET time(j) == candidates[j].status.notBefore
            IN  /\ time(i) <= clock
                /\ \A j \in At("Deferred") :
                      time(i) < time(j) \/ (time(i) = time(j) /\ i <= j)}

within_limit == openings < CandidatesMax

marked_open(i) == [candidates EXCEPT ![i].status = Status("Open")]

\* next_endpoint: nothing changes when it answers NotBefore or Exhausted.
next_endpoint ==
    /\ phase = "Closed"
    /\ \/ /\ within_limit /\ Openable # {}
          /\ \E i \in Openable : candidates' = marked_open(i)
          /\ openings' = openings + 1
          /\ phase' = "Opened"
          /\ report' = "none"
       \/ /\ ~within_limit \/ At("Waiting") \cup At("Deferred") = {}
          /\ report' = "Exhausted"
          /\ UNCHANGED <<candidates, openings, phase>>
    /\ UNCHANGED <<tried, busy_answered, clock, guesses>>

\* Mutation: the offer tried before is tried again.
untried_Always(offer) == TRUE

untried(offer) == \A i \in DOMAIN tried : tried[i] # offer

\* begin_try: refused when CPace already ran on the offer.
begin_try ==
    /\ phase = "Opened"
    /\ LET offer == OfferOf[candidates[Connected].endpoint]
       IN  /\ untried(offer)
           /\ tried' = Append(tried, offer)
           /\ guesses' = [guesses EXCEPT ![offer] = @ + 1]
    /\ phase' = "Trying"
    /\ UNCHANGED <<candidates, openings, busy_answered, clock, report>>

\* Mutation: an endpoint that waits after a busy answer does not count as left.
left_Unopened(list) == \E i \in DOMAIN list : list[i].status.kind = "Waiting"

\* An endpoint is left to open.
left(list) == \E i \in DOMAIN list : list[i].status.kind # "Done"

\* end_connection with the endpoint's new status, then after_connection with
\* the offers tried and whether a busy answer was had by then.
after_connection(status, next, offers, busy) ==
    LET list == [candidates EXCEPT ![Connected].status = status]
        outcome == IF left(list) /\ within_limit THEN next
                   ELSE IF offers = <<>> /\ ~busy THEN "NoneTried"
                   ELSE "NotAccepted"
    IN  /\ candidates' = list
        /\ tried' = offers
        /\ busy_answered' = busy
        /\ report' = outcome
        /\ phase' = IF outcome = "NotAccepted" THEN "NotAccepted" ELSE "Closed"
        /\ UNCHANGED <<openings, clock>>

\* closed: the connection ended without the custodian taking the code.
closed ==
    /\ phase \in {"Opened", "Trying"}
    /\ after_connection(Status("Done"), "Try", tried, busy_answered)
    /\ UNCHANGED guesses

\* A busy answer is not a try: a CPace begun on the connection gives its
\* offer back.
given_back == IF phase = "Trying" THEN SubSeq(tried, 1, Len(tried) - 1) ELSE tried

\* busy: the custodian asked for a wait.
busy(retry) ==
    /\ phase \in {"Opened", "Trying"}
    /\ clock + retry <= MaxTime
    /\ after_connection(Deferred(clock + retry), "Deferred", given_back, TRUE)
    /\ guesses' = IF phase = "Trying"
                  THEN [guesses EXCEPT ![tried[Len(tried)]] = @ - 1] ELSE guesses

\* accepted: the custodian proved that it holds the code.
accepted ==
    /\ phase = "Trying"
    /\ phase' = "Accepted"
    /\ UNCHANGED <<candidates, openings, tried, busy_answered, clock, report,
                   guesses>>

Tick ==
    /\ clock < MaxTime
    /\ clock' = clock + 1
    /\ UNCHANGED <<ledger, report, guesses>>

-----------------------------------------------------------------------------
Init ==
    /\ candidates = <<>>
    /\ openings = 0
    /\ tried = <<>>
    /\ busy_answered = FALSE
    /\ phase = "Closed"
    /\ clock = 0
    /\ report = "none"
    /\ guesses = [offer \in Offers |-> 0]

ConnectionEnds == closed \/ accepted \/ \E retry \in RetryAfter : busy(retry)

Next ==
    \/ \E e \in Endpoints : found(e)
    \/ next_endpoint
    \/ begin_try
    \/ ConnectionEnds
    \/ Tick

Spec == Init /\ [][Next]_vars

-----------------------------------------------------------------------------
\* Every variable has its type, and exactly a connection that is open has an
\* open endpoint, which Connected then names.
TypeOK ==
    /\ candidates \in Seq([endpoint : Endpoints, status : Statuses])
    /\ openings \in Nat
    /\ tried \in Seq(Offers)
    /\ busy_answered \in BOOLEAN
    /\ phase \in Phases
    /\ clock \in Nat
    /\ report \in Reports
    /\ guesses \in [Offers -> Nat]
    /\ phase \in {"Opened", "Trying"} => At("Open") # {}

\* Each custodian gets at most one guess of the code, whatever busy answers
\* give a try back and however many endpoints reach it (begin_try, busy).
OneGuessPerCustodian == \A offer \in Offers : guesses[offer] <= 1

\* The search began.  It is over with an accepted code, or with a report that
\* leaves no endpoint to open: each was tried, or all connections were used.
Begun == candidates # <<>>
Over ==
    \/ phase = "Accepted"
    \/ /\ phase = "NotAccepted" \/ report \in {"NoneTried", "Exhausted"}
       /\ At("Waiting") \cup At("Deferred") = {} \/ openings = CandidatesMax
==============================================================================
