-------------------------- MODULE RappPairing_proof --------------------------
(***************************************************************************)
(* Proofs about RappPairing, for any requesters, codes, grants, windows and *)
(* bounds: the spacing of the guesses, and that a confirmed record was      *)
(* stored by both sides of one pairing with one set of grants.              *)
(***************************************************************************)
EXTENDS RappPairing, TLAPS

Phases == {"none", "Offer", "Cpace", "Handshake", "Confirmation", "Storage",
           "Completed", "Expired", "Failed"}
Working == {"Cpace", "Handshake", "Confirmation", "Storage"}
Keyed == {"Handshake", "Confirmation", "Storage"}

\* The phases before the confirmation
Early == {"none", "Offer", "Cpace", "Handshake"}

Args == BOOLEAN \cup Nat \cup Grants \cup {None}
Kinds == {"offer", "step1", "step2", "step3", "noise", "hello", "confirmation", "stored"}
Frames == {f \in [type : Kinds, arg : Args] : f.type = "confirmation" => f.arg \in Grants}
Bridges ==
    [phase : Phases, deadline : Nat, step : Nat, peer : Sides \cup {None}, conn : Nat,
     hello_sent : BOOLEAN, peer_hello : BOOLEAN,
     local_grants : Grants \cup {None}, peer_grants : Grants \cup {None},
     stored_sent : BOOLEAN, peer_stored : BOOLEAN]
Links == [up : BOOLEAN, conn : Nat, toC : Seq(Frames), toR : Seq(Frames)]

\* The variables' types
TypeOK ==
    /\ now \in Nat \ {0}
    /\ typed \in [Requesters -> BOOLEAN]
    /\ bridge \in [Sides -> Bridges]
    /\ slot \in [consumed : BOOLEAN, active : Nat, last : Nat]
    /\ link \in [Requesters -> Links]
    /\ opened \in Nat /\ guesses \in Nat
    /\ DOMAIN vault = Sides /\ DOMAIN wrote = Sides

-----------------------------------------------------------------------------
(* The invariant behind GuessesSpaced *)

\* An attempt the rate limit admitted and the custodian has not answered yet
Pending == bridge[Custodian].phase = "Cpace" /\ bridge[Custodian].step \in {1, 2}

\* The rate limit's last admission pays for every guess, the pending one included
SpacingInv ==
    /\ slot.last <= now
    /\ slot.last = Never => guesses = 0 /\ ~Pending
    /\ slot.last # Never =>
          guesses + (IF Pending THEN 1 ELSE 0) <= (slot.last - 1) \div Spacing + 1

-----------------------------------------------------------------------------
(* The invariant behind ConfirmedTogether *)

\* The frames of a queue
In(q) == {q[i] : i \in 1..Len(q)}

\* What side s sent on the connection of r, and the side that reads it
Out(s, r) == IF s = Custodian THEN link[r].toR ELSE link[r].toC
Peer(s, r) == IF s = Custodian THEN r ELSE Custodian

\* The bridge of s works on connection c with requester r
OnIt(s, r, c) == bridge[s].phase \in Working /\ Wire(s) = r /\ bridge[s].conn = c

\* Side s stored a record of the pairing on connection c with r
Holds(s, r, c, g) == <<<<r, c>>, g>> \in wrote[s]

\* A side's bridge in each phase: the connection and the grants exist while the
\* phase needs them, the two grants agree, and a side stores once
BridgeInv(s) ==
    LET b == bridge[s] IN
    /\ b.conn <= opened
    /\ b.phase \in Working => (s = Custodian => b.peer \in Requesters)
    /\ b.phase \notin Working => b.peer_grants = None
    /\ b.phase \in Early => b.local_grants = None /\ b.peer_grants = None
    /\ b.phase # "Storage" => ~b.peer_stored
    /\ b.local_grants # None /\ b.peer_grants # None => b.local_grants = b.peer_grants
    /\ b.phase \in Early \cup {"Confirmation"} => wrote[s] = {}
    /\ vault[s] = NoRecord => wrote[s] = {}
    /\ b.phase = "Storage" =>
          /\ b.local_grants # None /\ b.peer_grants # None
          /\ vault[s] = [pair |-> <<Wire(s), b.conn>>, grants |-> b.local_grants,
                         state |-> "unconfirmed"]
          /\ Holds(s, Wire(s), b.conn, b.local_grants)

\* The PAKE: only a requester that typed the custodian's code gets past it, and
\* the custodian gets past it only with such a requester
CodeInv ==
    /\ \A r \in Requesters :
          /\ \A f \in In(link[r].toR) : f.type = "step2" /\ f.arg => typed[r]
          /\ \A f \in In(link[r].toC) : f.type = "step3" => typed[r]
          /\ bridge[r].phase = "Cpace" /\ bridge[r].step = 3 => typed[r]
          /\ bridge[r].phase \in Keyed => typed[r]
    /\ bridge[Custodian].phase \in Keyed => typed[bridge[Custodian].peer]

\* A connection before the requester took its offer: nothing was sent on it, and
\* the custodian does not work on it
FreshInv(r) ==
    /\ link[r].conn <= opened
    /\ ~link[r].up => link[r] = Down
    /\ bridge[r].phase = "none" /\ link[r].up =>
          link[r].toC = <<>> /\ ~OnIt(Custodian, r, link[r].conn)

\* A side that has not reached the confirmation sent none, and none of its
\* grants is known to a peer
EarlyInv(s, r) ==
    bridge[s].phase \in Early \ (IF s = Custodian THEN {} ELSE {"Offer"}) =>
        /\ \A f \in In(Out(s, r)) : f.type \notin {"confirmation", "stored"}
        /\ s = Custodian => bridge[r].peer_grants = None

\* What s sent about its grants and its record is so
SentInv(s, r) ==
    \A f \in In(Out(s, r)) :
        /\ f.type = "confirmation" =>
              /\ OnIt(s, r, link[r].conn) => f.arg = bridge[s].local_grants
              /\ \A g \in Grants : Holds(s, r, link[r].conn, g) => g = f.arg
        /\ f.type = "stored" => \E g \in Grants : Holds(s, r, link[r].conn, g)

\* What the peer of s believes about s is so
KnownInv(s, r) ==
    LET p == bridge[Peer(s, r)] IN
    OnIt(Peer(s, r), r, p.conn) =>
        /\ p.peer_grants # None =>
              /\ OnIt(s, r, p.conn) => bridge[s].local_grants = p.peer_grants
              /\ \A g \in Grants : Holds(s, r, p.conn, g) => g = p.peer_grants
        /\ p.peer_stored => Holds(s, r, p.conn, p.local_grants)

PairInv(r) ==
    /\ FreshInv(r)
    /\ \A s \in {r, Custodian} : EarlyInv(s, r) /\ SentInv(s, r) /\ KnownInv(s, r)

\* The confirmed records
RecordInv ==
    /\ \A s \in Sides : vault[s].state = "confirmed" => vault[s].pair[1] \in Requesters
    /\ ConfirmedTogether

TogetherInv ==
    /\ \A s \in Sides : BridgeInv(s)
    /\ \A r \in Requesters : PairInv(r)
    /\ RecordInv

IInv ==
    /\ TypeOK
    /\ SpacingInv
    /\ CodeInv
    /\ TogetherInv

-----------------------------------------------------------------------------
\* One spacing later there is room for one guess more.
LEMMA RoomForOne ==
    ASSUME NEW a \in Nat, NEW b \in Nat, NEW n \in Nat \ {0}, a + n <= b
    PROVE  a \div n + 1 <= b \div n
  OBVIOUS

\* The number of whole spacings in a time grows with the time.
LEMMA RoomGrows ==
    ASSUME NEW a \in Nat, NEW b \in Nat, NEW n \in Nat \ {0}, a <= b
    PROVE  a \div n \in Nat /\ b \div n \in Nat /\ a \div n <= b \div n
  OBVIOUS

\* The frames of a queue after one is appended.
LEMMA AppendIn ==
    ASSUME NEW q \in Seq(Frames), NEW f \in Frames
    PROVE  Append(q, f) \in Seq(Frames) /\ In(Append(q, f)) = In(q) \cup {f}
  BY DEF In

\* The frames of a queue after its head is taken.
LEMMA TailIn ==
    ASSUME NEW q \in Seq(Frames), q # <<>>
    PROVE  /\ Head(q) \in In(q) /\ Head(q) \in Frames
           /\ Tail(q) \in Seq(Frames) /\ In(Tail(q)) \subseteq In(q)
  BY DEF In

\* An empty wire holds no frame.
LEMMA EmptyIn == <<>> \in Seq(Frames) /\ In(<<>>) = {}
  BY DEF In

-----------------------------------------------------------------------------
(* What a step does to the connections *)

\* Connection l became m: it keeps its number or is closed, and gets at most the
\* frames C to the custodian and R to the requester
Grown(l, m, C, R) ==
    \/ m = Down
    \/ /\ m.up = l.up /\ m.conn = l.conn
       /\ In(m.toC) \subseteq In(l.toC) \cup C
       /\ In(m.toR) \subseteq In(l.toR) \cup R
       /\ l.toC = <<>> /\ C = {} => m.toC = <<>>
       /\ ~l.up => m = l

\* The connections after a step of side s that sends at most the frames F
LinkStep(s, F) ==
    /\ link' \in [Requesters -> Links]
    /\ \A r \in Requesters :
          Grown(link[r], link'[r], IF s = r THEN F ELSE {},
                IF s = Custodian /\ Wire(s) = r THEN F ELSE {})

\* A connection that did not change grew by nothing.
LEMMA SameGrown == ASSUME NEW l, NEW C, NEW R PROVE Grown(l, l, C, R)
  BY DEF Grown

\* A dropped connection is a link that is down and carries nothing.
LEMMA DownIsLink == Down \in Links /\ ~Down.up /\ In(Down.toC) = {} /\ In(Down.toR) = {}
  BY EmptyIn DEF Down, Links

\* A frame sent on the side's connection.
LEMMA SendStep ==
    ASSUME TypeOK, NEW s \in Sides, NEW f \in Frames, Connected(s), Send(s, f)
    PROVE  LinkStep(s, {f})
  <1> DEFINE w == Wire(s)
  <1>1. w \in Requesters /\ link[w] \in Links /\ (s # Custodian => w = s) /\ link[w].up
    BY DEF TypeOK, Connected, Wire
  <1>2. link' = [link EXCEPT ![w] = Sent(link[w], s, f)]
    BY DEF Send
  <1>3. CASE s = Custodian
    <2>1. link'[w] = [link[w] EXCEPT !.toR = Append(link[w].toR, f)]
      BY <1>1, <1>2, <1>3 DEF Sent, TypeOK
    <2>2. Append(link[w].toR, f) \in Seq(Frames)
          /\ In(Append(link[w].toR, f)) = In(link[w].toR) \cup {f}
      BY <1>1, AppendIn DEF Links
    <2>3. link'[w] \in Links
      BY <1>1, <2>1, <2>2, Zenon DEF Links
    <2>4. link' \in [Requesters -> Links]
      BY <1>1, <1>2, <2>3 DEF TypeOK
    <2>5. Grown(link[w], link'[w], {}, {f})
      BY <1>1, <2>1, <2>2, Zenon DEF Grown, Links
    <2>6. \A r \in Requesters : r # w => link'[r] = link[r]
      BY <1>1, <1>2 DEF TypeOK
    <2>7. \A r \in Requesters : s # r
      BY <1>3, SidesAssumption
    <2> QED
      BY <1>3, <2>4, <2>5, <2>6, <2>7, SameGrown DEF LinkStep
  <1>4. CASE s # Custodian
    <2>1. link'[w] = [link[w] EXCEPT !.toC = Append(link[w].toC, f)]
      BY <1>1, <1>2, <1>4 DEF Sent, TypeOK
    <2>2. Append(link[w].toC, f) \in Seq(Frames)
          /\ In(Append(link[w].toC, f)) = In(link[w].toC) \cup {f}
      BY <1>1, AppendIn DEF Links
    <2>3. link'[w] \in Links
      BY <1>1, <2>1, <2>2, Zenon DEF Links
    <2>4. link' \in [Requesters -> Links]
      BY <1>1, <1>2, <2>3 DEF TypeOK
    <2>5. Grown(link[w], link'[w], {f}, {})
      BY <1>1, <2>1, <2>2, Zenon DEF Grown, Links
    <2>6. \A r \in Requesters : r # w => link'[r] = link[r]
      BY <1>1, <1>2 DEF TypeOK
    <2> QED
      BY <1>1, <1>4, <2>4, <2>5, <2>6, SameGrown DEF LinkStep
  <1> QED
    BY <1>3, <1>4

\* The next frame taken from the side's connection: the peer had sent it.
LEMMA TakeStep ==
    ASSUME TypeOK, NEW s \in Sides, Connected(s), Inbox(s) # <<>>, Take(s)
    PROVE  /\ LinkStep(s, {})
           /\ Head(Inbox(s)) \in Frames
           /\ Head(Inbox(s)) \in In(Out(Peer(s, Wire(s)), Wire(s)))
  <1> DEFINE w == Wire(s)
  <1>1. w \in Requesters /\ link[w] \in Links /\ (s # Custodian => w = s) /\ link[w].up
        /\ w # Custodian
    BY SidesAssumption DEF TypeOK, Connected, Wire
  <1>2. link' = [link EXCEPT ![w] = Taken(link[w], s)]
    BY DEF Take
  <1>3. CASE s = Custodian
    <2>1. link'[w] = [link[w] EXCEPT !.toC = Tail(link[w].toC)] /\ Inbox(s) = link[w].toC
      BY <1>1, <1>2, <1>3 DEF Taken, TypeOK, Inbox
    <2>2. /\ Head(Inbox(s)) \in In(link[w].toC) /\ Head(Inbox(s)) \in Frames
          /\ Tail(link[w].toC) \in Seq(Frames)
          /\ In(Tail(link[w].toC)) \subseteq In(link[w].toC)
      BY <1>1, <2>1, TailIn DEF Links
    <2>3. link'[w] \in Links
      BY <1>1, <2>1, <2>2, Zenon DEF Links
    <2>4. link' \in [Requesters -> Links]
      BY <1>1, <1>2, <2>3 DEF TypeOK
    <2>5. Head(Inbox(s)) \in In(Out(Peer(s, w), w))
      BY <1>1, <1>3, <2>2 DEF Out, Peer
    <2>6. Grown(link[w], link'[w], {}, {})
      BY <1>1, <2>1, <2>2, Zenon DEF Grown, Links
    <2>7. \A r \in Requesters : r # w => link'[r] = link[r]
      BY <1>1, <1>2 DEF TypeOK
    <2>8. LinkStep(s, {})
      BY <2>4, <2>6, <2>7, SameGrown DEF LinkStep
    <2> QED
      BY <2>2, <2>5, <2>8
  <1>4. CASE s # Custodian
    <2>1. link'[w] = [link[w] EXCEPT !.toR = Tail(link[w].toR)] /\ Inbox(s) = link[w].toR
      BY <1>1, <1>2, <1>4 DEF Taken, TypeOK, Inbox
    <2>2. /\ Head(Inbox(s)) \in In(link[w].toR) /\ Head(Inbox(s)) \in Frames
          /\ Tail(link[w].toR) \in Seq(Frames)
          /\ In(Tail(link[w].toR)) \subseteq In(link[w].toR)
      BY <1>1, <2>1, TailIn DEF Links
    <2>3. link'[w] \in Links
      BY <1>1, <2>1, <2>2, Zenon DEF Links
    <2>4. link' \in [Requesters -> Links]
      BY <1>1, <1>2, <2>3 DEF TypeOK
    <2>5. Head(Inbox(s)) \in In(Out(Peer(s, w), w))
      BY <1>1, <1>4, <2>2 DEF Out, Peer
    <2>6. Grown(link[w], link'[w], {}, {})
      BY <1>1, <2>1, <2>2, Zenon DEF Grown, Links
    <2>7. \A r \in Requesters : r # w => link'[r] = link[r]
      BY <1>1, <1>2 DEF TypeOK
    <2>8. LinkStep(s, {})
      BY <2>4, <2>6, <2>7, SameGrown DEF LinkStep
    <2> QED
      BY <2>2, <2>5, <2>8
  <1> QED
    BY <1>3, <1>4

\* A connection closed, or none touched.
LEMMA CloseStep ==
    ASSUME TypeOK, NEW s \in Sides, UNCHANGED link \/ \E r \in Requesters : HangUp(r)
    PROVE  LinkStep(s, {})
  BY DownIsLink DEF LinkStep, HangUp, TypeOK, Grown

\* The state a side enters an offer or a connection with is a bridge state.
LEMMA NewBridgeType ==
    ASSUME NEW p \in Phases, NEW d \in Nat
    PROVE  NewBridge(p, d) \in Bridges
  BY DEF NewBridge, Bridges, None

-----------------------------------------------------------------------------
(* The types *)

\* The frames the sides send.
LEMMA FrameType ==
    ASSUME NEW t \in Kinds, NEW a \in Args, t = "confirmation" => a \in Grants
    PROVE  Frame(t, a) \in Frames
  BY DEF Frame, Frames

\* The frames of the ceremony that carry grants or a step number are frames.
LEMMA FrameTypes ==
    ASSUME TypeOK
    PROVE  /\ \A t \in Kinds \ {"confirmation"} : Frame(t, None) \in Frames
           /\ \A t \in Kinds, g \in Grants : Frame(t, g) \in Frames
           /\ \A s \in Sides : Frame("noise", bridge[s].step + 1) \in Frames
  <1>1. None \in Args /\ Grants \subseteq Args
    BY DEF Args
  <1>2. \A s \in Sides : bridge[s].step + 1 \in Nat
    BY DEF TypeOK, Bridges
  <1>3. \A s \in Sides : bridge[s].step + 1 \in Args
    BY <1>2, Zenon DEF Args
  <1> QED
    BY <1>1, <1>3, FrameType DEF Kinds

\* So are the frames of the code exchange, which carry whether the code was right.
LEMMA CodeFrameTypes ==
    ASSUME TypeOK
    PROVE  /\ \A r \in Requesters :
                 Frame("step1", typed[r]) \in Frames /\ Frame("step2", typed[r]) \in Frames
           /\ Frame("step3", TRUE) \in Frames
  <1>1. TRUE \in Args /\ \A r \in Requesters : typed[r] \in Args
    BY Zenon DEF Args, TypeOK
  <1>2. \A t \in {"step1", "step2", "step3"} : t \in Kinds /\ t # "confirmation"
    BY DEF Kinds
  <1> QED
    BY <1>1, <1>2, FrameType, Zenon

\* The deadlines are times.
LEMMA Deadlines ==
    ASSUME TypeOK
    PROVE  /\ now + OfferTtl \in Nat /\ now + HandshakeWindow \in Nat
           /\ now + ConfirmWindow \in Nat /\ AttemptDeadline \in Nat
  <1>1. bridge[Custodian].deadline \in Nat
    BY DEF TypeOK, Sides, Bridges
  <1> QED
    BY <1>1, WindowsAssumption DEF TypeOK, AttemptDeadline

\* A step that gives side s the bridge b.
LEMMA BridgeType ==
    ASSUME TypeOK, NEW s \in Sides, NEW b \in Bridges, bridge' = [bridge EXCEPT ![s] = b]
    PROVE  bridge' \in [Sides -> Bridges]
  BY DEF TypeOK

\* A side ends its ceremony.
LEMMA EndedType ==
    ASSUME TypeOK, NEW s \in Sides, NEW p \in Phases, Ended(s, p)
    PROVE  /\ bridge' \in [Sides -> Bridges]
           /\ \E d \in Nat : bridge' = [bridge EXCEPT ![s] = NewBridge(p, d)]
  <1> DEFINE d == IF p = "Offer" THEN bridge[s].deadline ELSE 0
  <1>1. d \in Nat /\ bridge' = [bridge EXCEPT ![s] = NewBridge(p, d)]
    BY DEF Ended, TypeOK, Bridges
  <1> QED
    BY <1>1, NewBridgeType, BridgeType, Zenon

\* The bridge state a side enters the handshake with is a bridge state.
LEMMA HandshakeType ==
    ASSUME TypeOK, NEW s \in Sides
    PROVE  Handshake(s) \in Bridges
  <1>1. bridge[s] \in Bridges /\ now + HandshakeWindow \in Nat
    BY Deadlines DEF TypeOK
  <1> QED
    BY <1>1, Zenon DEF Handshake, Bridges, Phases

\* The types hold before anything is sent.
LEMMA TypeInit == Init => TypeOK
  <1> SUFFICES ASSUME Init PROVE TypeOK
    OBVIOUS
  <1>1. 1 + OfferTtl \in Nat
    BY WindowsAssumption
  <1>2. bridge \in [Sides -> Bridges]
    BY <1>1, NewBridgeType DEF Init, Phases
  <1>3. link \in [Requesters -> Links]
    BY DownIsLink DEF Init
  <1> QED
    BY <1>2, <1>3, SidesAssumption DEF Init, TypeOK, Never

\* A requester's steps keep the types.
LEMMA RequesterTypes ==
    ASSUME TypeOK, NEW r \in Requesters, RequesterStep(r)
    PROVE  TypeOK'
  <1> r \in Sides
    BY DEF Sides
  <1>1. CASE bootstrap_bytes(r)
    <2>1. bridge' \in [Sides -> Bridges]
      BY <1>1, NewBridgeType, BridgeType, Zenon DEF bootstrap_bytes, Phases
    <2>2. opened + 1 \in Nat /\ <<Frame("offer", None)>> \in Seq(Frames)
      BY FrameTypes DEF TypeOK, Kinds
    <2>3. [Down EXCEPT !.up = TRUE, !.conn = opened + 1, !.toR = <<Frame("offer", None)>>]
             \in Links
      BY <2>2, EmptyIn, Zenon DEF Links, Down
    <2>4. link' \in [Requesters -> Links]
      BY <1>1, <2>3 DEF bootstrap_bytes, TypeOK
    <2> QED
      BY <1>1, <2>1, <2>2, <2>4 DEF bootstrap_bytes, TypeOK
  <1>2. CASE from_bootstrap(r)
    <2>1. [NewBridge("Cpace", now + OfferTtl)
             EXCEPT !.step = 1, !.peer = Custodian, !.conn = link[r].conn] \in Bridges
      BY Deadlines, Zenon DEF NewBridge, Bridges, TypeOK, Links, Phases, None, Sides
    <2>2. bridge' \in [Sides -> Bridges]
      BY <1>2, <2>1, BridgeType, Zenon DEF from_bootstrap
    <2>3. Frame("step1", typed[r]) \in Frames
      BY CodeFrameTypes DEF Kinds
    <2>4. link[r] \in Links /\ link[r].toR # <<>> /\ r # Custodian
      BY <1>2, SidesAssumption DEF from_bootstrap, TypeOK
    <2>5. /\ Append(link[r].toC, Frame("step1", typed[r])) \in Seq(Frames)
          /\ Tail(link[r].toR) \in Seq(Frames)
      BY <2>3, <2>4, AppendIn, TailIn DEF Links
    <2>6. Sent(Taken(link[r], r), r, Frame("step1", typed[r])) \in Links
      BY <2>4, <2>5, Zenon DEF Sent, Taken, Links
    <2> QED
      BY <1>2, <2>2, <2>6 DEF from_bootstrap, TypeOK
  <1>3. CASE begin_cpace(r)
    <2>1. [NewBridge("Cpace", bridge[Custodian].deadline)
             EXCEPT !.step = 1, !.peer = r, !.conn = link[r].conn] \in Bridges
      BY Zenon DEF NewBridge, Bridges, TypeOK, Links, Phases, None, Sides
    <2>2. bridge' \in [Sides -> Bridges]
      BY <1>3, <2>1 DEF begin_cpace, TypeOK, Sides
    <2>3. link' \in [Requesters -> Links]
      BY <1>3, CloseStep DEF begin_cpace, LinkStep
    <2>4. slot' \in [consumed : BOOLEAN, active : Nat, last : Nat]
      BY <1>3 DEF begin_cpace, TypeOK
    <2> QED
      BY <1>3, <2>2, <2>3, <2>4 DEF begin_cpace, TypeOK
  <1>4. CASE read_step2(r)
    <2>1. bridge' \in [Sides -> Bridges]
      BY <1>4, EndedType DEF read_step2, TypeOK, Bridges, Phases
    <2>2. link' \in [Requesters -> Links]
      BY <1>4, CloseStep, TakeStep DEF read_step2, LinkStep, NextIs
    <2> QED
      BY <1>4, <2>1, <2>2 DEF read_step2, TypeOK
  <1>5. CASE write_step3(r)
    <2>1. bridge' \in [Sides -> Bridges]
      BY <1>5, HandshakeType, BridgeType, Zenon DEF write_step3
    <2>2. link' \in [Requesters -> Links]
      BY <1>5, SendStep, CodeFrameTypes, Zenon DEF write_step3, LinkStep
    <2> QED
      BY <1>5, <2>1, <2>2 DEF write_step3, TypeOK
  <1>6. CASE link_lost(r)
    BY <1>6, CloseStep DEF link_lost, TypeOK, LinkStep
  <1> QED
    BY <1>1, <1>2, <1>3, <1>4, <1>5, <1>6 DEF RequesterStep

\* The custodian's code steps and the clock keep the types.
LEMMA CustodianTypes ==
    ASSUME TypeOK, read_step1 \/ write_step2 \/ read_step3 \/ Tick
    PROVE  TypeOK'
  <1> DEFINE c == Custodian
  <1>1. c \in Sides /\ bridge[c] \in Bridges /\ bridge[c].deadline \in Nat /\ bridge[c].conn \in Nat
    BY DEF Sides, TypeOK, Bridges
  <1>2. \A d \in Nat : [slot EXCEPT !.active = d] \in [consumed : BOOLEAN, active : Nat, last : Nat]
    BY DEF TypeOK
  <1>3. custodian_attempt_failed =>
          /\ bridge' \in [Sides -> Bridges]
          /\ slot' \in [consumed : BOOLEAN, active : Nat, last : Nat]
    BY <1>1, <1>2, NewBridgeType, BridgeType, Zenon DEF custodian_attempt_failed, Phases, Never
  <1>4. CASE read_step1
    <2>1. bridge' \in [Sides -> Bridges]
      <3>1. [bridge[c] EXCEPT !.step = 2] \in Bridges
        BY <1>1 DEF Bridges
      <3> QED
        BY <1>1, <1>4, <3>1, NewBridgeType, BridgeType DEF read_step1, Phases
    <2>2. link' \in [Requesters -> Links]
      BY <1>1, <1>4, CloseStep, TakeStep DEF read_step1, LinkStep, NextIs, Connected
    <2>3. slot' \in [consumed : BOOLEAN, active : Nat, last : Nat]
      BY <1>2, <1>4, Deadlines DEF read_step1, TypeOK
    <2> QED
      BY <1>4, <2>1, <2>2, <2>3 DEF read_step1, TypeOK
  <1>5. CASE write_step2
    <2>1. bridge' \in [Sides -> Bridges]
      <3>1. [bridge[c] EXCEPT !.step = 3] \in Bridges
        BY <1>1 DEF Bridges
      <3> QED
        BY <1>1, <1>3, <1>5, <3>1, BridgeType DEF write_step2
    <2>2. bridge[c].peer \in Requesters => Frame("step2", typed[bridge[c].peer]) \in Frames
      BY CodeFrameTypes DEF Kinds
    <2>3. link' \in [Requesters -> Links]
      BY <1>1, <1>5, <2>2, CloseStep, SendStep, Zenon DEF write_step2, LinkStep, Connected, Wire
    <2>4. slot' \in [consumed : BOOLEAN, active : Nat, last : Nat] /\ guesses' \in Nat
      BY <1>3, <1>5 DEF write_step2, TypeOK
    <2> QED
      BY <1>5, <2>1, <2>3, <2>4 DEF write_step2, TypeOK
  <1>6. CASE read_step3
    <2>1. bridge' \in [Sides -> Bridges]
      BY <1>1, <1>3, <1>6, HandshakeType, BridgeType DEF read_step3
    <2>2. link' \in [Requesters -> Links]
      BY <1>1, <1>6, CloseStep, TakeStep DEF read_step3, LinkStep, NextIs, Connected
    <2>3. slot' \in [consumed : BOOLEAN, active : Nat, last : Nat]
      <3>1. [slot EXCEPT !.active = Never, !.consumed = TRUE]
               \in [consumed : BOOLEAN, active : Nat, last : Nat]
        BY Zenon DEF TypeOK, Never
      <3> QED
        BY <1>3, <1>6, <3>1, Zenon DEF read_step3
    <2> QED
      BY <1>6, <2>1, <2>2, <2>3 DEF read_step3, TypeOK
  <1>7. CASE Tick
    BY <1>7 DEF Tick, TypeOK
  <1> QED
    BY <1>4, <1>5, <1>6, <1>7

\* The steps both sides have (handshake, grants, vault) keep the types.
LEMMA SideTypes ==
    ASSUME TypeOK, NEW s \in Sides, SideStep(s)
    PROVE  TypeOK'
  <1>1. bridge[s] \in Bridges /\ bridge[s].step + 1 \in Nat /\ bridge[s].deadline \in Nat
    BY DEF TypeOK, Bridges
  <1>2. CASE require_live_offer(s)
    BY <1>2, NewBridgeType, BridgeType DEF require_live_offer, AfterDeadline, Phases, TypeOK
  <1>3. CASE candidate_failed(s)
    <2>1. bridge' \in [Sides -> Bridges]
      BY <1>1, <1>3, EndedType, NewBridgeType, BridgeType
         DEF candidate_failed, custodian_attempt_failed, Phases
    <2>2. slot' \in [consumed : BOOLEAN, active : Nat, last : Nat]
      BY <1>3 DEF candidate_failed, custodian_attempt_failed, TypeOK, Never
    <2> QED
      BY <1>3, <2>1, <2>2 DEF candidate_failed, TypeOK
  <1>4. CASE cancel_pairing(s)
    BY <1>4, EndedType DEF cancel_pairing, Phases, TypeOK
  <1>5. CASE write_handshake_frame(s)
    <2>1. [bridge[s] EXCEPT !.step = bridge[s].step + 1] \in Bridges
      BY <1>1, Deadlines DEF Bridges, Phases
    <2>2. bridge' \in [Sides -> Bridges]
      BY <1>5, <2>1, BridgeType, Zenon DEF write_handshake_frame
    <2>3. link' \in [Requesters -> Links]
      BY <1>5, SendStep, FrameTypes, Zenon DEF write_handshake_frame, LinkStep, Kinds
    <2> QED
      BY <1>5, <2>2, <2>3 DEF write_handshake_frame, TypeOK
  <1>6. CASE read_handshake_frame(s)
    <2>1. [bridge[s] EXCEPT !.step = bridge[s].step + 1] \in Bridges
      BY <1>1, Deadlines DEF Bridges, Phases
    <2>2. bridge' \in [Sides -> Bridges]
      BY <1>6, <2>1, BridgeType, Zenon DEF read_handshake_frame
    <2>3. link' \in [Requesters -> Links]
      BY <1>6, TakeStep DEF read_handshake_frame, LinkStep, NextIs
    <2> QED
      BY <1>6, <2>2, <2>3 DEF read_handshake_frame, TypeOK
  <1>7. CASE enter_confirmation(s)
    <2>1. [bridge[s] EXCEPT !.phase = "Confirmation", !.deadline = now + ConfirmWindow] \in Bridges
      BY <1>1, Deadlines, Zenon DEF Bridges, Phases
    <2>2. bridge' \in [Sides -> Bridges]
      BY <1>7, <2>1, BridgeType, ZenonT(60) DEF enter_confirmation
    <2> QED
      BY <1>7, <2>2 DEF enter_confirmation, TypeOK
  <1>8. CASE send_hello(s)
    <2>1. [bridge[s] EXCEPT !.hello_sent = TRUE] \in Bridges
      BY <1>1, Deadlines, Zenon DEF Bridges, Phases
    <2>2. bridge' \in [Sides -> Bridges]
      BY <1>8, <2>1, BridgeType, Zenon DEF send_hello
    <2>3. link' \in [Requesters -> Links]
      BY <1>8, SendStep, FrameTypes, Zenon DEF send_hello, LinkStep, Kinds
    <2> QED
      BY <1>8, <2>2, <2>3 DEF send_hello, TypeOK
  <1>9. CASE receive_hello(s)
    <2>1. [bridge[s] EXCEPT !.peer_hello = TRUE] \in Bridges
      BY <1>1, Deadlines, Zenon DEF Bridges, Phases
    <2>2. bridge' \in [Sides -> Bridges]
      BY <1>9, <2>1, BridgeType, Zenon DEF receive_hello
    <2>3. link' \in [Requesters -> Links]
      BY <1>9, TakeStep DEF receive_hello, LinkStep, NextIs
    <2> QED
      BY <1>9, <2>2, <2>3 DEF receive_hello, TypeOK
  <1>10. CASE send_stored(s)
    <2>1. [bridge[s] EXCEPT !.stored_sent = TRUE] \in Bridges
      BY <1>1, Deadlines, Zenon DEF Bridges, Phases
    <2>2. bridge' \in [Sides -> Bridges]
      BY <1>10, <2>1, BridgeType, Zenon DEF send_stored
    <2>3. link' \in [Requesters -> Links]
      BY <1>10, SendStep, FrameTypes, Zenon DEF send_stored, LinkStep, Kinds
    <2> QED
      BY <1>10, <2>2, <2>3 DEF send_stored, TypeOK
  <1>11. CASE receive_stored(s)
    <2>1. [bridge[s] EXCEPT !.peer_stored = TRUE] \in Bridges
      BY <1>1, Deadlines, Zenon DEF Bridges, Phases
    <2>2. bridge' \in [Sides -> Bridges]
      BY <1>11, <2>1, BridgeType, Zenon DEF receive_stored
    <2>3. link' \in [Requesters -> Links]
      BY <1>11, TakeStep DEF receive_stored, LinkStep, NextIs
    <2> QED
      BY <1>11, <2>2, <2>3 DEF receive_stored, TypeOK
  <1>12. ASSUME NEW grants \in Grants, send_confirmation(s, grants)
         PROVE  TypeOK'
    <2>1. [bridge[s] EXCEPT !.local_grants = grants] \in Bridges
      BY <1>1 DEF Bridges
    <2>2. bridge' \in [Sides -> Bridges]
      BY <1>12, <2>1, BridgeType, EndedType DEF send_confirmation, Phases
    <2>3. link' \in [Requesters -> Links]
      BY <1>12, SendStep, FrameTypes, Zenon DEF send_confirmation, LinkStep, Kinds, TypeOK
    <2> QED
      BY <1>12, <2>2, <2>3 DEF send_confirmation, TypeOK
  <1>13. CASE receive_confirmation(s)
    <2>1. link' \in [Requesters -> Links]
      BY <1>13, TakeStep DEF receive_confirmation, LinkStep, NextIs
    <2>2. Head(Inbox(s)).arg \in Grants
      BY <1>13, TakeStep DEF receive_confirmation, NextIs, Frames
    <2>3. [bridge[s] EXCEPT !.peer_grants = Head(Inbox(s)).arg] \in Bridges
      BY <1>1, <2>2 DEF Bridges
    <2>4. bridge' \in [Sides -> Bridges]
      BY <1>13, <2>3, BridgeType, EndedType DEF receive_confirmation, Phases
    <2> QED
      BY <1>13, <2>1, <2>4 DEF receive_confirmation, TypeOK
  <1>14. CASE build_pair_record(s)
    <2>1. [bridge[s] EXCEPT !.phase = "Storage"] \in Bridges
      BY <1>1 DEF Bridges, Phases
    <2>2. bridge' \in [Sides -> Bridges]
      BY <1>14, <2>1, BridgeType, EndedType DEF build_pair_record, Phases
    <2> QED
      BY <1>14, <2>2 DEF build_pair_record, TypeOK
  <1>15. CASE activate_pairing(s)
    BY <1>15, EndedType DEF activate_pairing, Phases, TypeOK
  <1>16. CASE revoke_unconfirmed(s)
    BY <1>16 DEF revoke_unconfirmed, TypeOK
  <1> QED
    BY <1>2, <1>3, <1>4, <1>5, <1>6, <1>7, <1>8, <1>9, <1>10, <1>11, <1>12, <1>13, <1>14,
       <1>15, <1>16 DEF SideStep

\* Every step keeps the types.
LEMMA TypeNext == TypeOK /\ [Next]_vars => TypeOK'
  BY RequesterTypes, CustodianTypes, SideTypes DEF Next, vars, TypeOK

-----------------------------------------------------------------------------
(* The spacing of the guesses *)

\* A step that admits and answers nothing keeps the account.
LEMMA SpacingKept ==
    ASSUME TypeOK, SpacingInv, now' = now, slot'.last = slot.last, guesses' = guesses,
           Pending' => Pending
    PROVE  SpacingInv'
  <1>1. slot.last \in Nat /\ guesses \in Nat /\ now \in Nat
    BY DEF TypeOK
  <1>2. slot.last # Never => (slot.last - 1) \div Spacing \in Nat
    BY <1>1, WindowsAssumption, RoomGrows DEF Never
  <1>3. slot.last # Never =>
          guesses + (IF Pending' THEN 1 ELSE 0) <= (slot.last - 1) \div Spacing + 1
    BY <1>1, <1>2 DEF SpacingInv
  <1> QED
    BY <1>1, <1>3 DEF SpacingInv

\* Every step keeps guesses within the spacing: only begin_cpace admits one.
LEMMA SpacingNext ==
    ASSUME TypeOK, SpacingInv, [Next]_vars
    PROVE  SpacingInv'
  <1> DEFINE c == Custodian
  <1>1. c \in Sides /\ DOMAIN bridge = Sides /\ c \notin Requesters
        /\ slot \in [consumed : BOOLEAN, active : Nat, last : Nat]
        /\ now \in Nat \ {0} /\ guesses \in Nat /\ Spacing \in Nat \ {0}
        /\ bridge[c].step \in Nat
    BY SidesAssumption, WindowsAssumption DEF Sides, TypeOK, Bridges
  <1>13. bridge \in [Sides -> Bridges] /\ bridge[c] \in Bridges
    BY DEF Sides, TypeOK
  <1>14. ASSUME NEW s \in Sides, NEW b, bridge' = [bridge EXCEPT ![s] = b], s # c
           PROVE  Pending' => Pending
    BY <1>1, <1>14 DEF Pending
  <1>2. ASSUME NEW s \in Sides, NEW p \in Phases \ {"Cpace"}, NEW d,
               bridge' = [bridge EXCEPT ![s] = NewBridge(p, d)]
        PROVE  Pending' => Pending
    BY <1>1, <1>2 DEF Pending, NewBridge
  <1>3. ASSUME custodian_attempt_failed
        PROVE  slot'.last = slot.last /\ (Pending' => Pending)
    BY <1>1, <1>2, <1>3, Zenon DEF custodian_attempt_failed, Phases
  <1>4. ASSUME NEW s \in Sides, NEW p \in Phases \ {"Cpace"}, Ended(s, p)
        PROVE  Pending' => Pending
    BY <1>2, <1>4, Zenon DEF Ended
  <1>5. ASSUME NEW r \in Requesters, RequesterStep(r), ~begin_cpace(r)
        PROVE  SpacingInv'
    <2>1. r \in Sides /\ r # c
      BY <1>1 DEF Sides
    <2>2. link_lost(r) \/ \E b : bridge' = [bridge EXCEPT ![r] = b]
      BY <1>5, Zenon DEF RequesterStep, bootstrap_bytes, from_bootstrap, read_step2, write_step3, Ended
    <2>3. Pending' => Pending
      BY <1>14, <2>1, <2>2 DEF link_lost, Pending
    <2> QED
      BY <1>5, <2>3, SpacingKept, Zenon
         DEF RequesterStep, bootstrap_bytes, from_bootstrap, read_step2, write_step3, link_lost
  <1>6. ASSUME NEW r \in Requesters, begin_cpace(r)
        PROVE  SpacingInv'
    <2>1. CASE At(c, "Offer") /\ spaced
      <3>1. slot'.last = now /\ now' = now /\ guesses' = guesses
        BY <1>1, <1>6, <2>1 DEF begin_cpace
      <3>2. ~Pending
        BY <2>1 DEF At, Pending
      <3>3. slot.last = Never => guesses + 1 <= (now - 1) \div Spacing + 1
        BY <1>1, <3>2, RoomGrows DEF SpacingInv
      <3>4. slot.last # Never => guesses + 1 <= (now - 1) \div Spacing + 1
        <4> SUFFICES ASSUME slot.last # Never
                     PROVE  guesses + 1 <= (now - 1) \div Spacing + 1
          OBVIOUS
        <4>1. slot.last - 1 \in Nat /\ now - 1 \in Nat /\ slot.last - 1 + Spacing <= now - 1
          BY <1>1, <2>1 DEF spaced, Never, SpacingInv
        <4>2. (slot.last - 1) \div Spacing + 1 <= (now - 1) \div Spacing
          BY <1>1, <4>1, RoomForOne, Zenon
        <4>3. guesses <= (slot.last - 1) \div Spacing + 1
          BY <1>1, <3>2 DEF SpacingInv
        <4>4. (slot.last - 1) \div Spacing \in Nat /\ (now - 1) \div Spacing \in Nat
          BY <1>1, <4>1, RoomGrows
        <4> QED
          BY <1>1, <4>2, <4>3, <4>4
      <3>5. guesses + (IF Pending' THEN 1 ELSE 0) <= (now - 1) \div Spacing + 1
        BY <1>1, <3>3, <3>4, RoomGrows
      <3> QED
        BY <1>1, <3>1, <3>5 DEF SpacingInv, Never
    <2>2. CASE ~(At(c, "Offer") /\ spaced)
      BY <1>6, <2>2, SpacingKept DEF begin_cpace, Pending
    <2> QED
      BY <2>1, <2>2
  <1>7. CASE read_step1
    <2>1. Pending' => Pending
      BY <1>1, <1>7 DEF read_step1, Pending, At
    <2>2. slot'.last = slot.last
      BY <1>1, <1>7 DEF read_step1
    <2> QED
      BY <1>7, <2>1, <2>2, SpacingKept DEF read_step1
  <1>8. CASE write_step2
    <2>1. CASE attempt_is_live
      <3>1. Pending /\ ~Pending'
        BY <1>1, <1>13, <1>8, <2>1 DEF write_step2, Pending, At, Bridges
      <3> QED
        BY <1>1, <1>8, <2>1, <3>1 DEF write_step2, SpacingInv, Never
    <2>2. CASE ~attempt_is_live
      BY <1>3, <1>8, <2>2, SpacingKept DEF write_step2
    <2> QED
      BY <2>1, <2>2
  <1>9. CASE read_step3
    <2>1. slot'.last = slot.last /\ (Pending' => Pending)
      <3>1. CASE attempt_is_live
        <4>1. /\ slot' = [slot EXCEPT !.active = Never, !.consumed = TRUE]
              /\ bridge' = [bridge EXCEPT ![c] = Handshake(c)]
          BY <1>9, <3>1 DEF read_step3
        <4>2. bridge'[c] = Handshake(c) /\ Handshake(c).phase = "Handshake"
          BY <1>1, <1>13, <4>1 DEF Handshake, Bridges
        <4> QED
          BY <1>1, <4>1, <4>2 DEF Pending
      <3>2. CASE ~attempt_is_live
        BY <1>3, <1>9, <3>2 DEF read_step3
      <3> QED
        BY <3>1, <3>2
    <2> QED
      BY <1>9, <2>1, SpacingKept DEF read_step3
  <1>10. CASE Tick
    BY <1>1, <1>10 DEF Tick, SpacingInv, Pending
  <1>11. ASSUME NEW s \in Sides, SideStep(s)
         PROVE  SpacingInv'
    <2>1. CASE require_live_offer(s) \/ candidate_failed(s) \/ cancel_pairing(s)
      <3>1. slot'.last = slot.last /\ (Pending' => Pending)
        BY <1>2, <1>3, <1>4, <2>1
           DEF require_live_offer, candidate_failed, cancel_pairing, AfterDeadline, Phases
      <3> QED
        BY <2>1, <3>1, SpacingKept DEF require_live_offer, candidate_failed, cancel_pairing
    <2>2. CASE write_handshake_frame(s) \/ read_handshake_frame(s) \/ enter_confirmation(s)
               \/ send_hello(s) \/ receive_hello(s) \/ send_stored(s) \/ receive_stored(s)
      <3>1. Pending' => Pending
        <4>1. CASE s # c
          BY <1>14, <2>2, <4>1
             DEF write_handshake_frame, read_handshake_frame, enter_confirmation, send_hello,
                 receive_hello, send_stored, receive_stored
        <4>2. CASE s = c
          BY <1>1, <1>13, <2>2, <4>2
             DEF write_handshake_frame, read_handshake_frame, enter_confirmation, send_hello,
                 receive_hello, send_stored, receive_stored, Pending, At, Bridges
        <4> QED
          BY <4>1, <4>2
      <3> QED
        BY <2>2, <3>1, SpacingKept
           DEF write_handshake_frame, read_handshake_frame, enter_confirmation, send_hello,
               receive_hello, send_stored, receive_stored
    <2>3. CASE (\E grants \in Grants : send_confirmation(s, grants)) \/ receive_confirmation(s)
               \/ build_pair_record(s) \/ activate_pairing(s) \/ revoke_unconfirmed(s)
      <3>1. Pending' => Pending
        <4>1. CASE \E p \in {"Failed", "Completed"} : Ended(s, p)
          BY <1>4, <4>1 DEF Phases
        <4>2. CASE UNCHANGED bridge
          BY <4>2 DEF Pending
        <4>3. CASE ~(\E p \in {"Failed", "Completed"} : Ended(s, p)) /\ bridge' # bridge
          <5>1. bridge[s].phase = "Confirmation"
                /\ \E b : bridge' = [bridge EXCEPT ![s] = b] /\ b.phase # "Cpace"
            BY <1>13, <2>3, <4>3
               DEF send_confirmation, receive_confirmation, build_pair_record, activate_pairing,
                   revoke_unconfirmed, At, Bridges
          <5> QED
            BY <1>1, <5>1 DEF Pending
        <4> QED
          BY <4>1, <4>2, <4>3
      <3> QED
        BY <2>3, <3>1, SpacingKept
           DEF send_confirmation, receive_confirmation, build_pair_record, activate_pairing,
               revoke_unconfirmed
    <2> QED
      BY <1>11, <2>1, <2>2, <2>3 DEF SideStep
  <1>12. CASE UNCHANGED vars
    BY <1>12, SpacingKept DEF vars, Pending
  <1> QED
    BY <1>5, <1>6, <1>7, <1>8, <1>9, <1>10, <1>11, <1>12 DEF Next

-----------------------------------------------------------------------------
(* The code *)

\* A step that moves no side past the PAKE, and sends no proof of the code.
LEMMA CodeKept ==
    ASSUME TypeOK, CodeInv, typed' = typed,
           NEW s \in Sides, NEW F, LinkStep(s, F), \A f \in F : f.type \notin {"step2", "step3"},
           NEW b, bridge' = [bridge EXCEPT ![s] = b],
           b.phase \in Keyed => bridge[s].phase \in Keyed /\ b.peer = bridge[s].peer,
           s # Custodian /\ b.phase = "Cpace" /\ b.step = 3 =>
               bridge[s].phase = "Cpace" /\ bridge[s].step = 3
    PROVE  CodeInv'
  <1>1. Custodian \in Sides /\ Custodian \notin Requesters /\ Requesters \subseteq Sides
    BY SidesAssumption DEF Sides
  <1>2. \A t \in Sides : bridge'[t] = IF t = s THEN b ELSE bridge[t]
    BY DEF TypeOK
  <1>3. ASSUME NEW r \in Requesters
        PROVE  /\ \A f \in In(link'[r].toR) : f.type = "step2" /\ f.arg => typed[r]
               /\ \A f \in In(link'[r].toC) : f.type = "step3" => typed[r]
    <2>1. CASE link'[r] = Down
      BY <2>1, DownIsLink
    <2>2. CASE link'[r] # Down
      <3>1. /\ In(link'[r].toC) \subseteq In(link[r].toC) \cup F
            /\ In(link'[r].toR) \subseteq In(link[r].toR) \cup F
        BY <2>2 DEF LinkStep, Grown
      <3> QED
        BY <3>1 DEF CodeInv
    <2> QED
      BY <2>1, <2>2
  <1>4. ASSUME NEW r \in Requesters
        PROVE  /\ bridge'[r].phase = "Cpace" /\ bridge'[r].step = 3 => typed[r]
               /\ bridge'[r].phase \in Keyed => typed[r]
    BY <1>1, <1>2 DEF CodeInv
  <1>5. bridge'[Custodian].phase \in Keyed => typed[bridge'[Custodian].peer]
    BY <1>1, <1>2 DEF CodeInv
  <1> QED
    BY <1>3, <1>4, <1>5, Zenon DEF CodeInv

\* A step of a requester that typed the code.
LEMMA CodePassed ==
    ASSUME TypeOK, CodeInv, typed' = typed,
           NEW s \in Requesters, typed[s],
           NEW F, LinkStep(s, F), \A f \in F : f.type = "step3",
           NEW b, bridge' = [bridge EXCEPT ![s] = b]
    PROVE  CodeInv'
  <1>1. Custodian \in Sides /\ Custodian \notin Requesters /\ Requesters \subseteq Sides
        /\ s # Custodian
    BY SidesAssumption DEF Sides
  <1>2. \A t \in Sides : t # s => bridge'[t] = bridge[t]
    BY DEF TypeOK
  <1>3. ASSUME NEW r \in Requesters
        PROVE  /\ \A f \in In(link'[r].toR) : f.type = "step2" /\ f.arg => typed[r]
               /\ \A f \in In(link'[r].toC) : f.type = "step3" => typed[r]
    <2>1. CASE link'[r] = Down
      BY <2>1, DownIsLink
    <2>2. CASE link'[r] # Down
      <3>1. /\ r # s => In(link'[r].toC) \subseteq In(link[r].toC)
            /\ In(link'[r].toR) \subseteq In(link[r].toR)
        BY <1>1, <2>2, Zenon DEF LinkStep, Grown
      <3> QED
        BY <3>1, Zenon DEF CodeInv
    <2> QED
      BY <2>1, <2>2
  <1>4. ASSUME NEW r \in Requesters
        PROVE  /\ bridge'[r].phase = "Cpace" /\ bridge'[r].step = 3 => typed[r]
               /\ bridge'[r].phase \in Keyed => typed[r]
    BY <1>1, <1>2 DEF CodeInv
  <1>5. bridge'[Custodian].phase \in Keyed => typed[bridge'[Custodian].peer]
    BY <1>1, <1>2 DEF CodeInv
  <1> QED
    BY <1>3, <1>4, <1>5 DEF CodeInv

-----------------------------------------------------------------------------
(* The two sides of a pairing *)

\* What a side has on the wire are frames.
LEMMA OutFrames ==
    ASSUME TypeOK, NEW r \in Requesters, NEW s
    PROVE  In(Out(s, r)) \subseteq Frames
  BY DEF TypeOK, Links, Out, In

\* What s sent after a step of side t that sent at most the frames F.
LEMMA OutGrows ==
    ASSUME NEW t \in Sides, NEW F, LinkStep(t, F), NEW r \in Requesters, NEW s \in {r, Custodian}
    PROVE  \/ link'[r] = Down /\ In(Out(s, r)') = {}
           \/ /\ link'[r].up = link[r].up /\ link'[r].conn = link[r].conn
              /\ In(Out(s, r)') \subseteq
                    In(Out(s, r)) \cup (IF s = t /\ Wire(s) = r THEN F ELSE {})
              /\ link[r].toC = <<>> /\ (t # r \/ F = {}) => link'[r].toC = <<>>
              /\ ~link[r].up => link'[r] = link[r]
  <1>1. CASE link'[r] = Down
    BY <1>1, DownIsLink DEF Out
  <1>2. CASE link'[r] # Down
    BY <1>2, SidesAssumption DEF LinkStep, Grown, Out, Wire, Sides
  <1> QED
    BY <1>1, <1>2

\* A connection that dropped is not a fresh one.
LEMMA FreshDown ==
    ASSUME TypeOK, opened' = opened, NEW r, link'[r] = Down
    PROVE  FreshInv(r)'
  <1>1. Down.conn = 0 /\ ~Down.up /\ opened \in Nat
    BY DEF Down, TypeOK
  <1> QED
    BY <1>1 DEF FreshInv

\* A connection that did not drop, after a step of side t.
LEMMA LinkKept ==
    ASSUME NEW t \in Sides, NEW F, LinkStep(t, F), NEW r \in Requesters, link'[r] # Down
    PROVE  /\ link'[r].up = link[r].up /\ link'[r].conn = link[r].conn
           /\ link[r].toC = <<>> /\ (t # r \/ F = {}) => link'[r].toC = <<>>
           /\ ~link[r].up => link'[r] = link[r]
  <1>1. r \in {r, Custodian}
    OBVIOUS
  <1> QED
    BY <1>1, OutGrows, ZenonT(60)

\* A connection that did not drop stays a fresh one.
LEMMA FreshKept ==
    ASSUME NEW r, FreshInv(r), opened' = opened,
           link'[r].up = link[r].up, link'[r].conn = link[r].conn,
           ~link[r].up => link'[r] = link[r],
           bridge'[r].phase = "none" => bridge[r].phase = "none",
           bridge'[r].phase = "none" /\ link[r].toC = <<>> => link'[r].toC = <<>>,
           \A n : OnIt(Custodian, r, n)' => OnIt(Custodian, r, n)
    PROVE  FreshInv(r)'
  BY Zenon DEF FreshInv

\* A step that sends nothing.
LEMMA OutShrinks ==
    ASSUME NEW t \in Sides, LinkStep(t, {}), NEW r \in Requesters, NEW s \in {r, Custodian}
    PROVE  /\ In(Out(s, r)') \subseteq In(Out(s, r))
           /\ In(Out(s, r)') # {} => link'[r].conn = link[r].conn
  <1>1. \/ In(Out(s, r)') = {}
        \/ /\ link'[r].conn = link[r].conn
           /\ In(Out(s, r)') \subseteq In(Out(s, r)) \cup (IF s = t /\ Wire(s) = r THEN {} ELSE {})
    BY OutGrows, Zenon
  <1>2. (IF s = t /\ Wire(s) = r THEN {} ELSE {}) = {}
    OBVIOUS
  <1> QED
    BY <1>1, <1>2

\* What a peer knows stays so while neither side's grants or records change.
LEMMA KnownSame ==
    ASSUME NEW t, NEW r, KnownInv(t, r), Peer(t, r)' = Peer(t, r),
           bridge'[Peer(t, r)].conn = bridge[Peer(t, r)].conn,
           bridge'[Peer(t, r)].peer_grants = bridge[Peer(t, r)].peer_grants,
           bridge'[Peer(t, r)].peer_stored = bridge[Peer(t, r)].peer_stored,
           bridge'[Peer(t, r)].local_grants = bridge[Peer(t, r)].local_grants,
           bridge'[t].local_grants = bridge[t].local_grants,
           \A n : OnIt(t, r, n)' => OnIt(t, r, n),
           \A n : OnIt(Peer(t, r), r, n)' => OnIt(Peer(t, r), r, n),
           \A n, g : Holds(t, r, n, g)' <=> Holds(t, r, n, g)
    PROVE  KnownInv(t, r)'
  BY Zenon DEF KnownInv

\* The same when no record is written.
LEMMA KnownKept ==
    ASSUME NEW t, NEW r, KnownInv(t, r), Peer(t, r)' = Peer(t, r),
           bridge'[Peer(t, r)].conn = bridge[Peer(t, r)].conn,
           bridge'[Peer(t, r)].peer_grants = bridge[Peer(t, r)].peer_grants,
           bridge'[Peer(t, r)].peer_stored = bridge[Peer(t, r)].peer_stored,
           bridge'[Peer(t, r)].local_grants = bridge[Peer(t, r)].local_grants,
           bridge'[t].local_grants = bridge[t].local_grants,
           \A n : OnIt(t, r, n)' => OnIt(t, r, n),
           \A n : OnIt(Peer(t, r), r, n)' => OnIt(Peer(t, r), r, n),
           wrote' = wrote
    PROVE  KnownInv(t, r)'
  <1>1. \A n, g : Holds(t, r, n, g)' <=> Holds(t, r, n, g)
    BY DEF Holds
  <1> QED
    BY <1>1, KnownSame, Zenon

\* The bridge of a side that has given and received no grants.
LEMMA BridgeEarly ==
    ASSUME NEW t, (bridge[t].conn <= opened)',
           bridge'[t].phase \in Working => (t = Custodian => bridge'[t].peer \in Requesters),
           bridge'[t].phase # "Storage", bridge'[t].phase # "Confirmation",
           bridge'[t].local_grants = None, bridge'[t].peer_grants = None, ~bridge'[t].peer_stored,
           bridge'[t].phase \in Early => wrote'[t] = {},
           vault'[t] = NoRecord => wrote'[t] = {}
    PROVE  BridgeInv(t)'
  BY DEF BridgeInv

\* A step that changes neither the pairing of the side nor its grants, and says
\* nothing of them.
LEMMA Harmless ==
    ASSUME TypeOK, TogetherInv, UNCHANGED <<typed, vault, wrote, opened>>,
           NEW s \in Sides, NEW F, LinkStep(s, F),
           \A f \in F : f.type \notin {"confirmation", "stored"},
           F # {} => bridge[s].phase \in Working,
           NEW b, bridge' = [bridge EXCEPT ![s] = b],
           b.peer = bridge[s].peer, b.conn = bridge[s].conn,
           b.local_grants = bridge[s].local_grants, b.peer_grants = bridge[s].peer_grants,
           b.peer_stored = bridge[s].peer_stored,
           \/ b.phase = bridge[s].phase
           \/ bridge[s].phase \in {"Cpace", "Handshake"} /\ b.phase \in {"Handshake", "Confirmation"}
    PROVE  TogetherInv'
  <1>1. Custodian \in Sides /\ Custodian \notin Requesters /\ Requesters \subseteq Sides
    BY SidesAssumption DEF Sides
  <1>2. ASSUME NEW t \in Sides
        PROVE  /\ bridge'[t].peer = bridge[t].peer /\ bridge'[t].conn = bridge[t].conn
               /\ bridge'[t].local_grants = bridge[t].local_grants
               /\ bridge'[t].peer_grants = bridge[t].peer_grants
               /\ bridge'[t].peer_stored = bridge[t].peer_stored
               /\ Wire(t)' = Wire(t)
               /\ \/ bridge'[t].phase = bridge[t].phase
                  \/ /\ bridge[t].phase \in {"Cpace", "Handshake"}
                     /\ bridge'[t].phase \in {"Handshake", "Confirmation"}
               /\ t # s => bridge'[t] = bridge[t]
    BY <1>1, Zenon DEF TypeOK, Wire
  <1>3. ASSUME NEW t \in Sides, NEW r, NEW n
        PROVE  /\ OnIt(t, r, n)' <=> OnIt(t, r, n)
               /\ \A g : Holds(t, r, n, g)' <=> Holds(t, r, n, g)
    BY <1>2, Zenon DEF OnIt, Holds, Working
  <1>4. ASSUME NEW t \in Sides
        PROVE  BridgeInv(t)'
    <2>1. BridgeInv(t)
      BY DEF TogetherInv
    <2> QED
      BY <1>2, <1>3, <2>1, ZenonT(60) DEF BridgeInv, Working, Early
  <1>5. ASSUME NEW r \in Requesters
        PROVE  PairInv(r)'
    <2>1. PairInv(r) /\ r \in Sides /\ r # Custodian
      BY <1>1 DEF TogetherInv
    <2>2. FreshInv(r)'
      <3>1. CASE link'[r] = Down
        BY <3>1, FreshDown
      <3>2. CASE link'[r] # Down
        <4>1. /\ link'[r].up = link[r].up /\ link'[r].conn = link[r].conn
              /\ link[r].toC = <<>> /\ (s # r \/ F = {}) => link'[r].toC = <<>>
              /\ ~link[r].up => link'[r] = link[r]
          BY <3>2, LinkKept, Zenon
        <4>2. bridge'[r].phase = "none" => bridge[r].phase = "none" /\ (s # r \/ F = {})
          BY <1>2, <2>1, SMTT(30) DEF Working
        <4> QED
          <5>1. \A n : OnIt(Custodian, r, n)' => OnIt(Custodian, r, n)
            BY <1>1, <1>3, Zenon
          <5>2. FreshInv(r) /\ opened' = opened
            BY <2>1 DEF PairInv
          <5> QED
            BY <4>1, <4>2, <5>1, <5>2, FreshKept, Zenon
      <3> QED
        BY <3>1, <3>2
    <2>3. ASSUME NEW t \in {r, Custodian}
          PROVE  EarlyInv(t, r)'
      <3>1. EarlyInv(t, r) /\ t \in Sides
        BY <1>1, <2>1, Zenon DEF PairInv
      <3>2. \A f \in In(Out(t, r)') : f \in In(Out(t, r)) \/ f.type \notin {"confirmation", "stored"}
        BY OutGrows, Zenon
      <3>3. /\ bridge'[t].phase \in Early => bridge[t].phase \in Early
            /\ bridge'[t].phase = "Offer" => bridge[t].phase = "Offer"
            /\ bridge[t].phase = "Offer" /\ bridge'[t].phase \in Early => bridge'[t].phase = "Offer"
        BY <1>2, <3>1 DEF Early
      <3>4. bridge'[r].peer_grants = bridge[r].peer_grants
        BY <1>2, <2>1, Zenon
      <3>5. bridge'[t].phase \in Early \ (IF t = Custodian THEN {} ELSE {"Offer"}) =>
              bridge[t].phase \in Early \ (IF t = Custodian THEN {} ELSE {"Offer"})
        BY <3>3
      <3> QED
        BY <3>1, <3>2, <3>4, <3>5, Zenon DEF EarlyInv
    <2>4. ASSUME NEW t \in {r, Custodian}
          PROVE  SentInv(t, r)'
      <3>1. CASE In(Out(t, r)') = {}
        BY <3>1, Zenon DEF SentInv
      <3>2. CASE In(Out(t, r)') # {}
        <4>1. link'[r].conn = link[r].conn /\ In(Out(t, r)') \subseteq In(Out(t, r)) \cup F
          BY <3>2, OutGrows, Zenon
        <4>2. SentInv(t, r) /\ t \in Sides
          BY <1>1, <2>1 DEF PairInv
        <4>3. /\ bridge'[t].local_grants = bridge[t].local_grants
              /\ OnIt(t, r, link[r].conn)' <=> OnIt(t, r, link[r].conn)
              /\ \A g : Holds(t, r, link[r].conn, g)' <=> Holds(t, r, link[r].conn, g)
          BY <1>2, <1>3, <4>1, <4>2, Zenon
        <4> QED
          BY <4>1, <4>2, <4>3, Zenon DEF SentInv
      <3> QED
        BY <3>1, <3>2
    <2>5. ASSUME NEW t \in {r, Custodian}
          PROVE  KnownInv(t, r)'
      <3>1. Peer(t, r) \in Sides
        BY <1>1 DEF Peer
      <3>2. KnownInv(t, r) /\ t \in Sides
        BY <1>1, <2>1 DEF PairInv
      <3>3. Peer(t, r)' = Peer(t, r)
        BY DEF Peer
      <3> QED
        BY <1>2, <1>3, <3>1, <3>2, <3>3, KnownKept, Zenon
    <2> QED
      BY <2>2, <2>3, <2>4, <2>5 DEF PairInv
  <1>6. RecordInv'
    BY Zenon DEF TogetherInv, RecordInv, ConfirmedTogether
  <1> QED
    BY <1>4, <1>5, <1>6 DEF TogetherInv

\* A step that ends the ceremony of the side.
LEMMA Reset ==
    ASSUME TypeOK, TogetherInv, UNCHANGED <<typed, wrote, opened>>,
           NEW s \in Sides, LinkStep(s, {}),
           NEW p \in {"Offer", "Completed", "Expired", "Failed"}, NEW d,
           bridge' = [bridge EXCEPT ![s] = NewBridge(p, d)],
           p = "Offer" => bridge[s].phase \in {"Offer", "Cpace"},
           \A t \in Sides : t # s => vault'[t] = vault[t],
           vault'[s] = NoRecord => vault[s] = NoRecord
    PROVE  /\ \A t \in Sides : BridgeInv(t)'
           /\ \A r \in Requesters : PairInv(r)'
  <1>1. Custodian \in Sides /\ Custodian \notin Requesters /\ Requesters \subseteq Sides
    BY SidesAssumption DEF Sides
  <1>2. \A t \in Sides : t # s => bridge'[t] = bridge[t]
    BY DEF TypeOK
  <1>3. /\ bridge'[s].phase = p /\ bridge'[s].conn = 0 /\ ~bridge'[s].peer_stored
        /\ bridge'[s].local_grants = None /\ bridge'[s].peer_grants = None
    BY Zenon DEF TypeOK, NewBridge
  <1>4. p \notin Working /\ p # "none" /\ p # "Storage" /\ p # "Confirmation"
        /\ (p \in Early => p = "Offer")
    BY DEF Working, Early
  <1>5. ASSUME NEW t \in Sides
        PROVE  BridgeInv(t)'
    <2>1. BridgeInv(t)
      BY Zenon DEF TogetherInv
    <2>2. CASE t = s
      <3>1. (bridge[t].conn <= opened)'
        BY <1>3, <2>2 DEF TypeOK
      <3>2. /\ vault'[s] = NoRecord => wrote'[s] = {}
            /\ p = "Offer" => wrote'[s] = {}
        BY <2>1, <2>2, Zenon DEF BridgeInv, Early
      <3> QED
        BY <1>3, <1>4, <2>2, <3>1, <3>2, BridgeEarly, Zenon
    <2>3. CASE t # s
      BY <1>2, <2>1, <2>3, Zenon DEF BridgeInv, Wire, Holds
    <2> QED
      BY <2>2, <2>3
  <1>6. ASSUME NEW r \in Requesters
        PROVE  PairInv(r)'
    <2>1. PairInv(r) /\ r \in Sides /\ r # Custodian
      BY <1>1 DEF TogetherInv
    <2>2. FreshInv(r)'
      <3>1. CASE link'[r] = Down
        BY <3>1, FreshDown
      <3>2. CASE link'[r] # Down
        <4>1. /\ link'[r].up = link[r].up /\ link'[r].conn = link[r].conn
              /\ link[r].toC = <<>> => link'[r].toC = <<>>
              /\ ~link[r].up => link'[r] = link[r]
          BY <3>2, OutGrows, Zenon
        <4> QED
          BY <1>1, <1>2, <1>3, <1>4, <2>1, <4>1, ZenonT(60) DEF FreshInv, PairInv, OnIt, Wire
      <3> QED
        BY <3>1, <3>2
    <2>3. ASSUME NEW t \in {r, Custodian}
          PROVE  EarlyInv(t, r)'
      <3>1. In(Out(t, r)') \subseteq In(Out(t, r))
        BY OutShrinks, Zenon
      <3>2. EarlyInv(t, r) /\ t \in Sides
        BY <1>1, <2>1, Zenon DEF PairInv
      <3>3. bridge'[t].phase \in Early \ (IF t = Custodian THEN {} ELSE {"Offer"}) =>
              bridge[t].phase \in Early \ (IF t = Custodian THEN {} ELSE {"Offer"})
        BY <1>2, <1>3, <1>4, <3>2, Zenon DEF Early
      <3>4. bridge[r].peer_grants = None => bridge'[r].peer_grants = None
        BY <1>2, <1>3, <2>1, Zenon
      <3> QED
        BY <3>1, <3>2, <3>3, <3>4, Zenon DEF EarlyInv
    <2>4. ASSUME NEW t \in {r, Custodian}
          PROVE  SentInv(t, r)'
      <3>1. CASE In(Out(t, r)') = {}
        BY <3>1, Zenon DEF SentInv
      <3>2. CASE In(Out(t, r)') # {}
        <4>1. link'[r].conn = link[r].conn /\ In(Out(t, r)') \subseteq In(Out(t, r))
          BY <3>2, OutShrinks, Zenon
        <4>2. SentInv(t, r) /\ t \in Sides
          BY <1>1, <2>1, Zenon DEF PairInv
        <4> QED
          BY <1>2, <1>3, <1>4, <4>1, <4>2, ZenonT(60) DEF SentInv, OnIt, Holds, Wire
      <3> QED
        BY <3>1, <3>2
    <2>5. ASSUME NEW t \in {r, Custodian}
          PROVE  KnownInv(t, r)'
      <3>1. Peer(t, r) \in Sides /\ Peer(t, r)' = Peer(t, r)
        BY <1>1 DEF Peer
      <3>2. KnownInv(t, r) /\ t \in Sides
        BY <1>1, <2>1, Zenon DEF PairInv
      <3> QED
        BY <1>2, <1>3, <1>4, <3>1, <3>2, ZenonT(60) DEF KnownInv, OnIt, Holds, Wire
    <2> QED
      BY <2>2, <2>3, <2>4, <2>5, Zenon DEF PairInv
  <1> QED
    BY <1>5, <1>6

\* The side's stored records are left alone.
LEMMA VaultKept ==
    ASSUME RecordInv, UNCHANGED <<typed, vault, wrote>>
    PROVE  RecordInv'
  BY Zenon DEF RecordInv, ConfirmedTogether

Late == {"Confirmation", "Storage"}

\* A step of a side that has reached the confirmation disturbs neither a fresh
\* connection nor what holds of a side that has not.
LEMMA LateStep ==
    ASSUME TypeOK, TogetherInv, opened' = opened,
           NEW s \in Sides, NEW F, LinkStep(s, F),
           NEW b, bridge' = [bridge EXCEPT ![s] = b],
           b.peer = bridge[s].peer, b.conn = bridge[s].conn,
           bridge[s].phase \in Late, b.phase \in Late,
           s # Custodian /\ b.peer_grants # bridge[s].peer_grants =>
               bridge[Custodian].phase \notin Early
    PROVE  /\ \A t \in Sides : t # s => bridge'[t] = bridge[t]
           /\ bridge'[s] = b
           /\ \A t \in Sides : \A r, n : OnIt(t, r, n)' <=> OnIt(t, r, n)
           /\ \A t \in Sides : Wire(t)' = Wire(t)
           /\ \A r \in Requesters : FreshInv(r)' /\ \A t \in {r, Custodian} : EarlyInv(t, r)'
  <1>1. Custodian \in Sides /\ Custodian \notin Requesters /\ Requesters \subseteq Sides
    BY SidesAssumption DEF Sides
  <1>2. \A t \in Sides : bridge'[t] = IF t = s THEN b ELSE bridge[t]
    BY Zenon DEF TypeOK
  <1>3. \A t \in Sides : Wire(t)' = Wire(t)
    BY <1>2 DEF Wire
  <1>4. \A t \in Sides : \A r, n : OnIt(t, r, n)' <=> OnIt(t, r, n)
    BY <1>2, <1>3 DEF OnIt, Late, Working
  <1>5. ASSUME NEW r \in Requesters
        PROVE  FreshInv(r)' /\ \A t \in {r, Custodian} : EarlyInv(t, r)'
    <2>1. PairInv(r) /\ r \in Sides /\ r # Custodian
      BY <1>1 DEF TogetherInv
    <2>2. FreshInv(r)'
      <3>1. CASE link'[r] = Down
        BY <3>1, FreshDown
      <3>2. CASE link'[r] # Down
        <4>1. /\ link'[r].up = link[r].up /\ link'[r].conn = link[r].conn
              /\ link[r].toC = <<>> /\ s # r => link'[r].toC = <<>>
              /\ ~link[r].up => link'[r] = link[r]
          BY <3>2, OutGrows, ZenonT(60)
        <4>2. bridge'[r].phase = "none" => bridge[r].phase = "none" /\ s # r
          BY <1>2, <2>1 DEF Late
        <4> QED
          BY <1>1, <1>4, <2>1, <4>1, <4>2, FreshKept, Zenon DEF PairInv
      <3> QED
        BY <3>1, <3>2
    <2>3. ASSUME NEW t \in {r, Custodian}
          PROVE  EarlyInv(t, r)'
      <3>1. EarlyInv(t, r) /\ t \in Sides
        BY <1>1, <2>1 DEF PairInv
      <3>2. bridge'[t].phase \in Early => t # s /\ bridge[t].phase \in Early
                /\ bridge'[t].phase = bridge[t].phase
        BY <1>2, <3>1 DEF Late, Early
      <3>3. t # s => In(Out(t, r)') \subseteq In(Out(t, r))
        BY OutGrows, ZenonT(60)
      <3>4. t = Custodian /\ bridge'[t].phase \in Early => bridge'[r].peer_grants = bridge[r].peer_grants
        BY <1>2, <2>1, <3>2
      <3> QED
        BY <3>1, <3>2, <3>3, <3>4 DEF EarlyInv
    <2> QED
      BY <2>2, <2>3
  <1> QED
    BY <1>2, <1>3, <1>4, <1>5

\* The granted profiles leave in a confirmation.
LEMMA ConfirmationSent ==
    ASSUME TypeOK, TogetherInv, NEW s \in Sides, NEW grants \in Grants,
           send_confirmation(s, grants), bridge[s].peer_grants \in {None, grants}
    PROVE  TogetherInv'
  <1> DEFINE b == [bridge[s] EXCEPT !.local_grants = grants]
             F == {Frame("confirmation", grants)}
             w == Wire(s)
  <1>1. Custodian \in Sides /\ Custodian \notin Requesters /\ Requesters \subseteq Sides
        /\ None \notin Grants
    BY SidesAssumption DEF Sides, None
  <1>2. /\ bridge[s].phase = "Confirmation" /\ bridge[s].local_grants = None
        /\ w \in Requesters /\ link[w].conn = bridge[s].conn
        /\ bridge' = [bridge EXCEPT ![s] = b]
        /\ typed' = typed /\ vault' = vault /\ opened' = opened /\ wrote' = wrote
    BY DEF send_confirmation, At, Connected
  <1>3. LinkStep(s, F)
    BY <1>1, SendStep, FrameTypes DEF send_confirmation, Kinds
  <1>4. /\ b.peer = bridge[s].peer /\ b.conn = bridge[s].conn /\ b.phase = "Confirmation"
        /\ b.peer_grants = bridge[s].peer_grants /\ b.peer_stored = bridge[s].peer_stored
        /\ b.local_grants = grants
    BY <1>2 DEF TypeOK, Bridges
  <1> HIDE DEF b
  <1>5. /\ \A t \in Sides : t # s => bridge'[t] = bridge[t]
        /\ bridge'[s] = b
        /\ \A t \in Sides : \A r, n : OnIt(t, r, n)' <=> OnIt(t, r, n)
        /\ \A t \in Sides : Wire(t)' = Wire(t)
        /\ \A r \in Requesters : FreshInv(r)' /\ \A t \in {r, Custodian} : EarlyInv(t, r)'
    BY <1>2, <1>3, <1>4, LateStep, Zenon DEF Late
  <1>6. BridgeInv(s) /\ wrote[s] = {} /\ ~bridge[s].peer_stored
    BY <1>2, Zenon DEF TogetherInv, BridgeInv
  <1>7. ASSUME NEW t \in Sides
        PROVE  BridgeInv(t)'
    <2>1. BridgeInv(t)
      BY DEF TogetherInv
    <2>2. CASE t = s
      BY <1>1, <1>2, <1>4, <1>5, <1>6, <2>2, Zenon DEF BridgeInv, Early, Working, TypeOK
    <2>3. CASE t # s
      BY <1>2, <1>5, <2>1, <2>3, Zenon DEF BridgeInv, Holds
    <2> QED
      BY <2>2, <2>3
  <1>8. ASSUME NEW r \in Requesters, NEW t \in {r, Custodian}
        PROVE  SentInv(t, r)'
    <2>1. SentInv(t, r) /\ t \in Sides
      BY <1>1 DEF TogetherInv, PairInv
    <2>2. CASE In(Out(t, r)') = {}
      BY <2>2 DEF SentInv
    <2>3. CASE In(Out(t, r)') # {} /\ ~(t = s /\ w = r)
      <3>1. link'[r].conn = link[r].conn /\ In(Out(t, r)') \subseteq In(Out(t, r))
        BY <1>3, <2>3, OutGrows, Zenon
      <3>2. OnIt(t, r, link[r].conn)' => OnIt(t, r, link[r].conn) /\ bridge'[t] = bridge[t]
        BY <1>4, <1>5, <2>1, <2>3, <3>1, ZenonT(60) DEF OnIt, Late, Working
      <3> QED
        BY <1>2, <2>1, <3>1, <3>2, Zenon DEF SentInv, Holds
    <2>4. CASE In(Out(t, r)') # {} /\ t = s /\ w = r
      <3>1. link'[r].conn = link[r].conn /\ In(Out(t, r)') \subseteq In(Out(t, r)) \cup F
        BY <1>3, <2>4, OutGrows, Zenon
      <3>2. OnIt(s, r, link[r].conn)
        BY <1>2, <2>4, Zenon DEF OnIt, Working
      <3>3. \A f \in In(Out(t, r)) : f.type # "confirmation"
        BY <1>1, <1>2, <2>1, <2>4, <3>2, OutFrames, ZenonT(60) DEF SentInv, Frames
      <3>4. \A f \in In(Out(t, r)) : f.type # "stored"
        BY <1>6, <2>1, <2>4, Zenon DEF SentInv, Holds
      <3>5. \A f \in In(Out(t, r)') : f.type \in {"confirmation", "stored"} =>
                f.type = "confirmation" /\ f.arg = grants
        BY <3>1, <3>3, <3>4 DEF Frame
      <3>6. bridge'[t].local_grants = grants /\ wrote'[t] = {}
        BY <1>2, <1>4, <1>5, <1>6, <2>4, Zenon
      <3> QED
        BY <3>5, <3>6, Zenon DEF SentInv, Holds
    <2> QED
      BY <2>2, <2>3, <2>4
  <1>9. ASSUME NEW r \in Requesters, NEW t \in {r, Custodian}
        PROVE  KnownInv(t, r)'
    <2>1. Peer(t, r) \in Sides /\ Peer(t, r)' = Peer(t, r) /\ Peer(t, r) # t
      BY <1>1 DEF Peer
    <2>2. KnownInv(t, r) /\ t \in Sides
      BY <1>1 DEF TogetherInv, PairInv
    <2>3. CASE t = s
      BY <1>2, <1>5, <1>6, <2>1, <2>2, <2>3, ZenonT(60) DEF KnownInv, OnIt, Holds
    <2>4. CASE t # s
      <3> DEFINE p == Peer(t, r)
      <3>1. /\ bridge'[p].conn = bridge[p].conn /\ bridge'[p].peer_grants = bridge[p].peer_grants
            /\ bridge'[p].peer_stored = bridge[p].peer_stored
            /\ bridge[p].peer_stored => bridge'[p].local_grants = bridge[p].local_grants
            /\ bridge'[t] = bridge[t]
        BY <1>4, <1>5, <1>6, <2>1, <2>2, <2>4, Zenon
      <3>2. \A n : (OnIt(p, r, n)' => OnIt(p, r, n)) /\ (OnIt(t, r, n)' => OnIt(t, r, n))
        BY <1>5, <2>1, <2>2, Zenon
      <3>3. \A n, g : Holds(t, r, n, g)' <=> Holds(t, r, n, g)
        BY <1>2, Zenon DEF Holds
      <3> QED
        BY <2>1, <2>2, <3>1, <3>2, <3>3, Zenon DEF KnownInv
    <2> QED
      BY <2>3, <2>4
  <1>10. RecordInv'
    BY <1>2, VaultKept, Zenon DEF TogetherInv
  <1> QED
    BY <1>5, <1>7, <1>8, <1>9, <1>10, Zenon DEF TogetherInv, PairInv

\* The peer's granted profiles arrive, and are the ones the peer gave.
LEMMA ConfirmationReceived ==
    ASSUME TypeOK, TogetherInv, NEW s \in Sides, receive_confirmation(s),
           bridge[s].local_grants \in {None, Head(Inbox(s)).arg}
    PROVE  TogetherInv'
  <1> DEFINE f0 == Head(Inbox(s))
             b == [bridge[s] EXCEPT !.peer_grants = f0.arg]
             w == Wire(s)
             q == Peer(s, w)
  <1>1. Custodian \in Sides /\ Custodian \notin Requesters /\ Requesters \subseteq Sides
        /\ None \notin Grants
    BY SidesAssumption, Zenon DEF Sides, None
  <1>2. /\ bridge[s].phase = "Confirmation"
        /\ w \in Requesters /\ link[w].conn = bridge[s].conn
        /\ bridge' = [bridge EXCEPT ![s] = b]
        /\ typed' = typed /\ vault' = vault /\ opened' = opened /\ wrote' = wrote
        /\ f0.type = "confirmation"
    BY DEF receive_confirmation, At, NextIs, Connected
  <1>3. LinkStep(s, {}) /\ f0 \in In(Out(q, w)) /\ f0 \in Frames /\ f0.arg \in Grants
    <2>1. LinkStep(s, {}) /\ f0 \in In(Out(q, w)) /\ f0 \in Frames
      BY TakeStep DEF receive_confirmation, NextIs
    <2> QED
      BY <1>2, <2>1 DEF Frames
  <1>4. /\ b.peer = bridge[s].peer /\ b.conn = bridge[s].conn /\ b.phase = "Confirmation"
        /\ b.local_grants = bridge[s].local_grants /\ b.peer_stored = bridge[s].peer_stored
        /\ b.peer_grants = f0.arg
    BY <1>2 DEF TypeOK, Bridges
  <1>6. /\ q \in {w, Custodian} /\ q \in Sides /\ q # s /\ Peer(q, w) = s
        /\ (s = w \/ s = Custodian)
    BY <1>1, <1>2 DEF Peer, Wire
  <1>7. SentInv(q, w) /\ EarlyInv(q, w) /\ BridgeInv(s) /\ ~bridge[s].peer_stored
    BY <1>2, <1>6, Zenon DEF TogetherInv, PairInv, BridgeInv
  <1>8. s # Custodian => bridge[Custodian].phase \notin Early
    BY <1>2, <1>3, <1>7 DEF EarlyInv, Peer
  <1> HIDE DEF b, f0
  <1>5. /\ \A t \in Sides : t # s => bridge'[t] = bridge[t]
        /\ bridge'[s] = b
        /\ \A t \in Sides : \A r, n : OnIt(t, r, n)' <=> OnIt(t, r, n)
        /\ \A t \in Sides : Wire(t)' = Wire(t)
        /\ \A r \in Requesters : FreshInv(r)' /\ \A t \in {r, Custodian} : EarlyInv(t, r)'
    BY <1>2, <1>3, <1>4, <1>8, LateStep, Zenon DEF Late
  <1>9. ASSUME NEW t \in Sides
        PROVE  BridgeInv(t)'
    <2>1. BridgeInv(t)
      BY DEF TogetherInv
    <2>2. CASE t = s
      BY <1>1, <1>2, <1>3, <1>4, <1>5, <1>7, <2>2, Zenon DEF BridgeInv, Early, Working, TypeOK, f0
    <2>3. CASE t # s
      BY <1>2, <1>5, <2>1, <2>3, Zenon DEF BridgeInv, Holds
    <2> QED
      BY <2>2, <2>3
  <1>10. ASSUME NEW r \in Requesters, NEW t \in {r, Custodian}
        PROVE  SentInv(t, r)'
    <2>1. SentInv(t, r) /\ t \in Sides
      BY <1>1 DEF TogetherInv, PairInv
    <2>2. CASE In(Out(t, r)') = {}
      BY <2>2, Zenon DEF SentInv
    <2>3. CASE In(Out(t, r)') # {}
      <3>1. link'[r].conn = link[r].conn /\ In(Out(t, r)') \subseteq In(Out(t, r))
        BY <1>3, <2>3, OutShrinks, Zenon
      <3>2. /\ OnIt(t, r, link[r].conn)' => OnIt(t, r, link[r].conn)
            /\ bridge'[t].local_grants = bridge[t].local_grants
        BY <1>4, <1>5, <2>1, <3>1, Zenon DEF OnIt
      <3> QED
        BY <1>2, <2>1, <3>1, <3>2, Zenon DEF SentInv, Holds
    <2> QED
      BY <2>2, <2>3
  <1>11. ASSUME NEW r \in Requesters, NEW t \in {r, Custodian}
        PROVE  KnownInv(t, r)'
    <2>1. Peer(t, r) \in Sides /\ Peer(t, r)' = Peer(t, r) /\ Peer(t, r) # t
      BY <1>1 DEF Peer
    <2>2. KnownInv(t, r) /\ t \in Sides
      BY <1>1 DEF TogetherInv, PairInv
    <2>3. CASE Peer(t, r) = s
      <3>1. CASE r = w
        <4>1. t = q
          BY <1>1, <2>3, <3>1, Zenon DEF Peer
        <4>2. /\ OnIt(t, r, bridge[s].conn) => bridge[t].local_grants = f0.arg
              /\ \A g \in Grants : Holds(t, r, bridge[s].conn, g) => g = f0.arg
          BY <1>2, <1>3, <1>7, <3>1, <4>1, Zenon DEF SentInv
        <4>3. /\ bridge'[s].conn = bridge[s].conn /\ bridge'[s].peer_grants = f0.arg
              /\ ~bridge'[s].peer_stored /\ bridge'[t] = bridge[t]
          BY <1>4, <1>5, <1>7, <2>1, <2>2, <2>3, Zenon
        <4>4. \A n : OnIt(t, r, n)' => OnIt(t, r, n)
          BY <1>5, <2>2, Zenon
        <4>5. \A n, g : Holds(t, r, n, g)' <=> Holds(t, r, n, g)
          BY <1>2, Zenon DEF Holds
        <4> QED
          BY <2>1, <2>3, <4>2, <4>3, <4>4, <4>5, Zenon DEF KnownInv
      <3>2. CASE r # w
        BY <1>5, <2>1, <2>3, <3>2, Zenon DEF KnownInv, OnIt
      <3> QED
        BY <3>1, <3>2
    <2>4. CASE Peer(t, r) # s
      <3>1. /\ bridge'[Peer(t, r)].conn = bridge[Peer(t, r)].conn
            /\ bridge'[Peer(t, r)].peer_grants = bridge[Peer(t, r)].peer_grants
            /\ bridge'[Peer(t, r)].peer_stored = bridge[Peer(t, r)].peer_stored
            /\ bridge'[Peer(t, r)].local_grants = bridge[Peer(t, r)].local_grants
            /\ bridge'[t].local_grants = bridge[t].local_grants
        BY <1>4, <1>5, <2>1, <2>2, <2>4, Zenon
      <3> QED
        BY <1>2, <1>5, <2>1, <2>2, <3>1, KnownKept, Zenon
    <2> QED
      BY <2>3, <2>4
  <1>12. RecordInv'
    BY <1>2, VaultKept, Zenon DEF TogetherInv
  <1> QED
    BY <1>5, <1>9, <1>10, <1>11, <1>12, Zenon DEF TogetherInv, PairInv

\* A side stores its record: its grants are the ones the peer was told.
LEMMA RecordBuilt ==
    ASSUME TypeOK, TogetherInv, NEW s \in Sides, build_pair_record(s), ~Ended(s, "Failed")
    PROVE  TogetherInv'
  <1> DEFINE b == [bridge[s] EXCEPT !.phase = "Storage"]
             w == Wire(s)
             n == bridge[s].conn
             g0 == bridge[s].local_grants
  <1>1. Custodian \in Sides /\ Custodian \notin Requesters /\ Requesters \subseteq Sides
        /\ None \notin Grants
    BY SidesAssumption DEF Sides, None
  <1>2. /\ bridge[s].phase = "Confirmation"
        /\ g0 # None /\ bridge[s].peer_grants # None
        /\ bridge' = [bridge EXCEPT ![s] = b]
        /\ vault' = [vault EXCEPT ![s] = [pair |-> <<w, n>>, grants |-> g0,
                                          state |-> "unconfirmed"]]
        /\ vault'[s] = [pair |-> <<w, n>>, grants |-> g0, state |-> "unconfirmed"]
        /\ typed' = typed /\ opened' = opened /\ link' = link
    BY DEF build_pair_record, At, TypeOK
  <1>3. /\ wrote'[s] = wrote[s] \cup {<<<<w, n>>, g0>>}
        /\ \A t \in Sides : t # s => wrote'[t] = wrote[t] /\ vault'[t] = vault[t]
    BY <1>2 DEF build_pair_record, TypeOK
  <1>4. /\ b.peer = bridge[s].peer /\ b.conn = n /\ b.phase = "Storage"
        /\ b.local_grants = g0 /\ b.peer_stored = bridge[s].peer_stored
        /\ b.peer_grants = bridge[s].peer_grants
    BY <1>2 DEF TypeOK, Bridges
  <1>6. LinkStep(s, {})
    BY <1>2, CloseStep
  <1> HIDE DEF b
  <1>5. /\ \A t \in Sides : t # s => bridge'[t] = bridge[t]
        /\ bridge'[s] = b
        /\ \A t \in Sides : \A r, m : OnIt(t, r, m)' <=> OnIt(t, r, m)
        /\ \A t \in Sides : Wire(t)' = Wire(t)
        /\ \A r \in Requesters : FreshInv(r)' /\ \A t \in {r, Custodian} : EarlyInv(t, r)'
    BY <1>2, <1>4, <1>6, LateStep, Zenon DEF Late
  <1>7. BridgeInv(s) /\ wrote[s] = {} /\ ~bridge[s].peer_stored /\ g0 = bridge[s].peer_grants
    BY <1>2, Zenon DEF TogetherInv, BridgeInv
  <1>8. /\ \A t \in Sides : \A r, m, g : t # s => (Holds(t, r, m, g)' <=> Holds(t, r, m, g))
        /\ \A r, m, g : Holds(s, r, m, g)' <=> (r = w /\ m = n /\ g = g0)
    BY <1>3, <1>7, Zenon DEF Holds
  <1>9. ASSUME NEW t \in Sides
        PROVE  BridgeInv(t)'
    <2>1. BridgeInv(t)
      BY DEF TogetherInv
    <2>2. CASE t = s
      <3>1. vault'[s] # NoRecord /\ <<<<w, n>>, g0>> \in wrote'[s]
        BY <1>2, <1>3, SMTT(30) DEF NoRecord
      <3> QED
        BY <1>2, <1>4, <1>5, <1>7, <2>2, <3>1, ZenonT(60) DEF BridgeInv, Early, Working, Holds
    <2>3. CASE t # s
      BY <1>2, <1>3, <1>5, <2>1, <2>3, Zenon DEF BridgeInv, Holds
    <2> QED
      BY <2>2, <2>3
  <1>10. ASSUME NEW r \in Requesters, NEW t \in {r, Custodian}
        PROVE  SentInv(t, r)'
    <2>1. SentInv(t, r) /\ t \in Sides /\ Out(t, r)' = Out(t, r)
      BY <1>1, <1>2, Zenon DEF TogetherInv, PairInv, Out
    <2>2. CASE t = s
      <3>1. \A f \in In(Out(t, r)) : f.type # "stored"
        BY <1>7, <2>1, <2>2, Zenon DEF SentInv, Holds
      <3>2. \A f \in In(Out(t, r)) : f.type = "confirmation" /\ r = w /\ link[r].conn = n =>
                f.arg = g0
        BY <1>2, <2>1, <2>2, Zenon DEF SentInv, OnIt, Working
      <3>3. bridge'[t].local_grants = g0 /\ link'[r].conn = link[r].conn
        BY <1>2, <1>4, <1>5, <2>2, Zenon
      <3>4. \A m : OnIt(t, r, m)' => r = w /\ m = n
        BY <1>4, <1>5, <2>1, <2>2, Zenon DEF OnIt
      <3>5. \A m, g : Holds(t, r, m, g)' => r = w /\ m = n /\ g = g0
        BY <1>8, <2>2, Zenon
      <3> QED
        BY <2>1, <3>1, <3>2, <3>3, <3>4, <3>5, Zenon DEF SentInv
    <2>3. CASE t # s
      BY <1>2, <1>5, <1>8, <2>1, <2>3, ZenonT(60) DEF SentInv, OnIt
    <2> QED
      BY <2>2, <2>3
  <1>11. ASSUME NEW r \in Requesters, NEW t \in {r, Custodian}
        PROVE  KnownInv(t, r)'
    <2>1. Peer(t, r) \in Sides /\ Peer(t, r)' = Peer(t, r) /\ Peer(t, r) # t
      BY <1>1 DEF Peer
    <2>2. KnownInv(t, r) /\ t \in Sides
      BY <1>1 DEF TogetherInv, PairInv
    <2>3. CASE t = s
      <3>1. OnIt(s, w, n)
        BY <1>2, Zenon DEF OnIt, Working
      <3> DEFINE p == Peer(t, r)
      <3>2. bridge'[p] = bridge[p] /\ bridge'[t].local_grants = g0
        BY <1>4, <1>5, <2>1, <2>3, Zenon
      <3>3. /\ OnIt(p, r, bridge[p].conn)' => OnIt(p, r, bridge[p].conn)
            /\ OnIt(t, r, bridge[p].conn)' => OnIt(t, r, bridge[p].conn)
        BY <1>5, <2>1, <2>2, <3>2, Zenon
      <3>4. ~Holds(t, r, bridge[p].conn, bridge[p].local_grants)
        BY <1>7, <2>3 DEF Holds
      <3>5. OnIt(p, r, bridge[p].conn) /\ bridge[p].peer_grants # None
                /\ r = w /\ bridge[p].conn = n => g0 = bridge[p].peer_grants
        BY <2>2, <2>3, <3>1, Zenon DEF KnownInv
      <3>6. \A m, g : Holds(t, r, m, g)' => r = w /\ m = n /\ g = g0
        BY <1>8, <2>3, Zenon
      <3> SUFFICES ASSUME OnIt(p, r, bridge[p].conn)'
                   PROVE  /\ bridge'[p].peer_grants # None =>
                               /\ OnIt(t, r, bridge[p].conn)' =>
                                     bridge'[t].local_grants = bridge'[p].peer_grants
                               /\ \A g \in Grants : Holds(t, r, bridge[p].conn, g)' =>
                                     g = bridge'[p].peer_grants
                          /\ bridge'[p].peer_stored => Holds(t, r, bridge[p].conn, bridge[p].local_grants)'
        BY <2>1, Zenon DEF KnownInv
      <3>7. ~bridge[p].peer_stored
        BY <2>2, <3>3, <3>4, Zenon DEF KnownInv
      <3>8. bridge[p].peer_grants # None /\ OnIt(t, r, bridge[p].conn) => g0 = bridge[p].peer_grants
        BY <2>2, <2>3, <3>3, Zenon DEF KnownInv
      <3> QED
        BY <3>2, <3>3, <3>5, <3>6, <3>7, <3>8, Zenon
    <2>4. CASE t # s
      <3>1. /\ bridge'[Peer(t, r)].conn = bridge[Peer(t, r)].conn
            /\ bridge'[Peer(t, r)].peer_grants = bridge[Peer(t, r)].peer_grants
            /\ bridge'[Peer(t, r)].peer_stored = bridge[Peer(t, r)].peer_stored
            /\ bridge'[Peer(t, r)].local_grants = bridge[Peer(t, r)].local_grants
            /\ bridge'[t].local_grants = bridge[t].local_grants
        BY <1>4, <1>5, <2>1, <2>2, <2>4, Zenon
      <3> QED
        BY <1>5, <1>8, <2>1, <2>2, <2>4, <3>1, KnownSame, Zenon
    <2> QED
      BY <2>3, <2>4
  <1>12. RecordInv'
    <2> SUFFICES ASSUME NEW t \in Sides, vault'[t].state = "confirmed"
                 PROVE  LET r == vault'[t].pair[1]
                            other == IF t = Custodian THEN r ELSE Custodian
                        IN  /\ r \in Requesters
                            /\ typed'[r] /\ <<vault'[t].pair, vault'[t].grants>> \in wrote'[other]
      BY Zenon DEF RecordInv, ConfirmedTogether
    <2> DEFINE r == vault[t].pair[1]
               other == IF t = Custodian THEN r ELSE Custodian
    <2>1. t # s /\ vault'[t] = vault[t]
      <3>1. vault'[s].state = "unconfirmed"
        BY <1>2
      <3> QED
        BY <1>3, <3>1, Zenon
    <2>2. /\ r \in Requesters /\ typed[r]
          /\ <<vault[t].pair, vault[t].grants>> \in wrote[other]
      BY <2>1, Zenon DEF TogetherInv, RecordInv, ConfirmedTogether
    <2>3. other \in Sides
      BY <1>1, <2>2, Zenon
    <2>4. wrote[other] \subseteq wrote'[other]
      BY <1>3, <2>3
    <2> QED
      BY <1>2, <2>1, <2>2, <2>4, Zenon
  <1> QED
    BY <1>5, <1>9, <1>10, <1>11, <1>12, Zenon DEF TogetherInv, PairInv

\* A side that stored its record says so.
LEMMA StoredSent ==
    ASSUME TypeOK, TogetherInv, NEW s \in Sides, send_stored(s)
    PROVE  TogetherInv'
  <1> DEFINE b == [bridge[s] EXCEPT !.stored_sent = TRUE]
             F == {Frame("stored", None)}
             w == Wire(s)
  <1>1. Custodian \in Sides /\ Custodian \notin Requesters /\ Requesters \subseteq Sides
        /\ None \notin Grants
    BY SidesAssumption DEF Sides, None
  <1>2. /\ bridge[s].phase = "Storage"
        /\ w \in Requesters /\ link[w].conn = bridge[s].conn
        /\ bridge' = [bridge EXCEPT ![s] = b]
        /\ typed' = typed /\ vault' = vault /\ opened' = opened /\ wrote' = wrote
    BY DEF send_stored, At, Connected
  <1>3. LinkStep(s, F)
    BY SendStep, FrameTypes DEF send_stored, Kinds
  <1>4. /\ b.peer = bridge[s].peer /\ b.conn = bridge[s].conn /\ b.phase = "Storage"
        /\ b.peer_grants = bridge[s].peer_grants /\ b.peer_stored = bridge[s].peer_stored
        /\ b.local_grants = bridge[s].local_grants /\ bridge[s].local_grants \in Grants \cup {None}
    BY <1>2 DEF TypeOK, Bridges
  <1> HIDE DEF b
  <1>5. /\ \A t \in Sides : t # s => bridge'[t] = bridge[t]
        /\ bridge'[s] = b
        /\ \A t \in Sides : \A r, n : OnIt(t, r, n)' <=> OnIt(t, r, n)
        /\ \A t \in Sides : Wire(t)' = Wire(t)
        /\ \A r \in Requesters : FreshInv(r)' /\ \A t \in {r, Custodian} : EarlyInv(t, r)'
    BY <1>2, <1>3, <1>4, LateStep, Zenon DEF Late
  <1>6. Holds(s, w, bridge[s].conn, bridge[s].local_grants) /\ bridge[s].local_grants \in Grants
    BY <1>2, <1>4, Zenon DEF TogetherInv, BridgeInv
  <1>7. ASSUME NEW t \in Sides
        PROVE  BridgeInv(t)'
    <2>1. BridgeInv(t)
      BY DEF TogetherInv
    <2>2. CASE t = s
      BY <1>2, <1>4, <1>5, <2>1, <2>2, ZenonT(60) DEF BridgeInv, Early, Working, Holds
    <2>3. CASE t # s
      BY <1>2, <1>5, <2>1, <2>3, Zenon DEF BridgeInv, Holds
    <2> QED
      BY <2>2, <2>3
  <1>8. ASSUME NEW r \in Requesters, NEW t \in {r, Custodian}
        PROVE  SentInv(t, r)'
    <2>1. SentInv(t, r) /\ t \in Sides
      BY <1>1 DEF TogetherInv, PairInv
    <2>2. CASE In(Out(t, r)') = {}
      BY <2>2, Zenon DEF SentInv
    <2>3. CASE In(Out(t, r)') # {}
      <3>1. /\ link'[r].conn = link[r].conn
            /\ In(Out(t, r)') \subseteq In(Out(t, r)) \cup (IF t = s /\ Wire(t) = r THEN F ELSE {})
        BY <1>3, <2>3, OutGrows, ZenonT(60)
      <3>2. /\ OnIt(t, r, link[r].conn)' => OnIt(t, r, link[r].conn)
            /\ bridge'[t].local_grants = bridge[t].local_grants
        BY <1>4, <1>5, <2>1, <3>1, Zenon DEF OnIt
      <3>3. t = s /\ Wire(t) = r => \E g \in Grants : Holds(t, r, link[r].conn, g)
        BY <1>2, <1>6, Zenon
      <3>4. \A f \in In(Out(t, r)') :
                f \in In(Out(t, r)) \/ (f.type = "stored" /\ t = s /\ Wire(t) = r)
        BY <3>1 DEF Frame
      <3>5. \A n, g : Holds(t, r, n, g)' <=> Holds(t, r, n, g)
        BY <1>2, Zenon DEF Holds
      <3> QED
        BY <2>1, <3>1, <3>2, <3>3, <3>4, <3>5, Zenon DEF SentInv
    <2> QED
      BY <2>2, <2>3
  <1>9. ASSUME NEW r \in Requesters, NEW t \in {r, Custodian}
        PROVE  KnownInv(t, r)'
    <2>1. Peer(t, r) \in Sides /\ Peer(t, r)' = Peer(t, r) /\ Peer(t, r) # t
      BY <1>1 DEF Peer
    <2>2. KnownInv(t, r) /\ t \in Sides
      BY <1>1 DEF TogetherInv, PairInv
    <2>3. /\ bridge'[Peer(t, r)].conn = bridge[Peer(t, r)].conn
          /\ bridge'[Peer(t, r)].peer_grants = bridge[Peer(t, r)].peer_grants
          /\ bridge'[Peer(t, r)].peer_stored = bridge[Peer(t, r)].peer_stored
          /\ bridge'[Peer(t, r)].local_grants = bridge[Peer(t, r)].local_grants
          /\ bridge'[t].local_grants = bridge[t].local_grants
      BY <1>4, <1>5, <2>1, <2>2, Zenon
    <2> QED
      BY <1>2, <1>5, <2>1, <2>2, <2>3, KnownKept, Zenon
  <1>10. RecordInv'
    BY <1>2, VaultKept, Zenon DEF TogetherInv
  <1> QED
    BY <1>5, <1>7, <1>8, <1>9, <1>10, Zenon DEF TogetherInv, PairInv

\* The peer says that it stored its record: the record has the grants of the side.
LEMMA StoredReceived ==
    ASSUME TypeOK, TogetherInv, NEW s \in Sides, receive_stored(s)
    PROVE  TogetherInv'
  <1> DEFINE f0 == Head(Inbox(s))
             b == [bridge[s] EXCEPT !.peer_stored = TRUE]
             w == Wire(s)
             q == Peer(s, w)
  <1>1. Custodian \in Sides /\ Custodian \notin Requesters /\ Requesters \subseteq Sides
        /\ None \notin Grants
    BY SidesAssumption DEF Sides, None
  <1>2. /\ bridge[s].phase = "Storage"
        /\ w \in Requesters /\ link[w].conn = bridge[s].conn
        /\ bridge' = [bridge EXCEPT ![s] = b]
        /\ typed' = typed /\ vault' = vault /\ opened' = opened /\ wrote' = wrote
        /\ f0.type = "stored"
    BY DEF receive_stored, At, NextIs, Connected
  <1>3. LinkStep(s, {}) /\ f0 \in In(Out(q, w))
    BY TakeStep DEF receive_stored, NextIs
  <1>4. /\ b.peer = bridge[s].peer /\ b.conn = bridge[s].conn /\ b.phase = "Storage"
        /\ b.local_grants = bridge[s].local_grants /\ b.peer_grants = bridge[s].peer_grants
    BY <1>2 DEF TypeOK, Bridges
  <1>6. /\ q \in {w, Custodian} /\ q \in Sides /\ q # s /\ Peer(q, w) = s
        /\ (s = w \/ s = Custodian)
    BY <1>1, <1>2 DEF Peer, Wire
  <1>7. Holds(q, w, bridge[s].conn, bridge[s].local_grants)
    <2>1. SentInv(q, w) /\ KnownInv(q, w) /\ BridgeInv(s)
      BY <1>2, <1>6 DEF TogetherInv, PairInv
    <2>2. PICK g \in Grants : Holds(q, w, bridge[s].conn, g)
      BY <1>2, <1>3, <2>1 DEF SentInv
    <2>3. /\ bridge[s].peer_grants # None
          /\ bridge[s].peer_grants = bridge[s].local_grants
      BY <1>2, <2>1 DEF BridgeInv
    <2>4. OnIt(s, w, bridge[s].conn)
      BY <1>2 DEF OnIt, Working
    <2>5. g = bridge[s].peer_grants
      BY <1>6, <2>1, <2>2, <2>3, <2>4, Zenon DEF KnownInv
    <2> QED
      BY <2>2, <2>3, <2>5
  <1> HIDE DEF b, f0
  <1>5. /\ \A t \in Sides : t # s => bridge'[t] = bridge[t]
        /\ bridge'[s] = b
        /\ \A t \in Sides : \A r, n : OnIt(t, r, n)' <=> OnIt(t, r, n)
        /\ \A t \in Sides : Wire(t)' = Wire(t)
        /\ \A r \in Requesters : FreshInv(r)' /\ \A t \in {r, Custodian} : EarlyInv(t, r)'
    BY <1>2, <1>3, <1>4, LateStep, Zenon DEF Late
  <1>9. ASSUME NEW t \in Sides
        PROVE  BridgeInv(t)'
    <2>1. BridgeInv(t)
      BY DEF TogetherInv
    <2>2. CASE t = s
      BY <1>2, <1>4, <1>5, <2>1, <2>2, ZenonT(60) DEF BridgeInv, Early, Working, Holds
    <2>3. CASE t # s
      BY <1>2, <1>5, <2>1, <2>3, Zenon DEF BridgeInv, Holds
    <2> QED
      BY <2>2, <2>3
  <1>10. ASSUME NEW r \in Requesters, NEW t \in {r, Custodian}
        PROVE  SentInv(t, r)'
    <2>1. SentInv(t, r) /\ t \in Sides
      BY <1>1 DEF TogetherInv, PairInv
    <2>2. CASE In(Out(t, r)') = {}
      BY <2>2, Zenon DEF SentInv
    <2>3. CASE In(Out(t, r)') # {}
      <3>1. link'[r].conn = link[r].conn /\ In(Out(t, r)') \subseteq In(Out(t, r))
        BY <1>3, <2>3, OutShrinks, Zenon
      <3>2. /\ OnIt(t, r, link[r].conn)' => OnIt(t, r, link[r].conn)
            /\ bridge'[t].local_grants = bridge[t].local_grants
        BY <1>4, <1>5, <2>1, <3>1, Zenon DEF OnIt
      <3> QED
        BY <1>2, <2>1, <3>1, <3>2, Zenon DEF SentInv, Holds
    <2> QED
      BY <2>2, <2>3
  <1>11. ASSUME NEW r \in Requesters, NEW t \in {r, Custodian}
        PROVE  KnownInv(t, r)'
    <2>1. Peer(t, r) \in Sides /\ Peer(t, r)' = Peer(t, r) /\ Peer(t, r) # t
      BY <1>1 DEF Peer
    <2>2. KnownInv(t, r) /\ t \in Sides
      BY <1>1 DEF TogetherInv, PairInv
    <2>3. CASE Peer(t, r) = s
      <3>1. CASE r = w
        <4>1. t = q
          BY <1>1, <2>3, <3>1 DEF Peer
        <4>2. /\ bridge'[s].conn = bridge[s].conn /\ bridge'[s].peer_grants = bridge[s].peer_grants
              /\ bridge'[s].local_grants = bridge[s].local_grants /\ bridge'[t] = bridge[t]
          BY <1>4, <1>5, <2>1, <2>2, <2>3, Zenon
        <4>3. \A n : (OnIt(s, r, n)' => OnIt(s, r, n)) /\ (OnIt(t, r, n)' => OnIt(t, r, n))
          BY <1>5, <2>2, Zenon
        <4>4. \A n, g : Holds(t, r, n, g)' <=> Holds(t, r, n, g)
          BY <1>2, Zenon DEF Holds
        <4>5. Holds(t, r, bridge[s].conn, bridge[s].local_grants)
          BY <1>7, <3>1, <4>1, Zenon
        <4> QED
          BY <2>1, <2>2, <2>3, <4>2, <4>3, <4>4, <4>5, Zenon DEF KnownInv
      <3>2. CASE r # w
        BY <1>5, <2>1, <2>3, <3>2, Zenon DEF KnownInv, OnIt
      <3> QED
        BY <3>1, <3>2
    <2>4. CASE Peer(t, r) # s
      <3>1. /\ bridge'[Peer(t, r)].conn = bridge[Peer(t, r)].conn
            /\ bridge'[Peer(t, r)].peer_grants = bridge[Peer(t, r)].peer_grants
            /\ bridge'[Peer(t, r)].peer_stored = bridge[Peer(t, r)].peer_stored
            /\ bridge'[Peer(t, r)].local_grants = bridge[Peer(t, r)].local_grants
            /\ bridge'[t].local_grants = bridge[t].local_grants
        BY <1>4, <1>5, <2>1, <2>2, <2>4, Zenon
      <3> QED
        BY <1>2, <1>5, <2>1, <2>2, <3>1, KnownKept, Zenon
    <2> QED
      BY <2>3, <2>4
  <1>12. RecordInv'
    BY <1>2, VaultKept, Zenon DEF TogetherInv
  <1> QED
    BY <1>5, <1>9, <1>10, <1>11, <1>12, Zenon DEF TogetherInv, PairInv

\* The pairing is activated: both sides have stored it.
LEMMA Activated ==
    ASSUME TypeOK, TogetherInv, CodeInv, NEW s \in Sides, activate_pairing(s)
    PROVE  TogetherInv'
  <1> DEFINE w == Wire(s)
             n == bridge[s].conn
             q == Peer(s, w)
  <1>1. Custodian \in Sides /\ Custodian \notin Requesters /\ Requesters \subseteq Sides
        /\ None \notin Grants
    BY SidesAssumption DEF Sides, None
  <1>2. /\ bridge[s].phase = "Storage" /\ bridge[s].peer_stored
        /\ vault' = [vault EXCEPT ![s].state = "confirmed"]
        /\ typed' = typed /\ wrote' = wrote /\ opened' = opened /\ link' = link
    BY DEF activate_pairing, is_confirmed
  <1>3. BridgeInv(s)
    BY DEF TogetherInv
  <1>4. vault[s] = [pair |-> <<w, n>>, grants |-> bridge[s].local_grants, state |-> "unconfirmed"]
    BY <1>2, <1>3 DEF BridgeInv
  <1>5. /\ vault'[s] = [pair |-> <<w, n>>, grants |-> bridge[s].local_grants, state |-> "confirmed"]
        /\ \A t \in Sides : t # s => vault'[t] = vault[t]
    BY <1>2, <1>4 DEF TypeOK
  <1>6. w \in Requesters /\ (s # Custodian => s = w) /\ typed[w]
    <2>1. w \in Requesters /\ (s # Custodian => s = w)
      BY <1>1, <1>2, <1>3 DEF Wire, BridgeInv, Working, Sides
    <2>2. typed[w]
      BY <1>2, <2>1 DEF CodeInv, Keyed, Wire
    <2> QED
      BY <2>1, <2>2
  <1>7. Holds(q, w, n, bridge[s].local_grants)
    <2>1. q \in {w, Custodian} /\ Peer(q, w) = s
      BY <1>1, <1>6 DEF Peer
    <2>2. KnownInv(q, w)
      BY <1>6, <2>1 DEF TogetherInv, PairInv
    <2>3. OnIt(s, w, n)
      BY <1>2 DEF OnIt, Working
    <2> QED
      BY <1>2, <2>1, <2>2, <2>3 DEF KnownInv
  <1>8. /\ \A t \in Sides : BridgeInv(t)'
        /\ \A r \in Requesters : PairInv(r)'
    <2>1. vault'[s] # NoRecord
      BY <1>5, SMTT(30) DEF NoRecord
    <2>2. \E d \in Nat : bridge' = [bridge EXCEPT ![s] = NewBridge("Completed", d)]
      BY EndedType DEF activate_pairing, Phases
    <2>3. LinkStep(s, {})
      BY <1>2, CloseStep
    <2> QED
      BY <1>2, <1>5, <2>1, <2>2, <2>3, Reset, ZenonT(60)
  <1>9. RecordInv'
    <2> SUFFICES ASSUME NEW t \in Sides, vault'[t].state = "confirmed"
                 PROVE  LET r == vault'[t].pair[1]
                            other == IF t = Custodian THEN r ELSE Custodian
                        IN  /\ r \in Requesters
                            /\ typed'[r] /\ <<vault'[t].pair, vault'[t].grants>> \in wrote'[other]
      BY Zenon DEF RecordInv, ConfirmedTogether
    <2>1. CASE t = s
      BY <1>2, <1>5, <1>6, <1>7, <2>1 DEF Holds, Peer
    <2>2. CASE t # s
      BY <1>2, <1>5, <2>2 DEF TogetherInv, RecordInv, ConfirmedTogether
    <2> QED
      BY <2>1, <2>2, Zenon
  <1> QED
    BY <1>8, <1>9 DEF TogetherInv

\* The record of a ceremony that did not complete is revoked.
LEMMA Revoked ==
    ASSUME TypeOK, TogetherInv, NEW s \in Sides, revoke_unconfirmed(s)
    PROVE  TogetherInv'
  <1>1. /\ bridge[s].phase \in {"Expired", "Failed"} /\ vault[s].state = "unconfirmed"
        /\ vault' = [vault EXCEPT ![s] = [vault[s] EXCEPT !.state = "revoked"]]
        /\ typed' = typed /\ bridge' = bridge /\ link' = link /\ opened' = opened /\ wrote' = wrote
    BY DEF revoke_unconfirmed
  <1>2. /\ \A t \in Sides : t # s => vault'[t] = vault[t]
        /\ vault[s] # NoRecord
        /\ vault'[s] = [vault[s] EXCEPT !.state = "revoked"]
    BY <1>1 DEF TypeOK, NoRecord
  <1>3. vault'[s].state # "confirmed" /\ (vault'[s] = NoRecord => vault[s] = NoRecord)
    BY <1>1, <1>2 DEF NoRecord
  <1>4. ASSUME NEW t \in Sides
        PROVE  BridgeInv(t)'
    <2>1. BridgeInv(t)
      BY DEF TogetherInv
    <2>2. CASE t = s
      BY <1>1, <1>2, <1>3, <2>1, <2>2 DEF BridgeInv, Wire, Holds
    <2>3. CASE t # s
      BY <1>1, <1>2, <2>1, <2>3 DEF BridgeInv, Wire, Holds
    <2> QED
      BY <2>2, <2>3
  <1>5. ASSUME NEW r \in Requesters
        PROVE  PairInv(r)'
    <2>1. PairInv(r)
      BY DEF TogetherInv
    <2>2. FreshInv(r)'
      BY <1>1, <2>1 DEF PairInv, FreshInv, OnIt, Wire
    <2>3. ASSUME NEW t \in {r, Custodian}
          PROVE  EarlyInv(t, r)' /\ SentInv(t, r)' /\ KnownInv(t, r)'
      <3>1. EarlyInv(t, r) /\ SentInv(t, r) /\ KnownInv(t, r)
        BY <2>1 DEF PairInv
      <3>2. Out(t, r)' = Out(t, r) /\ Peer(t, r)' = Peer(t, r)
        BY <1>1 DEF Out, Peer
      <3>3. EarlyInv(t, r)' /\ SentInv(t, r)'
        BY <1>1, <3>1, <3>2 DEF EarlyInv, SentInv, OnIt, Holds, Wire
      <3>4. KnownInv(t, r)'
        BY <1>1, <3>1, <3>2 DEF KnownInv, OnIt, Holds, Wire
      <3> QED
        BY <3>3, <3>4
    <2> QED
      BY <2>2, <2>3 DEF PairInv
  <1>6. RecordInv'
    BY <1>1, <1>2, <1>3, ZenonT(60) DEF TogetherInv, RecordInv, ConfirmedTogether
  <1> QED
    BY <1>4, <1>5, <1>6 DEF TogetherInv

\* A requester opens a connection: its number is new, so no side works on it and
\* no record names it.
LEMMA Bootstrapped ==
    ASSUME TypeOK, TogetherInv, NEW s \in Requesters, bootstrap_bytes(s)
    PROVE  TogetherInv'
  <1> DEFINE new == [Down EXCEPT !.up = TRUE, !.conn = opened + 1,
                                 !.toR = <<Frame("offer", None)>>]
  <1>1. Custodian \in Sides /\ Custodian \notin Requesters /\ Requesters \subseteq Sides
        /\ None \notin Grants
    BY SidesAssumption DEF Sides, None
  <1>2. /\ ~link[s].up /\ vault[s] = NoRecord
        /\ opened \in Nat /\ opened' = opened + 1
        /\ bridge' = [bridge EXCEPT ![s] = NewBridge("none", 0)]
        /\ link' = link \/ link' = [link EXCEPT ![s] = new]
        /\ typed' = typed /\ vault' = vault /\ wrote' = wrote
    BY DEF bootstrap_bytes, TypeOK
  <1>3. /\ \A t \in Sides : t # s => bridge'[t] = bridge[t]
        /\ bridge'[s].phase = "none" /\ bridge'[s].conn = 0 /\ ~bridge'[s].peer_stored
        /\ bridge'[s].local_grants = None /\ bridge'[s].peer_grants = None
    BY <1>1, <1>2 DEF TypeOK, NewBridge
  <1>4. /\ \A r \in Requesters : r # s => link'[r] = link[r]
        /\ link'[s] = link[s] \/ link'[s] = new
    BY <1>2 DEF TypeOK
  <1>5. /\ new.up /\ new.conn = opened + 1 /\ new.toC = <<>>
        /\ In(new.toC) = {} /\ In(new.toR) = {Frame("offer", None)}
    BY EmptyIn DEF Down, In
  <1>6. link[s] = Down /\ Down.toC = <<>> /\ In(Down.toC) = {} /\ In(Down.toR) = {}
        /\ Down.conn = 0
    BY <1>2, DownIsLink DEF TogetherInv, PairInv, FreshInv, Down
  <1> HIDE DEF new
  <1>7. ASSUME NEW t \in Sides
        PROVE  BridgeInv(t)' /\ bridge[t].conn <= opened /\ bridge[t].conn \in Nat
    <2>1. BridgeInv(t) /\ bridge[t].conn \in Nat
      BY Zenon DEF TogetherInv, TypeOK, Bridges
    <2>2. CASE t = s
      <3>1. (bridge[t].conn <= opened)'
        BY <1>2, <1>3, <2>2
      <3>2. wrote'[s] = {}
        BY <1>2, <2>1, <2>2, Zenon DEF BridgeInv
      <3>3. "none" \notin Working
        BY DEF Working
      <3>4. BridgeInv(t)'
        BY <1>3, <2>2, <3>1, <3>2, <3>3, BridgeEarly
      <3>5. bridge[t].conn <= opened
        BY <2>1, Zenon DEF BridgeInv
      <3> QED
        BY <2>1, <3>4, <3>5, Zenon
    <2>3. CASE t # s
      <3>1. bridge[t].conn <= opened
        BY <2>1, Zenon DEF BridgeInv
      <3>2. (bridge[t].conn <= opened)'
        BY <1>2, <1>3, <2>1, <2>3, <3>1
      <3> QED
        BY <1>2, <1>3, <2>1, <2>3, <3>2, Zenon DEF BridgeInv, Wire, Holds
    <2> QED
      BY <2>1, <2>2, <2>3, Zenon DEF BridgeInv
  <1>8. ASSUME NEW r \in Requesters
        PROVE  PairInv(r)'
    <2>1. PairInv(r) /\ r \in Sides /\ r # Custodian /\ link[r].conn \in Nat
      BY <1>1, Zenon DEF TogetherInv, TypeOK, Links
    <2>2. FreshInv(r)'
      <3>1. CASE r = s
        <4>1. link'[s] = Down \/ link'[s] = new
          BY <1>4, <1>6, Zenon
        <4>2. (link[s].conn <= opened)'
          BY <1>2, <1>5, <1>6, <4>1
        <4>3. ~link'[s].up => link'[s] = Down
          BY <1>5, <4>1, Zenon
        <4>4. link'[s].toC = <<>>
          BY <1>5, <1>6, <4>1, Zenon
        <4>5. bridge'[Custodian].conn # opened + 1
          <5>1. bridge'[Custodian] = bridge[Custodian]
            BY <1>1, <1>3, Zenon
          <5> QED
            BY <1>1, <1>2, <1>7, <5>1
        <4>6. link'[s].up => link'[s].conn = opened + 1
          BY <4>1, <1>5 DEF Down
        <4>7. link'[s].up => ~OnIt(Custodian, s, link[s].conn)'
          BY <4>5, <4>6, Zenon DEF OnIt
        <4> QED
          BY <3>1, <4>2, <4>3, <4>4, <4>7, Zenon DEF FreshInv
      <3>2. CASE r # s
        <4>1. /\ link'[r] = link[r] /\ bridge'[r] = bridge[r]
              /\ bridge'[Custodian] = bridge[Custodian]
          BY <1>1, <1>3, <1>4, <2>1, <3>2, Zenon
        <4>2. link[r].conn <= opened
          BY <2>1, Zenon DEF PairInv, FreshInv
        <4>3. (link[r].conn <= opened)'
          BY <1>2, <2>1, <4>1, <4>2
        <4> QED
          BY <2>1, <4>1, <4>3, Zenon DEF PairInv, FreshInv, OnIt, Wire
      <3> QED
        BY <3>1, <3>2
    <2>3. ASSUME NEW t \in {r, Custodian}
          PROVE  EarlyInv(t, r)' /\ SentInv(t, r)'
      <3>1. EarlyInv(t, r) /\ SentInv(t, r) /\ t \in Sides
        BY <1>1, <2>1, Zenon DEF PairInv
      <3>2. CASE r = s
        <4>1. In(Out(t, r)') \subseteq {Frame("offer", None)}
          BY <1>4, <1>5, <1>6, <3>2 DEF Out
        <4>2. \A f \in In(Out(t, r)') : f.type = "offer"
          BY <4>1 DEF Frame
        <4> QED
          BY <1>3, <3>2, <4>2, Zenon DEF EarlyInv, SentInv
      <3>3. CASE r # s
        <4>1. t # s /\ Out(t, r)' = Out(t, r) /\ bridge'[t] = bridge[t] /\ bridge'[r] = bridge[r]
          BY <1>1, <1>3, <1>4, <2>1, <3>1, <3>3, Zenon DEF Out
        <4> QED
          BY <1>2, <1>4, <3>1, <3>3, <4>1, ZenonT(60) DEF EarlyInv, SentInv, OnIt, Holds, Wire
      <3> QED
        BY <3>2, <3>3
    <2>4. ASSUME NEW t \in {r, Custodian}
          PROVE  KnownInv(t, r)'
      <3>1. Peer(t, r) \in Sides /\ Peer(t, r)' = Peer(t, r)
        BY <1>1 DEF Peer
      <3>2. KnownInv(t, r) /\ t \in Sides
        BY <1>1, <2>1, Zenon DEF PairInv
      <3> QED
        BY <1>2, <1>3, <3>1, <3>2, ZenonT(60) DEF KnownInv, OnIt, Holds, Wire, Working
    <2> QED
      BY <2>2, <2>3, <2>4 DEF PairInv
  <1>9. RecordInv'
    BY <1>2, VaultKept DEF TogetherInv
  <1> QED
    BY <1>7, <1>8, <1>9 DEF TogetherInv

\* A side begins the PAKE on a connection of r that the other side has no keys
\* of: the requester on the offer, the custodian on step 1.
LEMMA Begun ==
    ASSUME TypeOK, TogetherInv, UNCHANGED <<typed, vault, wrote, opened>>,
           NEW r0 \in Requesters, NEW s \in {r0, Custodian}, NEW F, LinkStep(s, F),
           \A f \in F : f.type = "step1",
           link[r0].up,
           IF s = Custodian THEN bridge[s].phase = "Offer" /\ link[r0].toC # <<>>
           ELSE bridge[s].phase = "none",
           NEW b, bridge' = [bridge EXCEPT ![s] = b],
           b.phase = "Cpace", b.conn = link[r0].conn, s = Custodian => b.peer = r0,
           b.local_grants = None, b.peer_grants = None, ~b.peer_stored
    PROVE  TogetherInv'
  <1>1. Custodian \in Sides /\ Custodian \notin Requesters /\ Requesters \subseteq Sides
        /\ None \notin Grants
    BY SidesAssumption, Zenon DEF Sides, None
  <1>2. /\ \A t \in Sides : t # s => bridge'[t] = bridge[t]
        /\ s \in Sides /\ bridge'[s] = b
        /\ Wire(s)' = r0
        /\ bridge[s].phase \in Early
    BY <1>1, Zenon DEF TypeOK, Wire, Early
  <1>3. ASSUME NEW t \in Sides
        PROVE  BridgeInv(t)'
    <2>1. BridgeInv(t)
      BY Zenon DEF TogetherInv
    <2>2. CASE t = s
      <3>1. link[r0].conn <= opened
        BY Zenon DEF TogetherInv, PairInv, FreshInv
      <3> QED
        <4>1. wrote'[s] = {}
          BY <1>2, <2>1, <2>2, Zenon DEF BridgeInv
        <4> QED
          BY <1>2, <2>2, <3>1, <4>1, BridgeEarly, ZenonT(60)
    <2>3. CASE t # s
      BY <1>2, <2>1, <2>3, ZenonT(60) DEF BridgeInv, Wire, Holds
    <2> QED
      BY <2>2, <2>3, Zenon
  <1>4. ASSUME NEW r \in Requesters
        PROVE  PairInv(r)'
    <2>1. PairInv(r) /\ r \in Sides /\ r # Custodian
      BY <1>1, Zenon DEF TogetherInv
    <2>2. FreshInv(r)'
      <3>1. CASE link'[r] = Down
        BY <3>1, FreshDown, Zenon
      <3>2. CASE link'[r] # Down
        <4>1. /\ link'[r].up = link[r].up /\ link'[r].conn = link[r].conn
              /\ link[r].toC = <<>> /\ s # r => link'[r].toC = <<>>
              /\ ~link[r].up => link'[r] = link[r]
          BY <1>2, <3>2, LinkKept, ZenonT(60)
        <4>2. CASE s = r
          BY <1>2, <2>1, <4>1, <4>2, Zenon DEF FreshInv, PairInv
        <4>3. CASE s # r /\ s # Custodian
          BY <1>1, <1>2, <2>1, <4>1, <4>3, Zenon DEF FreshInv, PairInv, OnIt, Wire
        <4>4. CASE s = Custodian
          BY <1>1, <1>2, <2>1, <4>1, <4>4, ZenonT(60) DEF FreshInv, PairInv, OnIt, Wire
        <4> QED
          BY <4>2, <4>3, <4>4, Zenon
      <3> QED
        BY <3>1, <3>2, Zenon
    <2>3. ASSUME NEW t \in {r, Custodian}
          PROVE  EarlyInv(t, r)' /\ SentInv(t, r)'
      <3>1. EarlyInv(t, r) /\ SentInv(t, r) /\ t \in Sides
        BY <1>1, <2>1, Zenon DEF PairInv
      <3>2. \/ In(Out(t, r)') = {}
            \/ link'[r].conn = link[r].conn /\ In(Out(t, r)') \subseteq In(Out(t, r)) \cup F
        BY <1>2, OutGrows, ZenonT(60)
      <3>3. CASE t = s
        <4>1. \A f \in In(Out(t, r)) : f.type \notin {"confirmation", "stored"}
          BY <1>1, <3>1, <3>3, Zenon DEF EarlyInv, Early
        <4>2. \A f \in In(Out(t, r)') : f.type \notin {"confirmation", "stored"}
          BY <3>2, <4>1, Zenon
        <4>3. s = Custodian => bridge'[r].peer_grants = None
          BY <1>2, <2>1, <3>1, <3>3, Zenon DEF EarlyInv
        <4> QED
          BY <3>3, <4>2, <4>3, Zenon DEF EarlyInv, SentInv
      <3>4. CASE t # s
        <4>1. bridge'[t] = bridge[t] /\ In(Out(t, r)') \subseteq In(Out(t, r))
          BY <1>2, <3>1, <3>4, OutGrows, ZenonT(60)
        <4>2. bridge[r].peer_grants = None => bridge'[r].peer_grants = None
          BY <1>2, <2>1, Zenon
        <4>3. EarlyInv(t, r)'
          BY <3>1, <4>1, <4>2, Zenon DEF EarlyInv
        <4>4. SentInv(t, r)'
          BY <3>1, <3>2, <4>1, ZenonT(60) DEF SentInv, OnIt, Holds, Wire
        <4> QED
          BY <4>3, <4>4, Zenon
      <3> QED
        BY <3>3, <3>4, Zenon
    <2>4. ASSUME NEW t \in {r, Custodian}
          PROVE  KnownInv(t, r)'
      <3>1. Peer(t, r) \in Sides /\ Peer(t, r)' = Peer(t, r) /\ Peer(t, r) # t
        BY <1>1, Zenon DEF Peer
      <3>2. KnownInv(t, r) /\ EarlyInv(t, r) /\ FreshInv(r) /\ t \in Sides
        BY <1>1, <2>1, Zenon DEF PairInv
      <3>3. CASE Peer(t, r) = s
        BY <1>2, <3>1, <3>3, Zenon DEF KnownInv
      <3>4. CASE Peer(t, r) # s /\ t # s
        BY <1>2, <3>1, <3>2, <3>4, ZenonT(60) DEF KnownInv, OnIt, Holds, Wire
      <3>5. CASE Peer(t, r) # s /\ t = s
        <4>1. CASE s = Custodian
          <5>1. t = Custodian /\ Peer(t, r) = r /\ r # s /\ bridge'[r] = bridge[r]
            BY <1>1, <1>2, <2>1, <3>5, <4>1, Zenon DEF Peer
          <5>2. bridge[r].peer_grants = None
            BY <1>1, <3>2, <3>5, <4>1, <5>1, Zenon DEF EarlyInv, Early
          <5>3. \A n : OnIt(r, r, n)' => OnIt(r, r, n)
            BY <2>1, <5>1, Zenon DEF OnIt, Wire
          <5> QED
            BY <3>1, <3>2, <5>1, <5>2, <5>3, Zenon DEF KnownInv, Holds
        <4>2. CASE s # Custodian
          <5>1. r = s /\ r0 = s /\ Peer(t, r) = Custodian
            BY <1>1, <3>5, <4>2, Zenon DEF Peer
          <5>2. ~OnIt(Custodian, r, link[r].conn)
            BY <3>2, <5>1, <4>2, Zenon DEF FreshInv
          <5> QED
            <6>1. bridge'[Custodian] = bridge[Custodian] /\ Custodian # s
              BY <1>1, <1>2, <4>2, Zenon
            <6>2. \A n : OnIt(Custodian, r, n)' => OnIt(Custodian, r, n)
              BY <6>1, Zenon DEF OnIt, Wire
            <6>3. \A n : OnIt(s, r, n)' => n = link[r].conn
              BY <1>2, <5>1, Zenon DEF OnIt
            <6>4. OnIt(Custodian, r, bridge[Custodian].conn)' => bridge'[Custodian].conn # link[r].conn
              BY <5>2, <6>1, <6>2, Zenon
            <6> QED
              BY <3>1, <3>2, <3>5, <5>1, <6>1, <6>2, <6>3, <6>4, ZenonT(60) DEF KnownInv, Holds
        <4> QED
          BY <4>1, <4>2, Zenon
      <3> QED
        BY <3>3, <3>4, <3>5, Zenon
    <2> QED
      BY <2>2, <2>3, <2>4, Zenon DEF PairInv
  <1>5. RecordInv'
    BY VaultKept, Zenon DEF TogetherInv
  <1> QED
    BY <1>3, <1>4, <1>5, Zenon DEF TogetherInv

\* The invariant holds before anything is sent.
LEMMA InitHolds == Init => IInv
  <1> SUFFICES ASSUME Init PROVE IInv
    OBVIOUS
  <1>1. TypeOK
    BY TypeInit
  <1>2. Custodian \in Sides /\ Custodian \notin Requesters /\ Requesters \subseteq Sides
    BY SidesAssumption DEF Sides
  <1>3. /\ bridge[Custodian].phase = "Offer" /\ \A r \in Requesters : bridge[r].phase = "none"
        /\ \A s \in Sides : /\ bridge[s].conn = 0 /\ ~bridge[s].peer_stored
                            /\ bridge[s].local_grants = None /\ bridge[s].peer_grants = None
                            /\ vault[s] = NoRecord /\ wrote[s] = {} /\ bridge[s].phase \in {"none", "Offer"}
        /\ \A r \in Requesters : link[r] = Down
        /\ opened = 0 /\ slot.last = 0 /\ now = 1 /\ guesses = 0
    BY <1>2, Zenon DEF Init, NewBridge, Never
  <1>4. SpacingInv
    BY <1>3 DEF SpacingInv, Pending, Never
  <1>5. CodeInv
    BY <1>3, DownIsLink, Zenon DEF CodeInv, Keyed
  <1>6. \A s \in Sides : BridgeInv(s)
    BY <1>3, SMTT(30) DEF BridgeInv, Working
  <1>7. ASSUME NEW r \in Requesters
        PROVE  PairInv(r)
    <2>1. FreshInv(r)
      BY <1>2, <1>3, DownIsLink, SMTT(30) DEF FreshInv, Down
    <2>2. \A s \in {r, Custodian} : In(Out(s, r)) = {}
      BY <1>3, DownIsLink, Zenon DEF Out
    <2>3. \A s \in {r, Custodian} : EarlyInv(s, r) /\ SentInv(s, r)
      BY <1>2, <1>3, <2>2, Zenon DEF EarlyInv, SentInv
    <2>4. \A s \in {r, Custodian} : Peer(s, r) \in Sides
      BY <1>2 DEF Peer
    <2>5. \A s \in {r, Custodian} : KnownInv(s, r)
      BY <1>3, <2>4, Zenon DEF KnownInv
    <2> QED
      BY <2>1, <2>3, <2>5 DEF PairInv
  <1>8. RecordInv
    BY <1>3, SMTT(30) DEF RecordInv, ConfirmedTogether, NoRecord
  <1> QED
    BY <1>1, <1>4, <1>5, <1>6, <1>7, <1>8 DEF IInv, TogetherInv

\* The end of a ceremony keeps both invariants.
LEMMA EndKeeps ==
    ASSUME TypeOK, CodeInv, TogetherInv, UNCHANGED <<typed, vault, wrote, opened>>,
           NEW s \in Sides, LinkStep(s, {}),
           NEW p \in {"Offer", "Completed", "Expired", "Failed"}, NEW d,
           bridge' = [bridge EXCEPT ![s] = NewBridge(p, d)],
           p = "Offer" => bridge[s].phase \in {"Offer", "Cpace"}
    PROVE  CodeInv' /\ TogetherInv'
  <1> DEFINE b == NewBridge(p, d)
             F == {}
  <1>1. /\ b.phase = p /\ p \notin Keyed /\ p # "Cpace"
        /\ LinkStep(s, F) /\ (\A f \in F : f.type \notin {"step2", "step3"})
        /\ bridge' = [bridge EXCEPT ![s] = b]
    BY Zenon DEF NewBridge, Keyed
  <1>2. CodeInv'
    <2> HIDE DEF b, F
    <2> QED
      BY <1>1, CodeKept, Zenon
  <1>3. /\ \A t \in Sides : BridgeInv(t)'
        /\ \A r \in Requesters : PairInv(r)'
    BY Reset, Zenon
  <1>4. RecordInv'
    BY VaultKept DEF TogetherInv
  <1> QED
    BY <1>2, <1>3, <1>4 DEF TogetherInv

\* A step within the ceremony that says nothing of code, grants or record.
LEMMA QuietKeeps ==
    ASSUME TypeOK, CodeInv, TogetherInv, UNCHANGED <<typed, vault, wrote, opened>>,
           NEW s \in Sides, NEW F, LinkStep(s, F),
           \A f \in F : f.type \in {"noise", "hello"},
           NEW b, bridge' = [bridge EXCEPT ![s] = b],
           F # {} => bridge[s].phase \in Working,
           b.peer = bridge[s].peer, b.conn = bridge[s].conn,
           b.local_grants = bridge[s].local_grants, b.peer_grants = bridge[s].peer_grants,
           b.peer_stored = bridge[s].peer_stored,
           \/ b.phase = bridge[s].phase /\ (b.phase = "Cpace" => b.step = bridge[s].step)
           \/ bridge[s].phase = "Handshake" /\ b.phase = "Confirmation"
    PROVE  CodeInv' /\ TogetherInv'
  <1>1. CodeInv'
    BY CodeKept, Zenon DEF Keyed
  <1>2. TogetherInv'
    BY Harmless, Zenon
  <1> QED
    BY <1>1, <1>2

-----------------------------------------------------------------------------
(* Every step *)

\* A requester's steps keep what the code and the grants on the wire prove.
LEMMA RequesterKeeps ==
    ASSUME TypeOK, CodeInv, TogetherInv, NEW r \in Requesters, RequesterStep(r)
    PROVE  CodeInv' /\ TogetherInv'
  <1>1. Custodian \in Sides /\ Custodian \notin Requesters /\ r \in Sides /\ r # Custodian
        /\ bridge[r] \in Bridges /\ bridge[Custodian] \in Bridges /\ link[r] \in Links
        /\ Requesters \subseteq Sides
    BY SidesAssumption, Zenon DEF Sides, TypeOK
  <1>2. CASE bootstrap_bytes(r)
    <2>1. TogetherInv'
      BY <1>2, Bootstrapped
    <2>2. CodeInv'
      <3> DEFINE new == [Down EXCEPT !.up = TRUE, !.conn = opened + 1,
                                     !.toR = <<Frame("offer", None)>>]
      <3>1. In(new.toC) = {} /\ In(new.toR) = {Frame("offer", None)}
        BY EmptyIn DEF Down, In
      <3>2. \A t \in Requesters : link'[t] = link[t] \/ link'[t] = new
        BY <1>2 DEF bootstrap_bytes, TypeOK
      <3>3. /\ \A t \in Sides : t # r => bridge'[t] = bridge[t]
            /\ bridge'[r].phase = "none" /\ typed' = typed
        BY <1>1, <1>2 DEF bootstrap_bytes, TypeOK, NewBridge
      <3> HIDE DEF new
      <3>4. ASSUME NEW t \in Requesters
            PROVE  /\ \A f \in In(link'[t].toR) : f.type = "step2" /\ f.arg => typed[t]
                   /\ \A f \in In(link'[t].toC) : f.type = "step3" => typed[t]
        BY <3>1, <3>2, SMTT(30) DEF CodeInv, Frame
      <3>5. ASSUME NEW t \in Requesters
            PROVE  /\ bridge'[t].phase = "Cpace" /\ bridge'[t].step = 3 => typed[t]
                   /\ bridge'[t].phase \in Keyed => typed[t]
        BY <1>1, <3>3, Zenon DEF CodeInv, Keyed
      <3>6. bridge'[Custodian].phase \in Keyed => typed[bridge'[Custodian].peer]
        BY <1>1, <3>3, Zenon DEF CodeInv
      <3> QED
        BY <3>3, <3>4, <3>5, <3>6, Zenon DEF CodeInv
    <2> QED
      BY <2>1, <2>2
  <1>3. CASE from_bootstrap(r)
    <2> DEFINE b == [NewBridge("Cpace", now + OfferTtl)
                       EXCEPT !.step = 1, !.peer = Custodian, !.conn = link[r].conn]
               F == {Frame("step1", typed[r])}
    <2>1. /\ bridge[r].phase = "none" /\ link[r].up /\ link[r].toR # <<>>
          /\ bridge' = [bridge EXCEPT ![r] = b]
          /\ UNCHANGED <<typed, vault, wrote, opened>>
      BY <1>3 DEF from_bootstrap
    <2>2. /\ b.phase = "Cpace" /\ b.step = 1 /\ b.conn = link[r].conn
          /\ b.local_grants = None /\ b.peer_grants = None /\ ~b.peer_stored
      BY DEF NewBridge
    <2>3. LinkStep(r, F)
      <3>1. Frame("step1", typed[r]) \in Frames
        BY CodeFrameTypes
      <3>2. /\ link'[r] = [link[r] EXCEPT !.toR = Tail(link[r].toR),
                                          !.toC = Append(link[r].toC, Frame("step1", typed[r]))]
            /\ \A t \in Requesters : t # r => link'[t] = link[t]
        BY <1>1, <1>3 DEF from_bootstrap, Sent, Taken, TypeOK, Links
      <3>3. /\ Append(link[r].toC, Frame("step1", typed[r])) \in Seq(Frames)
            /\ In(Append(link[r].toC, Frame("step1", typed[r]))) = In(link[r].toC) \cup F
            /\ Tail(link[r].toR) \in Seq(Frames)
            /\ In(Tail(link[r].toR)) \subseteq In(link[r].toR)
        BY <1>1, <2>1, <3>1, AppendIn, TailIn DEF Links
      <3>4. link' \in [Requesters -> Links]
        BY <1>3, RequesterTypes, Zenon DEF RequesterStep, TypeOK
      <3>5. Grown(link[r], link'[r], F, {})
        BY <1>1, <2>1, <3>2, <3>3, ZenonT(60) DEF Grown, Links
      <3> QED
        BY <1>1, <3>2, <3>4, <3>5, SameGrown DEF LinkStep
    <2>4. /\ \A f \in F : f.type = "step1"
          /\ \A f \in F : f.type \notin {"step2", "step3"}
          /\ b.phase \notin Keyed /\ b.step # 3 /\ typed' = typed
      BY <2>1, <2>2 DEF Frame, Keyed
    <2> HIDE DEF b, F
    <2>5. TogetherInv'
      BY <1>1, <2>1, <2>2, <2>3, <2>4, Begun, Zenon
    <2>6. CodeInv'
      BY <1>1, <2>1, <2>3, <2>4, CodeKept, Zenon
    <2> QED
      BY <2>5, <2>6
  <1>4. CASE begin_cpace(r)
    <2> DEFINE b == [NewBridge("Cpace", bridge[Custodian].deadline)
                       EXCEPT !.step = 1, !.peer = r, !.conn = link[r].conn]
               F == {}
    <2>1. link[r].up /\ link[r].toC # <<>> /\ UNCHANGED <<typed, vault, wrote, opened>>
      BY <1>4 DEF begin_cpace, Step1Waits
    <2>2. \A s \in Sides : LinkStep(s, F)
      BY <1>4, CloseStep DEF begin_cpace
    <2>3. CASE UNCHANGED bridge
      <3>1. bridge' = [bridge EXCEPT ![r] = bridge[r]]
        BY <1>1, <2>3, Zenon DEF TypeOK
      <3> QED
        BY <1>1, <2>1, <2>2, <3>1, QuietKeeps, Zenon
    <2>4. CASE bridge' # bridge
      <3>1. /\ bridge[Custodian].phase = "Offer"
            /\ bridge' = [bridge EXCEPT ![Custodian] = b]
        BY <1>4, <2>4 DEF begin_cpace, At
      <3>2. /\ b.phase = "Cpace" /\ b.step = 1 /\ b.peer = r /\ b.conn = link[r].conn
            /\ b.local_grants = None /\ b.peer_grants = None /\ ~b.peer_stored
            /\ \A f \in F : f.type = "step1"
        BY DEF NewBridge
      <3> HIDE DEF b, F
      <3>3. TogetherInv'
        BY <1>1, <2>1, <2>2, <3>1, <3>2, Begun, Zenon
      <3>4. CodeInv'
        BY <1>1, <2>1, <2>2, <3>1, <3>2, CodeKept, Zenon DEF Keyed
      <3> QED
        BY <3>3, <3>4
    <2> QED
      BY <2>3, <2>4
  <1>5. CASE read_step2(r)
    <2>1. bridge[r].phase = "Cpace" /\ UNCHANGED <<typed, vault, wrote, opened>>
      BY <1>5 DEF read_step2, At
    <2>2. CASE ~Head(Inbox(r)).arg
      <3>1. Ended(r, "Offer") /\ HangUp(r)
        BY <1>5, <2>2 DEF read_step2
      <3>2. PICK d \in Nat : bridge' = [bridge EXCEPT ![r] = NewBridge("Offer", d)]
        BY <1>1, <3>1, EndedType DEF Phases
      <3>3. LinkStep(r, {})
        BY <1>1, <3>1, CloseStep, Zenon
      <3> QED
        BY <1>1, <2>1, <3>2, <3>3, EndKeeps, Zenon
    <2>3. CASE Head(Inbox(r)).arg
      <3> DEFINE b == [bridge[r] EXCEPT !.step = 3]
                 F == {}
      <3>1. bridge' = [bridge EXCEPT ![r] = b] /\ Take(r) /\ NextIs(r, "step2")
        BY <1>5, <2>3 DEF read_step2
      <3>2. /\ LinkStep(r, F) /\ Head(Inbox(r)) \in In(link[r].toR)
            /\ Head(Inbox(r)).type = "step2"
        BY <1>1, <3>1, TakeStep DEF NextIs, Out, Peer, Wire
      <3>3. typed[r]
        BY <2>3, <3>2, Zenon DEF CodeInv
      <3>4. /\ b.peer = bridge[r].peer /\ b.conn = bridge[r].conn /\ b.phase = "Cpace"
            /\ b.local_grants = bridge[r].local_grants /\ b.peer_grants = bridge[r].peer_grants
            /\ b.peer_stored = bridge[r].peer_stored
        BY <1>1, <2>1 DEF Bridges
      <3>5. /\ \A f \in F : f.type \notin {"confirmation", "stored"}
            /\ \A f \in F : f.type = "step3"
            /\ F # {} => bridge[r].phase \in Working
        OBVIOUS
      <3> HIDE DEF b, F
      <3>6. TogetherInv'
        BY <1>1, <2>1, <3>1, <3>2, <3>4, <3>5, Harmless, Zenon
      <3>7. CodeInv'
        BY <1>1, <2>1, <3>1, <3>2, <3>3, <3>4, <3>5, CodePassed, Zenon
      <3> QED
        BY <3>6, <3>7
    <2> QED
      BY <2>2, <2>3
  <1>6. CASE write_step3(r)
    <2> DEFINE b == Handshake(r)
               F == {Frame("step3", TRUE)}
    <2>1. /\ bridge[r].phase = "Cpace" /\ bridge[r].step = 3
          /\ bridge' = [bridge EXCEPT ![r] = b]
          /\ UNCHANGED <<typed, vault, wrote, opened>>
      BY <1>6 DEF write_step3, At
    <2>2. LinkStep(r, F)
      BY <1>1, <1>6, SendStep, CodeFrameTypes, Zenon DEF write_step3
    <2>3. /\ b.peer = bridge[r].peer /\ b.conn = bridge[r].conn /\ b.phase = "Handshake"
          /\ b.local_grants = bridge[r].local_grants /\ b.peer_grants = bridge[r].peer_grants
          /\ b.peer_stored = bridge[r].peer_stored
      BY <1>1 DEF Handshake, Bridges
    <2>4. \A f \in F : f.type = "step3"
      BY DEF Frame
    <2>5. typed[r]
      BY <2>1, Zenon DEF CodeInv
    <2> HIDE DEF b, F
    <2>6. TogetherInv'
      BY <1>1, <2>1, <2>2, <2>3, <2>4, Harmless, Zenon DEF Working
    <2>7. CodeInv'
      BY <1>1, <2>1, <2>2, <2>4, <2>5, CodePassed, Zenon
    <2> QED
      BY <2>6, <2>7
  <1>7. CASE link_lost(r)
    <2>1. LinkStep(r, {})
      BY <1>1, <1>7, CloseStep, Zenon DEF link_lost
    <2>2. bridge' = [bridge EXCEPT ![r] = bridge[r]]
      BY <1>1, <1>7, Zenon DEF link_lost, TypeOK
    <2> QED
      BY <1>1, <1>7, <2>1, <2>2, QuietKeeps, Zenon DEF link_lost
  <1> QED
    BY <1>2, <1>3, <1>4, <1>5, <1>6, <1>7 DEF RequesterStep

\* The custodian's code steps and the clock keep it.
LEMMA CustodianKeeps ==
    ASSUME TypeOK, CodeInv, TogetherInv, read_step1 \/ write_step2 \/ read_step3 \/ Tick
    PROVE  CodeInv' /\ TogetherInv'
  <1> DEFINE c == Custodian
             w == bridge[c].peer
  <1>1. c \in Sides /\ c \notin Requesters /\ bridge[c] \in Bridges
        /\ bridge[c].deadline \in Nat /\ Wire(c) = w /\ Requesters \subseteq Sides
    BY SidesAssumption, Zenon DEF Sides, TypeOK, Bridges, Wire
  <1>2. ASSUME bridge' = [bridge EXCEPT ![c] = NewBridge("Offer", bridge[c].deadline)],
               HangUp(Wire(c)), Connected(c), bridge[c].phase = "Cpace",
               UNCHANGED <<typed, vault, wrote, opened>>
        PROVE  CodeInv' /\ TogetherInv'
    <2>1. LinkStep(c, {})
      BY <1>1, <1>2, CloseStep, Zenon DEF Connected
    <2> QED
      BY <1>1, <1>2, <2>1, EndKeeps, Zenon
  <1>3. CASE read_step1
    <2>1. bridge[c].phase = "Cpace" /\ UNCHANGED <<typed, vault, wrote, opened>>
          /\ Connected(c) /\ Inbox(c) # <<>>
      BY <1>3 DEF read_step1, At, NextIs
    <2>2. CASE bridge' = [bridge EXCEPT ![c] = NewBridge("Offer", bridge[c].deadline)]
                 /\ HangUp(Wire(c))
      BY <1>2, <2>1, <2>2
    <2>3. CASE bridge' = [bridge EXCEPT ![c].step = 2] /\ Take(c)
      <3> DEFINE b == [bridge[c] EXCEPT !.step = 2]
                 F == {}
      <3>1. bridge' = [bridge EXCEPT ![c] = b] /\ LinkStep(c, F)
        BY <1>1, <2>1, <2>3, TakeStep
      <3>2. /\ b.peer = bridge[c].peer /\ b.conn = bridge[c].conn /\ b.phase = "Cpace"
            /\ b.local_grants = bridge[c].local_grants /\ b.peer_grants = bridge[c].peer_grants
            /\ b.peer_stored = bridge[c].peer_stored /\ b.phase \notin Keyed
        BY <1>1, <2>1 DEF Bridges, Keyed
      <3>3. /\ \A f \in F : f.type \notin {"confirmation", "stored"}
            /\ \A f \in F : f.type \notin {"step2", "step3"}
            /\ F # {} => bridge[c].phase \in Working
        OBVIOUS
      <3> HIDE DEF b, F
      <3>4. TogetherInv'
        BY <1>1, <2>1, <3>1, <3>2, <3>3, Harmless, Zenon
      <3>5. CodeInv'
        BY <1>1, <2>1, <3>1, <3>2, <3>3, CodeKept, Zenon
      <3> QED
        BY <3>4, <3>5
    <2> QED
      BY <1>3, <2>2, <2>3 DEF read_step1
  <1>4. CASE write_step2
    <2>1. bridge[c].phase = "Cpace" /\ UNCHANGED <<typed, vault, wrote, opened>> /\ Connected(c)
      BY <1>4 DEF write_step2, At
    <2>2. CASE ~attempt_is_live
      BY <1>2, <1>4, <2>1, <2>2 DEF write_step2, custodian_attempt_failed
    <2>3. CASE attempt_is_live
      <3> DEFINE b == [bridge[c] EXCEPT !.step = 3]
                 f0 == Frame("step2", typed[w])
                 F == {f0}
      <3>1. bridge' = [bridge EXCEPT ![c] = b] /\ Send(c, f0) /\ w \in Requesters
        BY <1>1, <1>4, <2>1, <2>3 DEF write_step2, Connected
      <3>2. LinkStep(c, F)
        BY <1>1, <2>1, <3>1, SendStep, CodeFrameTypes
      <3>3. /\ b.peer = bridge[c].peer /\ b.conn = bridge[c].conn /\ b.phase = "Cpace"
            /\ b.local_grants = bridge[c].local_grants /\ b.peer_grants = bridge[c].peer_grants
            /\ b.peer_stored = bridge[c].peer_stored /\ b.phase \notin Keyed
        BY <1>1, <2>1 DEF Bridges, Keyed
      <3>4. /\ \A f \in F : f.type \notin {"confirmation", "stored"}
            /\ F # {} => bridge[c].phase \in Working
        BY <2>1, SMTT(30) DEF Frame, Working
      <3>5. f0.type = "step2" /\ (f0.arg => typed[w])
        BY Zenon DEF Frame
      <3> HIDE DEF b, f0
      <3>6. TogetherInv'
        <4> HIDE DEF F
        <4> QED
          BY <1>1, <2>1, <3>1, <3>2, <3>3, <3>4, Harmless, Zenon
      <3>7. CodeInv'
        <4>1. /\ \A t \in Sides : t # c => bridge'[t] = bridge[t]
              /\ bridge'[c].phase \notin Keyed
          BY <1>1, <3>1, <3>3, Zenon DEF TypeOK
        <4>2. ASSUME NEW r \in Requesters
              PROVE  /\ \A f \in In(link'[r].toR) : f.type = "step2" /\ f.arg => typed[r]
                     /\ \A f \in In(link'[r].toC) : f.type = "step3" => typed[r]
          <5>1. CASE link'[r] = Down
            BY <5>1, DownIsLink, Zenon
          <5>2. CASE link'[r] # Down
            <6>1. /\ In(link'[r].toC) \subseteq In(link[r].toC)
                  /\ In(link'[r].toR) \subseteq In(link[r].toR) \cup (IF r = w THEN {f0} ELSE {})
              BY <1>1, <3>2, <5>2, Zenon DEF LinkStep, Grown
            <6> QED
              BY <3>5, <6>1, Zenon DEF CodeInv
          <5> QED
            BY <5>1, <5>2, Zenon
        <4> QED
          BY <1>1, <2>1, <4>1, <4>2, ZenonT(60) DEF CodeInv
      <3> QED
        BY <3>6, <3>7
    <2> QED
      BY <2>2, <2>3
  <1>5. CASE read_step3
    <2>1. bridge[c].phase = "Cpace" /\ UNCHANGED <<typed, vault, wrote, opened>>
          /\ Connected(c) /\ NextIs(c, "step3")
      BY <1>5 DEF read_step3, At, NextIs
    <2>2. CASE ~attempt_is_live
      BY <1>2, <1>5, <2>1, <2>2 DEF read_step3, custodian_attempt_failed
    <2>3. CASE attempt_is_live
      <3> DEFINE b == Handshake(c)
                 F == {}
      <3>1. bridge' = [bridge EXCEPT ![c] = b] /\ Take(c) /\ w \in Requesters
        BY <1>1, <1>5, <2>1, <2>3 DEF read_step3, Connected
      <3>2. /\ LinkStep(c, F) /\ Head(Inbox(c)) \in In(link[w].toC)
            /\ Head(Inbox(c)).type = "step3"
        BY <1>1, <2>1, <3>1, TakeStep, Zenon DEF NextIs, Out, Peer
      <3>3. typed[w]
        BY <3>1, <3>2, Zenon DEF CodeInv
      <3>4. /\ b.peer = w /\ b.conn = bridge[c].conn /\ b.phase = "Handshake"
            /\ b.local_grants = bridge[c].local_grants /\ b.peer_grants = bridge[c].peer_grants
            /\ b.peer_stored = bridge[c].peer_stored
        BY <1>1 DEF Handshake, Bridges
      <3>5. /\ \A f \in F : f.type \notin {"confirmation", "stored"}
            /\ F # {} => bridge[c].phase \in Working
        OBVIOUS
      <3> HIDE DEF b
      <3>6. TogetherInv'
        <4> HIDE DEF F
        <4> QED
          BY <1>1, <2>1, <3>1, <3>2, <3>4, <3>5, Harmless, Zenon
      <3>7. CodeInv'
        <4>1. /\ \A t \in Sides : t # c => bridge'[t] = bridge[t]
              /\ bridge'[c].peer = w
          BY <1>1, <3>1, <3>4, Zenon DEF TypeOK
        <4>2. ASSUME NEW r \in Requesters
              PROVE  /\ \A f \in In(link'[r].toR) : f.type = "step2" /\ f.arg => typed[r]
                     /\ \A f \in In(link'[r].toC) : f.type = "step3" => typed[r]
          <5>1. CASE link'[r] = Down
            BY <5>1, DownIsLink
          <5>2. CASE link'[r] # Down
            <6>1. /\ In(link'[r].toC) \subseteq In(link[r].toC)
                  /\ In(link'[r].toR) \subseteq In(link[r].toR)
              BY <1>1, <3>2, <5>2, Zenon DEF LinkStep, Grown
            <6> QED
              BY <6>1, Zenon DEF CodeInv
          <5> QED
            BY <5>1, <5>2
        <4> QED
          BY <1>1, <2>1, <3>3, <4>1, <4>2, ZenonT(60) DEF CodeInv
      <3> QED
        BY <3>6, <3>7
    <2> QED
      BY <2>2, <2>3
  <1>6. CASE Tick
    <2>1. bridge' = [bridge EXCEPT ![c] = bridge[c]] /\ UNCHANGED <<typed, vault, wrote, opened>>
      BY <1>6, Zenon DEF Tick, TypeOK
    <2>2. LinkStep(c, {})
      BY <1>1, <1>6, CloseStep, Zenon DEF Tick
    <2> QED
      BY <1>1, <2>1, <2>2, QuietKeeps, Zenon
  <1> QED
    BY <1>3, <1>4, <1>5, <1>6

\* The steps both sides have keep it: a record is stored, then confirmed.
LEMMA SideKeeps ==
    ASSUME TypeOK, CodeInv, TogetherInv, NEW s \in Sides, SideStep(s)
    PROVE  CodeInv' /\ TogetherInv'
  <1>1. bridge[s] \in Bridges
    BY DEF TypeOK
  <1>2. ASSUME NEW p \in {"Offer", "Failed"}, Ended(s, p), LinkStep(s, {}),
               p = "Offer" => bridge[s].phase \in {"Offer", "Cpace"},
               UNCHANGED <<typed, vault, wrote, opened>>
        PROVE  CodeInv' /\ TogetherInv'
    <2>1. PICK d \in Nat : bridge' = [bridge EXCEPT ![s] = NewBridge(p, d)]
      BY <1>2, EndedType DEF Phases
    <2> QED
      BY <1>2, <2>1, EndKeeps, Zenon
  <1>3. UNCHANGED link => LinkStep(s, {})
    BY CloseStep
  <1>4. ASSUME NEW b \in Bridges, bridge' = [bridge EXCEPT ![s] = b],
               bridge[s].phase \in Keyed, b.phase \in Keyed, b.peer = bridge[s].peer,
               NEW F, LinkStep(s, F), \A f \in F : f.type \notin {"step2", "step3"},
               typed' = typed
        PROVE  CodeInv'
    BY <1>4, CodeKept, Zenon DEF Keyed
  <1>5. CASE require_live_offer(s)
    BY <1>3, <1>5, EndKeeps, Zenon DEF require_live_offer, AfterDeadline
  <1>6. CASE candidate_failed(s)
    <2>1. CASE Ended(s, "Failed")
      BY <1>2, <1>3, <1>6, <2>1, Zenon DEF candidate_failed
    <2>2. CASE Ended(s, "Offer") /\ At(s, "Cpace")
      BY <1>2, <1>3, <1>6, <2>2, Zenon DEF candidate_failed, At
    <2>3. CASE custodian_attempt_failed /\ At(s, "Cpace") /\ s = Custodian
      BY <1>3, <1>6, <2>3, EndKeeps, Zenon DEF candidate_failed, custodian_attempt_failed, At
    <2> QED
      BY <1>6, <2>1, <2>2, <2>3, Zenon DEF candidate_failed
  <1>7. CASE cancel_pairing(s)
    BY <1>2, <1>3, <1>7, Zenon DEF cancel_pairing
  <1>8. CASE write_handshake_frame(s)
    <2> DEFINE b == [bridge[s] EXCEPT !.step = bridge[s].step + 1]
               F == {Frame("noise", bridge[s].step + 1)}
    <2>1. bridge[s].phase = "Handshake" /\ bridge' = [bridge EXCEPT ![s] = b]
          /\ UNCHANGED <<typed, vault, wrote, opened>>
      BY <1>8 DEF write_handshake_frame, At
    <2>2. LinkStep(s, F)
      BY <1>8, SendStep, FrameTypes DEF write_handshake_frame
    <2>3. b.peer = bridge[s].peer /\ b.conn = bridge[s].conn /\ b.phase = bridge[s].phase
          /\ b.local_grants = bridge[s].local_grants /\ b.peer_grants = bridge[s].peer_grants
          /\ b.peer_stored = bridge[s].peer_stored
      BY <1>1 DEF Bridges
    <2>4. \A f \in F : f.type \in {"noise", "hello"}
      BY DEF Frame
    <2> HIDE DEF b, F
    <2> QED
      BY <2>1, <2>2, <2>3, <2>4, QuietKeeps, Zenon DEF Working
  <1>9. CASE read_handshake_frame(s)
    <2> DEFINE b == [bridge[s] EXCEPT !.step = bridge[s].step + 1]
    <2>1. bridge[s].phase = "Handshake" /\ bridge' = [bridge EXCEPT ![s] = b]
          /\ UNCHANGED <<typed, vault, wrote, opened>>
      BY <1>9 DEF read_handshake_frame, At
    <2>2. LinkStep(s, {})
      BY <1>9, TakeStep DEF read_handshake_frame, NextIs
    <2>3. b.peer = bridge[s].peer /\ b.conn = bridge[s].conn /\ b.phase = bridge[s].phase
          /\ b.local_grants = bridge[s].local_grants /\ b.peer_grants = bridge[s].peer_grants
          /\ b.peer_stored = bridge[s].peer_stored
      BY <1>1 DEF Bridges
    <2> HIDE DEF b
    <2> QED
      BY <2>1, <2>2, <2>3, QuietKeeps, Zenon
  <1>10. CASE enter_confirmation(s)
    <2> DEFINE b == [bridge[s] EXCEPT !.phase = "Confirmation", !.deadline = now + ConfirmWindow]
    <2>1. bridge[s].phase = "Handshake" /\ bridge' = [bridge EXCEPT ![s] = b]
          /\ UNCHANGED <<typed, link, vault, wrote, opened>>
      BY <1>10, Zenon DEF enter_confirmation, At, TypeOK
    <2>2. b.peer = bridge[s].peer /\ b.conn = bridge[s].conn /\ b.phase = "Confirmation"
          /\ b.local_grants = bridge[s].local_grants /\ b.peer_grants = bridge[s].peer_grants
          /\ b.peer_stored = bridge[s].peer_stored
      BY <1>1 DEF Bridges
    <2> HIDE DEF b
    <2> QED
      BY <1>3, <2>1, <2>2, QuietKeeps, Zenon
  <1>11. CASE send_hello(s)
    <2> DEFINE b == [bridge[s] EXCEPT !.hello_sent = TRUE]
               F == {Frame("hello", None)}
    <2>1. bridge[s].phase = "Confirmation" /\ bridge' = [bridge EXCEPT ![s] = b]
          /\ UNCHANGED <<typed, vault, wrote, opened>>
      BY <1>11 DEF send_hello, At
    <2>2. LinkStep(s, F)
      BY <1>11, SendStep, FrameTypes DEF send_hello, Kinds
    <2>3. b.peer = bridge[s].peer /\ b.conn = bridge[s].conn /\ b.phase = bridge[s].phase
          /\ b.local_grants = bridge[s].local_grants /\ b.peer_grants = bridge[s].peer_grants
          /\ b.peer_stored = bridge[s].peer_stored
      BY <1>1 DEF Bridges
    <2>4. \A f \in F : f.type \in {"noise", "hello"}
      BY DEF Frame
    <2> HIDE DEF b, F
    <2> QED
      BY <2>1, <2>2, <2>3, <2>4, QuietKeeps, Zenon DEF Working
  <1>12. CASE receive_hello(s)
    <2> DEFINE b == [bridge[s] EXCEPT !.peer_hello = TRUE]
    <2>1. bridge[s].phase = "Confirmation" /\ bridge' = [bridge EXCEPT ![s] = b]
          /\ UNCHANGED <<typed, vault, wrote, opened>>
      BY <1>12 DEF receive_hello, At
    <2>2. LinkStep(s, {})
      BY <1>12, TakeStep DEF receive_hello, NextIs
    <2>3. b.peer = bridge[s].peer /\ b.conn = bridge[s].conn /\ b.phase = bridge[s].phase
          /\ b.local_grants = bridge[s].local_grants /\ b.peer_grants = bridge[s].peer_grants
          /\ b.peer_stored = bridge[s].peer_stored
      BY <1>1 DEF Bridges
    <2> HIDE DEF b
    <2> QED
      BY <2>1, <2>2, <2>3, QuietKeeps, Zenon
  <1>13. ASSUME NEW grants \in Grants, send_confirmation(s, grants)
         PROVE  CodeInv' /\ TogetherInv'
    <2>1. bridge[s].phase = "Confirmation" /\ UNCHANGED <<typed, vault, wrote, opened>>
      BY <1>13 DEF send_confirmation, At
    <2>2. CASE bridge[s].peer_grants \notin {None, grants}
      BY <1>2, <1>3, <1>13, <2>1, <2>2 DEF send_confirmation
    <2>3. CASE bridge[s].peer_grants \in {None, grants}
      <3> DEFINE b == [bridge[s] EXCEPT !.local_grants = grants]
                 F == {Frame("confirmation", grants)}
      <3>1. bridge' = [bridge EXCEPT ![s] = b] /\ LinkStep(s, F)
        BY <1>13, <2>3, SendStep, FrameTypes DEF send_confirmation, Kinds
      <3>2. b \in Bridges /\ b.peer = bridge[s].peer /\ b.phase = bridge[s].phase
        BY <1>1 DEF Bridges
      <3>3. /\ \A f \in F : f.type \notin {"step2", "step3"}
            /\ bridge[s].phase \in Keyed
        BY <2>1 DEF Frame, Keyed
      <3> HIDE DEF b, F
      <3>4. CodeInv'
        BY <1>4, <2>1, <3>1, <3>2, <3>3, Zenon
      <3> QED
        BY <1>13, <2>3, <3>4, ConfirmationSent
    <2> QED
      BY <2>2, <2>3
  <1>14. CASE receive_confirmation(s)
    <2>1. bridge[s].phase = "Confirmation" /\ UNCHANGED <<typed, vault, wrote, opened>>
          /\ LinkStep(s, {}) /\ Head(Inbox(s)) \in Frames /\ Head(Inbox(s)).type = "confirmation"
      BY <1>14, TakeStep DEF receive_confirmation, At, NextIs
    <2>2. CASE bridge[s].local_grants \notin {None, Head(Inbox(s)).arg}
      BY <1>2, <1>14, <2>1, <2>2 DEF receive_confirmation
    <2>3. CASE bridge[s].local_grants \in {None, Head(Inbox(s)).arg}
      <3> DEFINE b == [bridge[s] EXCEPT !.peer_grants = Head(Inbox(s)).arg]
                 F == {}
      <3>1. bridge' = [bridge EXCEPT ![s] = b] /\ LinkStep(s, F)
        BY <1>14, <2>1, <2>3 DEF receive_confirmation
      <3>2. Head(Inbox(s)).arg \in Grants
        BY <2>1, Zenon DEF Frames
      <3>3. b \in Bridges /\ b.peer = bridge[s].peer /\ b.phase = bridge[s].phase
        BY <1>1, <3>2 DEF Bridges
      <3>4. /\ \A f \in F : f.type \notin {"step2", "step3"}
            /\ bridge[s].phase \in Keyed
        BY <2>1, Zenon DEF Keyed
      <3> HIDE DEF b, F
      <3>5. CodeInv'
        BY <1>4, <2>1, <3>1, <3>3, <3>4, Zenon
      <3> QED
        BY <1>14, <2>3, <3>5, ConfirmationReceived
    <2> QED
      BY <2>2, <2>3, Zenon
  <1>15. CASE build_pair_record(s)
    <2>1. bridge[s].phase = "Confirmation" /\ UNCHANGED <<typed, link, opened>>
      BY <1>15 DEF build_pair_record, At
    <2>2. CASE Ended(s, "Failed")
      <3>1. PICK d \in Nat : bridge' = [bridge EXCEPT ![s] = NewBridge("Failed", d)]
        BY <2>2, EndedType DEF Phases
      <3>2. bridge'[s].phase = "Failed"
        BY <3>1, Zenon DEF TypeOK, NewBridge
      <3>3. bridge' # [bridge EXCEPT ![s].phase = "Storage"]
        BY <1>1, <3>2 DEF TypeOK, Bridges
      <3> QED
        BY <1>2, <1>3, <1>15, <2>1, <2>2, <3>3 DEF build_pair_record
    <2>3. CASE ~Ended(s, "Failed")
      <3> DEFINE b == [bridge[s] EXCEPT !.phase = "Storage"]
                 F == {}
      <3>1. bridge' = [bridge EXCEPT ![s] = b] /\ LinkStep(s, F)
        BY <1>3, <1>15, <2>1, <2>3 DEF build_pair_record
      <3>2. b \in Bridges /\ b.peer = bridge[s].peer /\ b.phase = "Storage"
        BY <1>1 DEF Bridges, Phases
      <3>3. /\ \A f \in F : f.type \notin {"step2", "step3"}
            /\ bridge[s].phase \in Keyed /\ "Storage" \in Keyed
        BY <2>1 DEF Keyed
      <3> HIDE DEF b, F
      <3>4. CodeInv'
        BY <1>4, <2>1, <3>1, <3>2, <3>3, Zenon
      <3> QED
        BY <1>15, <2>3, <3>4, RecordBuilt
    <2> QED
      BY <2>2, <2>3
  <1>16. CASE send_stored(s)
    <2> DEFINE b == [bridge[s] EXCEPT !.stored_sent = TRUE]
               F == {Frame("stored", None)}
    <2>1. bridge' = [bridge EXCEPT ![s] = b] /\ LinkStep(s, F) /\ typed' = typed
          /\ bridge[s].phase = "Storage"
      BY <1>16, SendStep, FrameTypes DEF send_stored, Kinds, At
    <2>2. b \in Bridges /\ b.peer = bridge[s].peer /\ b.phase = bridge[s].phase
      BY <1>1, Zenon DEF Bridges
    <2>3. /\ \A f \in F : f.type \notin {"step2", "step3"}
          /\ bridge[s].phase \in Keyed
      BY <2>1 DEF Frame, Keyed
    <2> HIDE DEF b, F
    <2>4. CodeInv'
      BY <1>4, <2>1, <2>2, <2>3, Zenon
    <2> QED
      BY <1>16, <2>4, StoredSent
  <1>17. CASE receive_stored(s)
    <2> DEFINE b == [bridge[s] EXCEPT !.peer_stored = TRUE]
               F == {}
    <2>1. bridge' = [bridge EXCEPT ![s] = b] /\ LinkStep(s, F) /\ typed' = typed
          /\ bridge[s].phase = "Storage"
      BY <1>17, TakeStep DEF receive_stored, NextIs, At
    <2>2. b \in Bridges /\ b.peer = bridge[s].peer /\ b.phase = bridge[s].phase
      BY <1>1, Zenon DEF Bridges
    <2>3. /\ \A f \in F : f.type \notin {"step2", "step3"}
          /\ bridge[s].phase \in Keyed
      BY <2>1 DEF Keyed
    <2> HIDE DEF b, F
    <2>4. CodeInv'
      BY <1>4, <2>1, <2>2, <2>3, Zenon
    <2> QED
      BY <1>17, <2>4, StoredReceived
  <1>18. CASE activate_pairing(s)
    <2> DEFINE b == NewBridge("Completed", 0)
               F == {}
    <2>1. bridge' = [bridge EXCEPT ![s] = b] /\ LinkStep(s, F) /\ typed' = typed
      BY <1>3, <1>18 DEF activate_pairing, Ended
    <2>2. b.phase \notin Keyed /\ b.phase # "Cpace"
          /\ \A f \in F : f.type \notin {"step2", "step3"}
      BY Zenon DEF NewBridge, Keyed
    <2> HIDE DEF b, F
    <2>3. CodeInv'
      BY <2>1, <2>2, CodeKept, Zenon
    <2> QED
      BY <1>18, <2>3, Activated
  <1>19. CASE revoke_unconfirmed(s)
    <2>1. CodeInv'
      BY <1>19 DEF revoke_unconfirmed, CodeInv
    <2> QED
      BY <1>19, <2>1, Revoked
  <1> QED
    BY <1>5, <1>6, <1>7, <1>8, <1>9, <1>10, <1>11, <1>12, <1>13, <1>14, <1>15, <1>16, <1>17,
       <1>18, <1>19, Zenon DEF SideStep

\* Every step of the ceremony keeps the invariant.
LEMMA StepKeeps == IInv /\ [Next]_vars => IInv'
  <1> SUFFICES ASSUME IInv, [Next]_vars PROVE IInv'
    OBVIOUS
  <1>1. TypeOK /\ SpacingInv /\ CodeInv /\ TogetherInv
    BY DEF IInv
  <1>2. TypeOK' /\ SpacingInv'
    BY <1>1, TypeNext, SpacingNext
  <1>3. CASE Next
    <2>1. CodeInv' /\ TogetherInv'
      BY <1>1, <1>3, RequesterKeeps, CustodianKeeps, SideKeeps DEF Next
    <2> QED
      BY <1>2, <2>1 DEF IInv
  <1>4. CASE UNCHANGED vars
    <2>1. bridge' = [bridge EXCEPT ![Custodian] = bridge[Custodian]]
          /\ UNCHANGED <<typed, vault, wrote, opened>> /\ Custodian \in Sides
      BY <1>1, <1>4, Zenon DEF vars, TypeOK, Sides
    <2>2. LinkStep(Custodian, {})
      BY <1>1, <1>4, <2>1, CloseStep DEF vars
    <2>3. CodeInv' /\ TogetherInv'
      BY <1>1, <2>1, <2>2, QuietKeeps, Zenon
    <2> QED
      BY <1>2, <2>3 DEF IInv
  <1> QED
    BY <1>3, <1>4

-----------------------------------------------------------------------------
(* The theorems *)

\* The invariant holds of every state of the ceremony.
THEOREM Invariant == Spec => []IInv
  BY InitHolds, StepKeeps, PTL DEF Spec

\* The rate limit of begin_cpace (PreAuthenticationRateLimit::admit) bounds the
\* codes tested, for every spacing and every number of requesters and
\* connections: never more than one guess per spacing.
THEOREM SpacedGuesses == Spec => []GuessesSpaced
  <1>1. IInv => GuessesSpaced
    <2> SUFFICES ASSUME IInv PROVE GuessesSpaced
      OBVIOUS
    <2>1. /\ slot.last \in Nat /\ now \in Nat \ {0} /\ guesses \in Nat /\ slot.last <= now
          /\ Spacing \in Nat \ {0}
      BY WindowsAssumption DEF IInv, TypeOK, SpacingInv
    <2>2. CASE slot.last = Never
      BY <2>1, <2>2, RoomGrows DEF IInv, SpacingInv, GuessesSpaced
    <2>3. CASE slot.last # Never
      <3>1. slot.last - 1 \in Nat /\ now - 1 \in Nat /\ slot.last - 1 <= now - 1
        BY <2>1, <2>3 DEF Never
      <3>2. /\ (slot.last - 1) \div Spacing \in Nat /\ (now - 1) \div Spacing \in Nat
            /\ (slot.last - 1) \div Spacing <= (now - 1) \div Spacing
        BY <2>1, <3>1, RoomGrows, Zenon
      <3>3. guesses <= (slot.last - 1) \div Spacing + 1
        BY <2>1, <2>3, <3>2 DEF IInv, SpacingInv
      <3> QED
        BY <2>1, <3>2, <3>3 DEF GuessesSpaced
    <2> QED
      BY <2>2, <2>3
  <1> QED
    BY <1>1, Invariant, PTL

\* A confirmed record (activate_pairing) is a record of a pairing that both sides
\* stored with the same grants, with a requester that typed the code, however
\* frames, losses, timeouts and retries interleave.
THEOREM Together == Spec => []ConfirmedTogether
  <1>1. IInv => ConfirmedTogether
    BY Zenon DEF IInv, TogetherInv, RecordInv
  <1> QED
    BY <1>1, Invariant, PTL
=============================================================================
