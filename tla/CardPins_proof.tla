--------------------------- MODULE CardPins_proof ---------------------------
(***************************************************************************)
(* Proofs about CardPins for every try limit, every floor up to it, every   *)
(* set of counters a card may be met with and every number of calls: no     *)
(* qualified signature without a PIN 2 presentation of its own, and no      *)
(* operation of the library that spends one of a credential's last tries    *)
(* unless the answer to an earlier presentation on the channel was lost.    *)
(***************************************************************************)
EXTENDS CardPins, TLAPS

-----------------------------------------------------------------------------
(* The invariant, over the card k, the channel ch, the function o and the    *)
(* history h an exchange leaves.                                             *)

\* A verified credential has all its tries.
CardInv(k) == \A c \in k.verified : k.tries[c] = Limit

\* The PIN 2 presentations made and not yet used: by a signature in hand, and
\* by a channel whose one signature has not been asked for.
OwedByCall(o) ==
  IF \/ o.call = "sign" /\ o.slot = "Pin2" /\ o.at \in {"mse", "hash", "cds"}
     \/ o.call = "sign_channel"
  THEN 1 ELSE 0
OwedByChannel(ch) == IF ch.unspent THEN 1 ELSE 0
SpentInv(o, ch, h) == h.signed + OwedByCall(o) + OwedByChannel(ch) <= h.presented

\* A presentation of c spends no last try: the counter is at the floor or above,
\* or already empty.
Safe(k, c) == k.tries[c] = 0 \/ Floor <= k.tries[c]

\* The record of a channel opened with a counted credential never claims more
\* tries than the card has, unless an answer was lost.
RecordInv(k, ch, h) ==
  /\ ch.unspent => ch.by = "Pin2"
  /\ ch.by \in Credentials =>
       /\ family = "Organizational"
       /\ ch.record.is \in {"Remaining", "Locked", "NoInfo"}
       /\ ch.record.is = "Remaining" =>
            1 <= ch.record.tries /\ (h.lost \/ ch.record.tries <= k.tries[ch.by])
       /\ ch.record.is = "Locked" /\ ch.by = "Puk" => h.lost \/ k.tries["Puk"] = 0

\* Which credential the function has in hand at each exchange.
HandInv(o) ==
  /\ o.at \in {"verify", "change", "puk_status", "reset_with_puk", "verify_puk", "reset_new_only"} =>
       o.slot \in Pins
  /\ o.at \in {"select", "verify2"} => o.slot = "Pin2"
  /\ o.at = "select" => o.call \in {"sign", "sign_channel"}
  /\ o.at = "verify2" => o.call = "sign"
  /\ o.at = "puk_status" => o.call \in {"unblock", "activate"}
  /\ o.at \in {"hash", "cds", "mse"} => o.call \in {"sign", "sign_channel"}
  /\ o.call \in {"sign", "sign_channel"} => o.at \in {"select", "verify2", "mse", "hash", "cds"}
  /\ o.call = "sign_channel" => o.slot = "Pin2"
  /\ o.at \in {"set_at", "nonce", "agree", "mutual"} => o.call = "pace" /\ o.slot \in Credentials \cup {"Can"}
  /\ o.call = "pace" /\ o.slot \in Credentials => family = "Organizational"
  /\ o.todo # {} => o.call = "activate"
  /\ o.at # "read" => o.todo \subseteq {"Pin2"}
  /\ o.call = "activate" /\ o.at # "read" /\ scheme = "PresetActivationPin" => o.at = "change"

\* The counter of the credential it is about to present.
FloorInv(o, k, h) ==
  /\ o.at = "verify" => Safe(k, o.slot)
  /\ o.at = "change" => h.lost \/ Safe(k, o.slot)
  /\ o.at = "change" /\ o.todo # {} => Safe(k, "Pin2")
  /\ o.at \in {"reset_with_puk", "verify_puk"} => h.lost \/ Safe(k, "Puk")
  /\ o.call = "sign" /\ o.at \in {"select", "verify2"} => Safe(k, "Pin2")
  /\ o.at = "nonce" /\ o.slot \in Credentials =>
       /\ Safe(k, o.slot)
       /\ k.tries[o.slot] # 0 => o.record = Remaining(k.tries[o.slot])
  /\ o.at \in {"agree", "mutual"} /\ o.slot \in Credentials =>
       o.record.is = "Remaining" /\ 1 <= o.record.tries

\* A function on a channel opened with a counted credential presents that
\* credential or none: the organizational card answers no probe there.
ChannelInv(o, ch) ==
  /\ o.at \in {"set_at", "nonce", "agree", "mutual"} => ch.by = "none"
  /\ ch.by \in Credentials =>
       /\ o.at \notin {"verify", "verify2", "reset_with_puk"}
       /\ o.at \in {"change", "verify_puk"} => o.call = "channel"
       /\ o.at = "select" => o.call = "sign_channel"
  /\ o.call = "channel" /\ o.at = "change" => ch.by = "Pin1" /\ o.slot = "Pin1"
  /\ o.call = "channel" /\ o.at = "verify_puk" => ch.by = "Puk"

StateInv(k, ch, o, h) ==
  /\ CardInv(k) /\ SpentInv(o, ch, h) /\ RecordInv(k, ch, h)
  /\ HandInv(o) /\ FloorInv(o, k, h) /\ ChannelInv(o, ch)

\* What a step that leaves the card as k may spend.
Spares(k) ==
  \A c \in Credentials : k.tries[c] < card.tries[c] => hist.lost \/ Floor <= card.tries[c]

\* An organizational card has no PIN changed flag and is activated with its PUK.
FamilyInv == family = "Organizational" => ~flagged /\ scheme = "ActivationCodeIsPuk"

IInv == TypeOK /\ FamilyInv /\ StateInv(card, channel, op, hist)

-----------------------------------------------------------------------------
(* Shared facts. *)

\* The bounds are numbers, and the floor lies between one and the limit.
LEMMA Consts == Limit \in Nat /\ Floor \in Nat /\ 1 <= Floor /\ Floor <= Limit /\ MaxCalls \in Nat
  BY CountsAssumption, CallsAssumption

\* PIN 1, PIN 2 and the PUK are credentials with a counter; the CAN is none.
LEMMA Names == Pins \subseteq Credentials /\ "Puk" \in Credentials /\ "Puk" \notin Pins
               /\ "Pin1" \in Pins /\ "Pin2" \in Pins
               /\ "Can" \notin Credentials /\ "none" \notin Credentials
  BY DEF Pins, Credentials

\* Every answer to a status query is a status with a count in range.
LEMMA StatusTypes ==
  /\ NoInfo \in PinStatus /\ Locked \in PinStatus /\ Verified \in PinStatus
  /\ \A n \in 0..Limit : Remaining(n) \in PinStatus
  /\ \A s \in PinStatus : s.tries \in 0..Limit
  BY Consts DEF PinStatus, NoInfo, Locked, Verified, Remaining

\* A card has a counter for every credential and a set of verified ones.
LEMMA CardFields ==
  ASSUME NEW k \in Cards
  PROVE  /\ k.tries \in [Credentials -> 0..Limit] /\ k.verified \subseteq Credentials
         /\ \A c \in Credentials : k.tries[c] \in 0..Limit /\ k.tries[c] \in Nat
  BY Consts DEF Cards

\* The steps an operation can be at, spelled out.
LEMMA StepNames == Steps = {"idle", "verify", "change", "puk_status", "reset_with_puk", "verify_puk",
                            "reset_new_only", "read", "set_at", "nonce", "agree", "mutual", "select",
                            "verify2", "mse", "hash", "cds"}
  BY DEF Steps

\* The functions of the library that reach the card, spelled out.
LEMMA FunctionNames == CallNames = {"none", "verify", "change", "unblock", "activate", "pace", "channel",
                                    "sign", "sign_channel"}
  BY DEF CallNames

\* No operation at hand is an operation.
LEMMA IdleType == Idle \in Operations
  BY StatusTypes DEF Idle, Operations, Steps, CallNames

\* No channel open is a channel.
LEMMA NoChannelType == NoChannel \in Channels
  BY StatusTypes DEF NoChannel, Channels

\* A probe the PIN's floor serves comes from a counter at the floor or above, and
\* not over a channel opened with a counted credential.
LEMMA ServedSafe ==
  ASSUME IInv, NEW slot \in Pins, CallerServed(slot)
  PROVE  Safe(card, slot) /\ channel.by \notin Credentials
  <1>1. PICK status \in Probed(slot) : check_retry_floor(slot, status)
    BY DEF CallerServed
  <1>2. status.is = "Verified" \/ (status.is = "Remaining" /\ is_above_floor(status.tries))
    BY <1>1 DEF check_retry_floor
  <1>3. slot \in Credentials /\ card.tries[slot] \in Nat
    BY Names, CardFields DEF IInv, TypeOK
  <1>4. ~(channel.by # "none" /\ family = "Organizational")
    BY <1>1, <1>2 DEF Probed, NoInfo
  <1>5. channel.by \notin Credentials
    BY <1>4, Names DEF IInv, StateInv, RecordInv
  <1>6. CASE slot \in card.verified
    BY <1>5, <1>6, Consts DEF IInv, StateInv, CardInv, Safe
  <1>7. CASE slot \notin card.verified /\ card.tries[slot] = 0
    BY <1>5, <1>7 DEF Safe
  <1>8. CASE slot \notin card.verified /\ card.tries[slot] # 0
    <2>1. status = Remaining(card.tries[slot])
      BY <1>1, <1>4, <1>8 DEF Probed
    <2>2. QED
      BY <1>2, <1>5, <2>1 DEF Remaining, is_above_floor, Safe
  <1>9. QED
    BY <1>5, <1>6, <1>7, <1>8

\* The same of the PUK's status and its last-tries rule.
LEMMA PukSafe ==
  ASSUME IInv, NEW status \in puk_status, check_retry_floor("Puk", status)
  PROVE  Safe(card, "Puk") /\ channel.by \notin Credentials
  <1>1. status.is # "Verified" /\ check_last_tries(status)
    BY Names DEF check_retry_floor
  <1>2. status.is # "NoInfo"
    BY <1>1 DEF check_last_tries
  <1>3. status \in Probed("Puk")
    BY <1>2 DEF puk_status, NoInfo
  <1>4. ~(channel.by # "none" /\ family = "Organizational")
    BY <1>2, <1>3 DEF Probed, NoInfo
  <1>5. channel.by \notin Credentials
    BY <1>4, Names DEF IInv, StateInv, RecordInv
  <1>6. card.tries["Puk"] \in Nat
    BY Names, CardFields DEF IInv, TypeOK
  <1>7. "Puk" \notin card.verified
    BY <1>1, <1>3, <1>4 DEF Probed, Verified
  <1>8. CASE card.tries["Puk"] # 0
    <2>1. status = Remaining(card.tries["Puk"])
      BY <1>3, <1>4, <1>7, <1>8 DEF Probed
    <2>2. QED
      BY <1>1, <1>5, <1>6, <1>8, <2>1, Consts DEF Remaining, check_last_tries, spends_a_last_try, Safe
  <1>9. QED
    BY <1>5, <1>8 DEF Safe

-----------------------------------------------------------------------------
(* Exchanges. *)

\* The send sequence counters carry no part of the invariant.
LEMMA SameState ==
  ASSUME NEW k, NEW k2, NEW ch, NEW ch2, NEW o, NEW h, StateInv(k, ch, o, h),
         k2.tries = k.tries, k2.verified = k.verified,
         ch2.by = ch.by, ch2.record = ch.record, ch2.unspent = ch.unspent
  PROVE  StateInv(k2, ch2, o, h)
  BY DEF StateInv, CardInv, SpentInv, OwedByChannel, RecordInv, FloorInv, ChannelInv, Safe

\* A function that returned owes nothing and has nothing in hand.
LEMMA IdleState ==
  ASSUME NEW k, NEW ch, NEW o, NEW h \in Histories, SpentInv(o, ch, h), CardInv(k), RecordInv(k, ch, h)
  PROVE  StateInv(k, ch, Idle, h)
  <1>1. HandInv(Idle) /\ FloorInv(Idle, k, h) /\ ChannelInv(Idle, ch)
    BY Zenon DEF HandInv, FloorInv, ChannelInv, Idle
  <1>2. SpentInv(Idle, ch, h)
    BY DEF SpentInv, OwedByCall, OwedByChannel, Histories, Idle
  <1>3. QED
    BY <1>1, <1>2 DEF StateInv

\* Counting a message sent changes the host's counter of a channel only.
LEMMA SentType ==
  ASSUME NEW ch \in Channels
  PROVE  /\ HostDone(ch) \in Channels /\ HostDone(ch).by = ch.by
         /\ HostDone(ch).record = ch.record /\ HostDone(ch).unspent = ch.unspent
  <1>1. unwrap(wrap(ch.ssc)) \in Nat
    BY DEF unwrap, wrap, Channels
  <1>2. QED
    BY <1>1 DEF HostDone, Channels

\* The same for the channel that is open.
LEMMA HostSentType ==
  ASSUME channel \in Channels
  PROVE  /\ HostSent \in Channels /\ HostSent.by = channel.by
         /\ HostSent.record = channel.record /\ HostSent.unspent = channel.unspent
  <1>1. wrap(channel.ssc) \in Nat
    BY DEF wrap, Channels
  <1>2. QED
    BY <1>1 DEF HostSent, Channels

\* Counting a message answered changes the card's counter of a channel only.
LEMMA CardDoneType ==
  ASSUME NEW k \in Cards
  PROVE  CardDone(k) \in Cards /\ CardDone(k).tries = k.tries /\ CardDone(k).verified = k.verified
  <1>1. k.ssc + 2 \in Nat
    BY DEF Cards, NoSsc
  <1>2. QED
    BY <1>1 DEF CardDone, Cards

\* A lost answer is remembered only if it was to a further presentation.
LEMMA LostType ==
  ASSUME hist \in Histories
  PROVE  LET h == [hist EXCEPT !.lost = @ \/ PresentsAgain]
         IN  /\ h \in Histories /\ h.signed = hist.signed /\ h.presented = hist.presented
             /\ h.lost = (hist.lost \/ PresentsAgain)
  <1> DEFINE b == hist.lost \/ PresentsAgain
  <1>1. b \in BOOLEAN
    OBVIOUS
  <1> HIDE DEF b
  <1>2. LET h == [hist EXCEPT !.lost = b]
        IN  /\ h \in Histories /\ h.signed = hist.signed /\ h.presented = hist.presented
            /\ h.lost = b
    BY <1>1 DEF Histories
  <1>3. QED
    BY <1>2 DEF b

\* A card whose counters are as they were spent no try.
LEMMA SameSpares ==
  ASSUME card \in Cards
  PROVE  \A k : k.tries = card.tries => Spares(k)
  <1>1. \A c \in Credentials : card.tries[c] \in Nat
    BY CardFields
  <1>2. QED
    BY <1>1 DEF Spares

\* One command and its answer, arrived or lost, keep the invariant if what they
\* store does.
LEMMA ExchangeKeeps ==
  ASSUME IInv, NEW k \in Cards, NEW o \in Operations, NEW ch \in Channels, NEW h \in Histories,
         Exchange(k, o, ch, h), StateInv(k, ch, o, h), Spares(k),
         RecordInv(k, channel, [hist EXCEPT !.lost = @ \/ PresentsAgain])
  PROVE  IInv' /\ Spares(card')
  <1>1. UNCHANGED <<family, scheme, flagged, calls>>
    BY DEF Exchange
  <1>2. card \in Cards /\ channel \in Channels /\ op \in Operations /\ hist \in Histories
    BY DEF IInv, TypeOK
  <1>0. ASSUME card'.tries = k.tries \/ card'.tries = card.tries PROVE Spares(card')
    <2>1. \A c \in Credentials : card.tries[c] \in Nat
      BY <1>2, CardFields
    <2>2. QED
      BY <1>0, <2>1 DEF Spares
  <1>3. ASSUME card' \in Cards, channel' \in Channels, op' \in Operations, hist' \in Histories,
               StateInv(card', channel', op', hist')
        PROVE  IInv'
    <2>1. TypeOK' /\ FamilyInv'
      BY <1>1, <1>3 DEF IInv, TypeOK, FamilyInv
    <2>2. StateInv(card, channel, op, hist)'
      BY <1>1, <1>3, Zenon DEF StateInv, CardInv, SpentInv, OwedByCall, OwedByChannel, RecordInv, HandInv,
                        FloorInv, ChannelInv, Safe
    <2>3. QED
      BY <2>1, <2>2 DEF IInv
  <1>4. CASE card' = CardDone(k) /\ channel' = HostDone(ch) /\ op' = o /\ hist' = h
    <2>1. /\ card' \in Cards /\ card'.tries = k.tries /\ card'.verified = k.verified
      BY <1>4, CardDoneType
    <2>2. /\ channel' \in Channels /\ channel'.by = ch.by /\ channel'.record = ch.record
          /\ channel'.unspent = ch.unspent
      BY <1>4, SentType
    <2>3. StateInv(card', channel', o, h)
      BY <2>1, <2>2, SameState
    <2>4. QED
      BY <1>0, <1>3, <1>4, <2>1, <2>2, <2>3
  <1>5. ASSUME channel' = HostSent, op' = Idle, hist' = hist, card' \in Cards,
               card'.tries = card.tries, card'.verified = card.verified
        PROVE  IInv' /\ Spares(card')
    <2>1. /\ channel' \in Channels /\ channel'.by = channel.by /\ channel'.record = channel.record
          /\ channel'.unspent = channel.unspent
      BY <1>2, <1>5, HostSentType
    <2>2. StateInv(card, channel, Idle, hist)
      BY <1>2, IdleState DEF IInv, StateInv
    <2>3. StateInv(card', channel', Idle, hist)
      BY <1>5, <2>1, <2>2, SameState
    <2>4. QED
      BY <1>0, <1>2, <1>3, <1>5, <2>1, <2>3, IdleType
  <1>6. CASE card' = card /\ channel' = HostSent /\ Failed(hist)
    BY <1>2, <1>5, <1>6 DEF Failed
  <1>7. CASE card' = [card EXCEPT !.ssc = NoSsc] /\ channel' = HostSent /\ Failed(hist)
    <2>1. card' \in Cards /\ card'.tries = card.tries /\ card'.verified = card.verified
      BY <1>2, <1>7 DEF Cards
    <2>2. QED
      BY <1>5, <1>7, <2>1 DEF Failed
  <1>8. CASE /\ card' = CardDone(k) /\ channel' = HostSent
             /\ Failed([hist EXCEPT !.lost = @ \/ PresentsAgain])
    <2> DEFINE lost == [hist EXCEPT !.lost = @ \/ PresentsAgain]
    <2>1. /\ card' \in Cards /\ card'.tries = k.tries /\ card'.verified = k.verified
      BY <1>8, CardDoneType
    <2>2. /\ channel' \in Channels /\ channel'.by = channel.by /\ channel'.record = channel.record
          /\ channel'.unspent = channel.unspent
      BY <1>2, <1>8, HostSentType
    <2>3. lost \in Histories /\ lost.signed = hist.signed /\ lost.presented = hist.presented
      BY <1>2, LostType
    <2>4. op' = Idle /\ hist' = lost /\ RecordInv(k, channel, lost)
      BY <1>8 DEF Failed
    <2> HIDE DEF lost
    <2>5. SpentInv(op, channel, lost)
      BY <2>3 DEF IInv, StateInv, SpentInv
    <2>6. StateInv(k, channel, Idle, lost)
      BY <2>3, <2>4, <2>5, IdleState DEF StateInv
    <2>7. StateInv(card', channel', Idle, lost)
      BY <2>1, <2>2, <2>6, SameState
    <2>8. QED
      BY <1>0, <1>3, <2>1, <2>2, <2>3, <2>4, <2>7, IdleType
  <1>9. QED
    BY <1>4, <1>6, <1>7, <1>8 DEF Exchange

\* A lost answer makes the record no stronger.
LEMMA LostRecord ==
  ASSUME NEW k, NEW ch, hist \in Histories, RecordInv(k, ch, hist)
  PROVE  RecordInv(k, ch, [hist EXCEPT !.lost = @ \/ PresentsAgain])
  <1> DEFINE lost == [hist EXCEPT !.lost = @ \/ PresentsAgain]
  <1>1. hist.lost => lost.lost
    BY LostType, Zenon
  <1> HIDE DEF lost
  <1>2. RecordInv(k, ch, lost)
    BY <1>1 DEF RecordInv
  <1>3. QED
    BY <1>2 DEF lost

\* An exchange that presents nothing.
LEMMA QuietExchange ==
  ASSUME IInv, NEW o \in Operations, Exchange(card, o, channel, hist),
         HandInv(o), FloorInv(o, card, hist), ChannelInv(o, channel), OwedByCall(o) <= OwedByCall(op)
  PROVE  IInv' /\ Spares(card')
  <1>1. card \in Cards /\ channel \in Channels /\ hist \in Histories
    BY DEF IInv, TypeOK
  <1>2. SpentInv(o, channel, hist)
    BY <1>1 DEF IInv, StateInv, SpentInv, OwedByCall, OwedByChannel, Histories
  <1>3. StateInv(card, channel, o, hist)
    BY <1>2 DEF IInv, StateInv
  <1>4. RecordInv(card, channel, [hist EXCEPT !.lost = @ \/ PresentsAgain])
    BY <1>1, LostRecord DEF IInv, StateInv
  <1>5. Spares(card)
    BY <1>1, SameSpares
  <1>6. QED
    BY <1>1, <1>3, <1>4, <1>5, ExchangeKeeps

\* A function that returns after an exchange.
LEMMA LastKeeps ==
  ASSUME IInv, NEW k \in Cards, NEW ch \in Channels, NEW h \in Histories, Last(k, ch, h),
         CardInv(k), SpentInv(op, ch, h), RecordInv(k, ch, h), Spares(k),
         RecordInv(k, channel, [hist EXCEPT !.lost = @ \/ PresentsAgain])
  PROVE  IInv' /\ Spares(card')
  <1>1. StateInv(k, ch, Idle, h)
    BY IdleState
  <1>2. QED
    BY <1>1, IdleType, ExchangeKeeps DEF Last

\* The last command of a function keeps the invariant if it changes no counter.
LEMMA QuietLast ==
  ASSUME IInv, Last(card, channel, hist)
  PROVE  IInv' /\ Spares(card')
  <1>1. card \in Cards /\ channel \in Channels /\ hist \in Histories
    BY DEF IInv, TypeOK
  <1>2. RecordInv(card, channel, [hist EXCEPT !.lost = @ \/ PresentsAgain])
    BY <1>1, LostRecord DEF IInv, StateInv
  <1>3. QED
    BY <1>1, <1>2, SameSpares, LastKeeps DEF IInv, StateInv

\* Off a channel opened with a counted credential the record says nothing.
LEMMA NoRecord ==
  ASSUME NEW k, NEW h, RecordInv(card, channel, hist), channel.by \notin Credentials
  PROVE  RecordInv(k, channel, h)
  BY Names DEF RecordInv

-----------------------------------------------------------------------------
(* What the card does. *)

\* A presentation restores the counter, lowers it by one, or finds it at zero.
LEMMA PresentedIs ==
  ASSUME IInv, NEW c \in Credentials, NEW right \in BOOLEAN
  PROVE  LET k == Presented(c, right) IN
         /\ k \in Cards /\ CardInv(k)
         /\ \A d \in Credentials \ {c} : k.tries[d] = card.tries[d]
         /\ \/ card.tries[c] = 0 /\ k = card /\ Answer(c, right) = Blocked
            \/ card.tries[c] # 0 /\ right /\ k.tries[c] = Limit /\ Answer(c, right) = Ok
            \/ /\ card.tries[c] # 0 /\ ~right /\ k.tries[c] = card.tries[c] - 1
               /\ Answer(c, right) = Wrong(card.tries[c] - 1)
  <1>1. card \in Cards /\ CardInv(card)
    BY DEF IInv, TypeOK, StateInv
  <1>2. card.tries \in [Credentials -> 0..Limit] /\ card.tries[c] \in 0..Limit
    BY <1>1, CardFields
  <1>3. CASE card.tries[c] = 0
    BY <1>1, <1>3 DEF Presented, Answer
  <1>4. CASE card.tries[c] # 0 /\ right
    <2> DEFINE k == [card EXCEPT !.tries[c] = Limit, !.verified = @ \cup {c}]
               tries == [card.tries EXCEPT ![c] = Limit]
    <2>1. tries \in [Credentials -> 0..Limit] /\ tries[c] = Limit
          /\ \A d \in Credentials \ {c} : tries[d] = card.tries[d]
      BY <1>2, Consts
    <2>2. k = [card EXCEPT !.tries = tries, !.verified = card.verified \cup {c}]
      BY <1>1 DEF Cards
    <2> HIDE DEF tries, k
    <2>3. k \in Cards /\ k.tries = tries /\ k.verified = card.verified \cup {c}
      BY <1>1, <2>1, <2>2, Zenon DEF Cards
    <2>4. CardInv(k)
      BY <1>1, <2>1, <2>3 DEF CardInv, Cards
    <2>5. Presented(c, right) = k /\ Answer(c, right) = Ok
      BY <1>4 DEF Presented, Answer, k
    <2>6. QED
      BY <1>4, <2>1, <2>3, <2>4, <2>5, Zenon
  <1>5. CASE card.tries[c] # 0 /\ ~right
    <2> DEFINE k == [card EXCEPT !.tries[c] = @ - 1, !.verified = @ \ {c}]
               tries == [card.tries EXCEPT ![c] = @ - 1]
    <2>1. tries \in [Credentials -> 0..Limit] /\ tries[c] = card.tries[c] - 1
          /\ \A d \in Credentials \ {c} : tries[d] = card.tries[d]
      BY <1>2, <1>5, Consts
    <2>2. k = [card EXCEPT !.tries = tries, !.verified = card.verified \ {c}]
      BY <1>1 DEF Cards
    <2> HIDE DEF tries, k
    <2>3. k \in Cards /\ k.tries = tries /\ k.verified = card.verified \ {c}
      BY <1>1, <2>1, <2>2, Zenon DEF Cards
    <2>4. CardInv(k)
      BY <1>1, <2>1, <2>3 DEF CardInv, Cards
    <2>5. Presented(c, right) = k /\ Answer(c, right) = Wrong(card.tries[c] - 1)
      BY <1>5 DEF Presented, Answer, k
    <2>6. QED
      BY <1>5, <2>1, <2>3, <2>4, <2>5
  <1>6. QED
    BY <1>3, <1>4, <1>5

\* Setting a new PIN restores its counter and leaves the others.
LEMMA NewPinIs ==
  ASSUME NEW k \in Cards, CardInv(k), NEW slot \in Pins
  PROVE  LET n == WithNewPin(k, slot) IN
         /\ n \in Cards /\ CardInv(n) /\ n.tries[slot] = Limit
         /\ \A d \in Credentials \ {slot} : n.tries[d] = k.tries[d]
         /\ n.verified = k.verified \ {slot}
  <1> DEFINE tries == [k.tries EXCEPT ![slot] = Limit]
             n == WithNewPin(k, slot)
  <1>1. slot \in Credentials /\ k.tries \in [Credentials -> 0..Limit]
    BY Names, CardFields
  <1>2. /\ tries \in [Credentials -> 0..Limit] /\ tries[slot] = Limit
        /\ \A d \in Credentials \ {slot} : tries[d] = k.tries[d]
    BY <1>1, Consts
  <1>3. n = [k EXCEPT !.tries = tries, !.verified = k.verified \ {slot}, !.changed = k.changed \cup {slot}]
    BY DEF WithNewPin, Cards
  <1> HIDE DEF tries, n
  <1>4. n \in Cards /\ n.tries = tries /\ n.verified = k.verified \ {slot}
    BY <1>2, <1>3, Zenon DEF Cards
  <1>5. CardInv(n)
    BY <1>2, <1>4 DEF CardInv, Cards
  <1>6. QED
    BY <1>2, <1>4, <1>5 DEF n

-----------------------------------------------------------------------------
(* The functions a caller starts. *)

\* An operation begins with nothing to do yet and no counter read.
LEMMA CallIs ==
  ASSUME NEW call \in CallNames, NEW at \in Steps,
         NEW slot \in Credentials \cup {"Can", "none"}, NEW right \in BOOLEAN
  PROVE  LET c == Call(call, at, slot, right) IN
         /\ c \in Operations /\ c.call = call /\ c.at = at /\ c.slot = slot
         /\ c.todo = {} /\ c.record = NoInfo
  <1> DEFINE c == Call(call, at, slot, right)
  <1>1. c \in Operations
    BY IdleType, Zenon DEF Call, Operations
  <1>2. c.call = call /\ c.at = at /\ c.slot = slot /\ c.todo = Idle.todo /\ c.record = Idle.record
    BY IdleType DEF Call, Operations
  <1>3. QED
    BY <1>1, <1>2 DEF Idle

\* A function that starts takes nothing from the card and leaves its record.
LEMMA StartKeeps ==
  ASSUME IInv, NEW o \in Operations, NEW ch \in Channels, Start(o, ch),
         HandInv(o), FloorInv(o, card, hist), ChannelInv(o, ch),
         RecordInv(card, ch, hist), SpentInv(o, ch, hist)
  PROVE  IInv' /\ Spares(card')
  <1>1. /\ op' = o /\ channel' = ch /\ calls' = calls + 1 /\ calls < MaxCalls
        /\ UNCHANGED <<family, scheme, flagged, card, hist>>
    BY DEF Start
  <1>2. TypeOK' /\ FamilyInv'
    BY <1>1, Consts DEF IInv, TypeOK, FamilyInv
  <1>3. StateInv(card, channel, op, hist)'
    <2>1. card' = card /\ hist' = hist /\ family' = family /\ scheme' = scheme
      BY <1>1
    <2>2. CardInv(card)' /\ SpentInv(op, channel, hist)'
      BY <1>1, <2>1 DEF IInv, StateInv, CardInv, SpentInv, OwedByCall, OwedByChannel
    <2>3. RecordInv(card, channel, hist)' /\ HandInv(op)'
      BY <1>1, <2>1, ZenonT(60) DEF RecordInv, HandInv
    <2>4. FloorInv(op, card, hist)' /\ ChannelInv(op, channel)'
      BY <1>1, <2>1, ZenonT(60) DEF FloorInv, ChannelInv, Safe
    <2>5. QED
      BY <2>2, <2>3, <2>4 DEF StateInv
  <1>4. Spares(card')
    BY <1>1, SameSpares DEF IInv, TypeOK
  <1>5. QED
    BY <1>2, <1>3, <1>4 DEF IInv

\* The same on the channel as it stands, for a function that owes no signature.
LEMMA PlainStart ==
  ASSUME IInv, NEW o \in Operations, Start(o, channel),
         HandInv(o), FloorInv(o, card, hist), ChannelInv(o, channel), OwedByCall(o) = 0
  PROVE  IInv' /\ Spares(card')
  <1>1. op = Idle /\ channel \in Channels /\ hist \in Histories
    BY DEF Start, IInv, TypeOK
  <1>2. SpentInv(o, channel, hist)
    BY <1>1 DEF IInv, StateInv, SpentInv, OwedByCall, Idle
  <1>3. QED
    BY <1>1, <1>2, StartKeeps DEF IInv, StateInv

\* verify and change_pin
LEMMA ServedStart ==
  ASSUME IInv, NEW slot \in Pins, NEW right \in BOOLEAN,
         verify(slot, right) \/ change_pin(slot, right)
  PROVE  IInv' /\ Spares(card')
  <1>1. Safe(card, slot) /\ channel.by \notin Credentials
    BY ServedSafe DEF verify, change_pin
  <1>2. slot \in Credentials
    BY Names
  <1>3. ASSUME NEW at \in {"verify", "change"}, Start(Call(at, at, slot, right), channel)
        PROVE  IInv' /\ Spares(card')
    <2> DEFINE o == Call(at, at, slot, right)
    <2>1. o \in Operations /\ o.call = at /\ o.at = at /\ o.slot = slot /\ o.todo = {}
      <3>1. at \in Steps /\ at \in CallNames /\ slot \in Credentials \cup {"Can", "none"}
        BY <1>2, <1>3, StepNames, FunctionNames
      <3>2. QED
        BY <3>1, CallIs
    <2>2. Start(o, channel)
      BY <1>3
    <2> HIDE DEF o
    <2>3. HandInv(o) /\ OwedByCall(o) = 0
      BY <2>1 DEF HandInv, OwedByCall
    <2>4. FloorInv(o, card, hist) /\ ChannelInv(o, channel)
      BY <1>1, <2>1 DEF FloorInv, ChannelInv
    <2>5. QED
      BY <2>1, <2>2, <2>3, <2>4, PlainStart
  <1>4. QED
    BY <1>3 DEF verify, change_pin

\* Beginning to unblock a PIN keeps the invariant.
LEMMA UnblockStart ==
  ASSUME IInv, NEW slot \in Pins, NEW right \in BOOLEAN, unblock_pin(slot, right)
  PROVE  IInv' /\ Spares(card')
  <1> DEFINE o == Call("unblock", "puk_status", slot, right)
  <1>1. o \in Operations /\ o.call = "unblock" /\ o.at = "puk_status" /\ o.slot = slot /\ o.todo = {}
    <2>1. slot \in Credentials /\ "unblock" \in CallNames /\ "puk_status" \in Steps
      BY Names, StepNames, FunctionNames
    <2>2. QED
      BY <2>1, CallIs
  <1>2. Start(o, channel)
    BY DEF unblock_pin
  <1> HIDE DEF o
  <1>3. HandInv(o) /\ FloorInv(o, card, hist) /\ ChannelInv(o, channel) /\ OwedByCall(o) = 0
    BY <1>1 DEF HandInv, FloorInv, ChannelInv, OwedByCall
  <1>4. QED
    BY <1>1, <1>2, <1>3, PlainStart

\* Beginning to activate a card keeps the invariant.
LEMMA ActivateStart ==
  ASSUME IInv, NEW news \in SUBSET Pins, NEW right \in BOOLEAN, activate_card(news, right)
  PROVE  IInv' /\ Spares(card')
  <1> DEFINE c == Call("activate", "read", "none", right)
             o == [c EXCEPT !.todo = news]
  <1>1. c \in Operations /\ c.call = "activate" /\ c.at = "read"
    <2>1. "activate" \in CallNames /\ "read" \in Steps
      BY StepNames, FunctionNames
    <2>2. QED
      BY <2>1, CallIs
  <1>2. Start(o, channel)
    BY DEF activate_card
  <1> HIDE DEF c
  <1>3. o \in Operations /\ o.call = "activate" /\ o.at = "read"
    BY <1>1 DEF Operations
  <1> HIDE DEF o
  <1>4. HandInv(o) /\ FloorInv(o, card, hist) /\ ChannelInv(o, channel) /\ OwedByCall(o) = 0
    BY <1>3 DEF HandInv, FloorInv, ChannelInv, OwedByCall
  <1>5. QED
    BY <1>2, <1>3, <1>4, PlainStart

\* Beginning a PACE handshake keeps the invariant.
LEMMA PaceStart ==
  ASSUME IInv, NEW by \in Credentials \cup {"Can"}, NEW right \in BOOLEAN, run_pace(by, right)
  PROVE  IInv' /\ Spares(card')
  <1> DEFINE o == Call("pace", "set_at", by, right)
  <1>1. o \in Operations /\ o.call = "pace" /\ o.at = "set_at" /\ o.slot = by /\ o.todo = {}
    <2>1. "pace" \in CallNames /\ "set_at" \in Steps /\ by \in Credentials \cup {"Can", "none"}
      BY StepNames, FunctionNames
    <2>2. QED
      BY <2>1, CallIs
  <1>2. Start(o, channel) /\ channel.by = "none"
    BY DEF run_pace, OnChannel
  <1> HIDE DEF o
  <1>3. HandInv(o) /\ FloorInv(o, card, hist) /\ ChannelInv(o, channel) /\ OwedByCall(o) = 0
    <2>1. by \in Credentials => family = "Organizational"
      BY Names, FamiliesAssumption DEF run_pace, IInv, TypeOK
    <2>2. QED
      BY <1>1, <1>2, <2>1, Names DEF HandInv, FloorInv, ChannelInv, OwedByCall
  <1>4. QED
    BY <1>1, <1>2, <1>3, PlainStart

\* The record's floor: with no answer lost the counter itself is served.
LEMMA RecordSafe ==
  ASSUME IInv, channel.by \in {"Pin1", "Puk"}, check_retry_floor(channel.by, channel.record)
  PROVE  hist.lost \/ Safe(card, channel.by)
  <1>1. /\ channel.by \in Credentials /\ channel.record \in PinStatus
        /\ card.tries[channel.by] \in Nat /\ channel.record.tries \in Nat
    BY Names, CardFields, StatusTypes DEF IInv, TypeOK, Channels
  <1>2. /\ channel.record.is \in {"Remaining", "Locked", "NoInfo"}
        /\ channel.record.is = "Remaining" =>
             1 <= channel.record.tries /\ (hist.lost \/ channel.record.tries <= card.tries[channel.by])
        /\ channel.record.is = "Locked" /\ channel.by = "Puk" => hist.lost \/ card.tries["Puk"] = 0
    BY <1>1 DEF IInv, StateInv, RecordInv
  <1>3. CASE channel.by = "Pin1"
    BY <1>1, <1>2, <1>3, Names, Consts DEF check_retry_floor, is_above_floor, Safe
  <1>4. CASE channel.by = "Puk"
    <2>1. check_last_tries(channel.record)
      BY <1>4, Names DEF check_retry_floor
    <2>2. CASE channel.record.is = "Remaining"
      BY <1>1, <1>2, <2>1, <2>2, Consts DEF check_last_tries, spends_a_last_try, Safe
    <2>3. CASE channel.record.is = "Locked"
      BY <1>2, <1>4, <2>3 DEF Safe
    <2>4. channel.record.is # "NoInfo"
      BY <2>1 DEF check_last_tries
    <2>5. QED
      BY <1>2, <2>2, <2>3, <2>4
  <1>5. QED
    BY <1>3, <1>4

\* reset_after_puk_pace: on the handshake's proof, or with the PUK once more.
LEMMA PukChannelStart ==
  ASSUME IInv, NEW slot \in Pins, NEW right \in BOOLEAN, NEW again \in BOOLEAN,
         reset_after_puk_pace(slot, right, again)
  PROVE  IInv' /\ Spares(card')
  <1>1. channel.by = "Puk" /\ slot \in Credentials
    BY Names DEF reset_after_puk_pace
  <1>2. ASSUME NEW at \in {"verify_puk", "reset_new_only"}, at = "verify_puk" => again,
               Start(Call("channel", at, slot, right), channel)
        PROVE  IInv' /\ Spares(card')
    <2> DEFINE o == Call("channel", at, slot, right)
    <2>1. o \in Operations /\ o.call = "channel" /\ o.at = at /\ o.slot = slot /\ o.todo = {}
      <3>1. "channel" \in CallNames /\ at \in Steps
        BY <1>2, StepNames, FunctionNames
      <3>2. QED
        BY <1>1, <3>1, CallIs
    <2>2. Start(o, channel)
      BY <1>2
    <2> HIDE DEF o
    <2>3. HandInv(o) /\ OwedByCall(o) = 0
      BY <1>2, <2>1 DEF HandInv, OwedByCall
    <2>4. at = "verify_puk" => hist.lost \/ Safe(card, "Puk")
      BY <1>1, <1>2, RecordSafe DEF reset_after_puk_pace
    <2>5. FloorInv(o, card, hist)
      BY <1>2, <2>1, <2>4 DEF FloorInv
    <2>6. ChannelInv(o, channel)
      BY <1>1, <1>2, <2>1 DEF ChannelInv
    <2>7. QED
      BY <2>1, <2>2, <2>3, <2>5, <2>6, PlainStart
  <1>3. QED
    BY <1>2 DEF reset_after_puk_pace

\* change_pin1_after_pin1_pace: the same of PIN 1.
LEMMA Pin1ChannelStart ==
  ASSUME IInv, NEW right \in BOOLEAN, NEW again \in BOOLEAN, change_pin1_after_pin1_pace(right, again)
  PROVE  IInv' /\ Spares(card')
  <1>1. channel.by = "Pin1" /\ "Pin1" \in Credentials
    BY Names DEF change_pin1_after_pin1_pace
  <1>2. ASSUME NEW at \in {"change", "reset_new_only"}, at = "change" => again,
               Start(Call("channel", at, "Pin1", right), channel)
        PROVE  IInv' /\ Spares(card')
    <2> DEFINE o == Call("channel", at, "Pin1", right)
    <2>1. o \in Operations /\ o.call = "channel" /\ o.at = at /\ o.slot = "Pin1" /\ o.todo = {}
      <3>1. "channel" \in CallNames /\ at \in Steps
        BY <1>2, StepNames, FunctionNames
      <3>2. QED
        BY <1>1, <3>1, CallIs
    <2>2. Start(o, channel)
      BY <1>2
    <2> HIDE DEF o
    <2>3. HandInv(o) /\ OwedByCall(o) = 0
      BY <1>2, <2>1, Names DEF HandInv, OwedByCall
    <2>4. at = "change" => hist.lost \/ Safe(card, "Pin1")
      BY <1>1, <1>2, RecordSafe DEF change_pin1_after_pin1_pace
    <2>5. FloorInv(o, card, hist)
      BY <1>2, <2>1, <2>4 DEF FloorInv
    <2>6. ChannelInv(o, channel)
      BY <1>1, <1>2, <2>1 DEF ChannelInv
    <2>7. QED
      BY <2>1, <2>2, <2>3, <2>5, <2>6, PlainStart
  <1>3. QED
    BY <1>2 DEF change_pin1_after_pin1_pace

\* Asking for the authentication key keeps the invariant.
LEMMA AuthenticationStart ==
  ASSUME IInv, authentication_key
  PROVE  IInv' /\ Spares(card')
  <1> DEFINE o == Call("sign", "mse", "Pin1", TRUE)
  <1>1. o \in Operations /\ o.call = "sign" /\ o.at = "mse" /\ o.slot = "Pin1" /\ o.todo = {}
    <2>1. "sign" \in CallNames /\ "mse" \in Steps /\ "Pin1" \in Credentials
      BY Names, StepNames, FunctionNames
    <2> DEFINE right == TRUE
    <2>2. right \in BOOLEAN
      OBVIOUS
    <2>3. o = Call("sign", "mse", "Pin1", right)
      OBVIOUS
    <2> HIDE DEF right, o
    <2>4. QED
      BY <2>1, <2>2, <2>3, CallIs
  <1>2. Start(o, channel)
    BY Zenon DEF authentication_key
  <1> HIDE DEF o
  <1>3. HandInv(o) /\ FloorInv(o, card, hist) /\ ChannelInv(o, channel) /\ OwedByCall(o) = 0
    BY <1>1 DEF HandInv, FloorInv, ChannelInv, OwedByCall
  <1>4. QED
    BY <1>1, <1>2, <1>3, PlainStart

\* Asking for the qualified key, with its presentation of PIN 2, keeps it.
LEMMA QualifiedStart ==
  ASSUME IInv, NEW right \in BOOLEAN, unlock_qualified_key(right)
  PROVE  IInv' /\ Spares(card')
  <1>1. Safe(card, "Pin2") /\ channel.by \notin Credentials
    BY Names, ServedSafe DEF unlock_qualified_key
  <1>2. ASSUME NEW at \in {"verify2", "select"}, Start(Call("sign", at, "Pin2", right), channel)
        PROVE  IInv' /\ Spares(card')
    <2> DEFINE o == Call("sign", at, "Pin2", right)
    <2>1. o \in Operations /\ o.call = "sign" /\ o.at = at /\ o.slot = "Pin2" /\ o.todo = {}
      <3>1. "sign" \in CallNames /\ at \in Steps /\ "Pin2" \in Credentials
        BY <1>2, Names, StepNames, FunctionNames
      <3>2. QED
        BY <3>1, CallIs
    <2>2. Start(o, channel)
      BY <1>2
    <2> HIDE DEF o
    <2>3. HandInv(o) /\ OwedByCall(o) = 0
      BY <1>2, <2>1 DEF HandInv, OwedByCall
    <2>4. FloorInv(o, card, hist) /\ ChannelInv(o, channel)
      BY <1>1, <1>2, <2>1 DEF FloorInv, ChannelInv
    <2>5. QED
      BY <2>1, <2>2, <2>3, <2>4, PlainStart
  <1>3. QED
    BY <1>2 DEF unlock_qualified_key

\* qualified_key_after_pin2_pace: the channel's presentation becomes the call's.
LEMMA QualifiedChannelStart ==
  ASSUME IInv, qualified_key_after_pin2_pace
  PROVE  IInv' /\ Spares(card')
  <1> DEFINE o == Call("sign_channel", "select", "Pin2", TRUE)
             ch == [channel EXCEPT !.unspent = FALSE]
  <1>1. o \in Operations /\ o.call = "sign_channel" /\ o.at = "select" /\ o.slot = "Pin2" /\ o.todo = {}
    <2>1. "sign_channel" \in CallNames /\ "select" \in Steps /\ "Pin2" \in Credentials
      BY Names, StepNames, FunctionNames
    <2> DEFINE right == TRUE
    <2>2. right \in BOOLEAN
      OBVIOUS
    <2>3. o = Call("sign_channel", "select", "Pin2", right)
      OBVIOUS
    <2> HIDE DEF right, o
    <2>4. QED
      BY <2>1, <2>2, <2>3, CallIs
  <1>2. Start(o, ch) /\ channel.by = "Pin2" /\ channel.unspent /\ op = Idle
    BY DEF qualified_key_after_pin2_pace, Start
  <1>3. channel \in Channels /\ hist \in Histories
    BY DEF IInv, TypeOK
  <1>4. /\ ch \in Channels /\ ch.by = channel.by /\ ch.record = channel.record /\ ~ch.unspent
    BY <1>3, Zenon DEF Channels
  <1> HIDE DEF o, ch
  <1>5. HandInv(o) /\ FloorInv(o, card, hist) /\ ChannelInv(o, ch)
    BY <1>1, <1>2, <1>4, Names, Zenon DEF HandInv, FloorInv, ChannelInv
  <1>6. SpentInv(o, ch, hist)
    <2>1. OwedByCall(o) = 1 /\ OwedByChannel(ch) = 0
      BY <1>1, <1>4 DEF OwedByCall, OwedByChannel
    <2>2. OwedByCall(op) = 0 /\ OwedByChannel(channel) = 1
      BY <1>2 DEF OwedByCall, OwedByChannel, Idle
    <2>3. QED
      BY <1>3, <2>1, <2>2 DEF IInv, StateInv, SpentInv, Histories
  <1>7. RecordInv(card, ch, hist)
    BY <1>4 DEF IInv, StateInv, RecordInv
  <1>8. QED
    BY <1>1, <1>2, <1>4, <1>5, <1>6, <1>7, StartKeeps, Zenon

\* into_inner: the record goes with the channel.
LEMMA DropKeeps ==
  ASSUME IInv, into_inner
  PROVE  IInv' /\ Spares(card')
  <1>1. /\ op = Idle /\ channel' = NoChannel /\ UNCHANGED <<family, scheme, flagged, op, calls>>
        /\ card' = [card EXCEPT !.ssc = NoSsc] /\ hist' = [hist EXCEPT !.lost = FALSE]
    BY DEF into_inner
  <1>2. card \in Cards /\ hist \in Histories
    BY DEF IInv, TypeOK
  <1>3. card' \in Cards /\ card'.tries = card.tries /\ card'.verified = card.verified
    BY <1>1, <1>2 DEF Cards
  <1>4. hist' \in Histories /\ hist'.signed = hist.signed /\ hist'.presented = hist.presented
    BY <1>1, <1>2, Zenon DEF Histories
  <1>5. TypeOK' /\ FamilyInv'
    BY <1>1, <1>3, <1>4, NoChannelType DEF IInv, TypeOK, FamilyInv
  <1>6. CardInv(card')
    BY <1>3 DEF IInv, StateInv, CardInv
  <1>7. SpentInv(Idle, NoChannel, hist')
    <2>1. OwedByCall(Idle) = 0 /\ OwedByChannel(NoChannel) = 0
      BY DEF OwedByCall, OwedByChannel, Idle, NoChannel
    <2>2. OwedByChannel(channel) \in Nat
      BY DEF OwedByChannel
    <2>3. QED
      BY <1>1, <1>2, <1>4, <2>1, <2>2 DEF IInv, StateInv, SpentInv, Histories
  <1>8. RecordInv(card', NoChannel, hist')
    BY Names DEF RecordInv, NoChannel
  <1>9. StateInv(card', NoChannel, Idle, hist')
    BY <1>4, <1>6, <1>7, <1>8, IdleState
  <1>10. StateInv(card, channel, op, hist)'
    BY <1>1, <1>9 DEF StateInv, CardInv, SpentInv, OwedByCall, OwedByChannel, RecordInv, HandInv,
                      FloorInv, ChannelInv, Safe
  <1>11. QED
    BY <1>2, <1>3, <1>5, <1>10, SameSpares DEF IInv

\* A reset clears the verified flags and the card's side of the channel.
LEMMA ResetKeeps ==
  ASSUME IInv, CardReset
  PROVE  IInv' /\ Spares(card')
  <1>1. /\ card' = [card EXCEPT !.verified = {}, !.ssc = NoSsc]
        /\ UNCHANGED <<family, scheme, flagged, channel, op, calls, hist>>
    BY DEF CardReset
  <1>2. card' \in Cards /\ card'.tries = card.tries /\ card'.verified = {}
    BY <1>1, Zenon DEF IInv, TypeOK, Cards
  <1>3. TypeOK' /\ FamilyInv'
    BY <1>1, <1>2 DEF IInv, TypeOK, FamilyInv
  <1>4. StateInv(card, channel, op, hist)'
    BY <1>1, <1>2 DEF IInv, StateInv, CardInv, SpentInv, OwedByCall, OwedByChannel, RecordInv, HandInv,
                      FloorInv, ChannelInv, Safe
  <1>5. QED
    BY <1>2, <1>3, <1>4, SameSpares DEF IInv, TypeOK

-----------------------------------------------------------------------------
(* The exchanges that present a credential. *)

\* A presentation the floor served spends no last try.
LEMMA PresentSpares ==
  ASSUME IInv, NEW c \in Credentials, NEW right \in BOOLEAN, hist.lost \/ Safe(card, c)
  PROVE  Spares(Presented(c, right))
  <1>1. \A d \in Credentials : card.tries[d] \in Nat /\ card.tries[d] <= Limit
    BY CardFields, Consts DEF IInv, TypeOK
  <1> DEFINE k == Presented(c, right)
  <1>2. /\ \A d \in Credentials \ {c} : k.tries[d] = card.tries[d]
        /\ \/ card.tries[c] = 0 /\ k = card
           \/ k.tries[c] = Limit
           \/ card.tries[c] # 0 /\ k.tries[c] = card.tries[c] - 1
    BY PresentedIs
  <1> HIDE DEF k
  <1>3. Spares(k)
    BY <1>1, <1>2, Consts DEF Spares, Safe
  <1>4. QED
    BY <1>3 DEF k

\* A presentation off the counted channels, the function returning after it.
LEMMA PresentLast ==
  ASSUME IInv, NEW c \in Credentials, NEW right \in BOOLEAN, hist.lost \/ Safe(card, c),
         channel.by \notin Credentials, Last(Presented(c, right), channel, hist)
  PROVE  IInv' /\ Spares(card')
  <1> DEFINE k == Presented(c, right)
  <1>1. k \in Cards /\ CardInv(k)
    BY PresentedIs
  <1>2. Spares(k) /\ Last(k, channel, hist)
    BY PresentSpares
  <1> HIDE DEF k
  <1>3. channel \in Channels /\ hist \in Histories /\ SpentInv(op, channel, hist)
    BY DEF IInv, TypeOK, StateInv
  <1>4. /\ RecordInv(k, channel, hist)
        /\ RecordInv(k, channel, [hist EXCEPT !.lost = @ \/ PresentsAgain])
    BY NoRecord DEF IInv, StateInv
  <1>5. QED
    BY <1>1, <1>2, <1>3, <1>4, LastKeeps

\* VERIFY of digits, right or wrong, keeps the invariant.
LEMMA VerifyKeeps ==
  ASSUME IInv, verify_digits
  PROVE  IInv' /\ Spares(card')
  <1>1. op.at = "verify" /\ Last(Presented(op.slot, op.right), channel, hist)
    BY DEF verify_digits
  <1>2. op.slot \in Credentials /\ op.right \in BOOLEAN
    BY <1>1, Names DEF IInv, StateInv, HandInv, TypeOK, Operations
  <1>3. Safe(card, op.slot) /\ channel.by \notin Credentials
    BY <1>1, Zenon DEF IInv, StateInv, FloorInv, ChannelInv
  <1>4. QED
    BY <1>1, <1>2, <1>3, PresentLast

\* VERIFY of PIN 2 before a qualified signature keeps the invariant.
LEMMA Verify2Keeps ==
  ASSUME IInv, verify_pin2
  PROVE  IInv' /\ Spares(card')
  <1> DEFINE k == Presented("Pin2", op.right)
             o == [op EXCEPT !.at = "mse"]
             h == [hist EXCEPT !.presented = @ + 1]
  <1>1. /\ op.at = "verify2"
        /\ Exchange(k, o, channel, h) \/ Last(k, channel, hist)
    BY DEF verify_pin2
  <1>2. "Pin2" \in Credentials /\ op.right \in BOOLEAN /\ op \in Operations
    BY Names DEF IInv, TypeOK, Operations
  <1>3. /\ Safe(card, "Pin2") /\ channel.by \notin Credentials
        /\ op.call = "sign" /\ op.slot = "Pin2" /\ op.todo \subseteq {"Pin2"} /\ op.todo = {}
    BY <1>1 DEF IInv, StateInv, FloorInv, ChannelInv, HandInv
  <1>4. CASE Last(k, channel, hist)
    BY <1>2, <1>3, <1>4, PresentLast
  <1>5. CASE Exchange(k, o, channel, h)
    <2>1. k \in Cards /\ CardInv(k) /\ Spares(k)
      BY <1>2, <1>3, PresentedIs, PresentSpares
    <2>2. o \in Operations /\ o.at = "mse" /\ o.call = "sign" /\ o.slot = "Pin2" /\ o.todo = {}
      <3>1. "mse" \in Steps
        BY StepNames
      <3>2. QED
        BY <1>2, <1>3, <3>1 DEF Operations
    <2>3. channel \in Channels /\ hist \in Histories
      BY DEF IInv, TypeOK
    <2>4. h \in Histories /\ h.presented = hist.presented + 1 /\ h.signed = hist.signed
      <3>1. hist.presented + 1 \in Nat
        BY <2>3 DEF Histories
      <3>2. QED
        BY <2>3, <3>1 DEF Histories
    <2>5. Exchange(k, o, channel, h)
      BY <1>5
    <2> HIDE DEF k, o, h
    <2>6. SpentInv(o, channel, h)
      <3>1. OwedByCall(o) = 1 /\ OwedByCall(op) = 0 /\ OwedByChannel(channel) \in Nat
        BY <1>1, <1>3, <2>2 DEF OwedByCall, OwedByChannel
      <3>2. QED
        BY <2>3, <2>4, <3>1 DEF IInv, StateInv, SpentInv, Histories
    <2>7. RecordInv(k, channel, h) /\ RecordInv(k, channel, [hist EXCEPT !.lost = @ \/ PresentsAgain])
      BY <1>3, NoRecord DEF IInv, StateInv
    <2>8. HandInv(o) /\ FloorInv(o, k, h) /\ ChannelInv(o, channel)
      BY <2>2, Zenon DEF HandInv, FloorInv, ChannelInv
    <2>9. StateInv(k, channel, o, h)
      BY <2>1, <2>6, <2>7, <2>8 DEF StateInv
    <2>10. QED
      BY <2>1, <2>2, <2>3, <2>4, <2>5, <2>7, <2>9, ExchangeKeeps
  <1>6. QED
    BY <1>1, <1>4, <1>5

\* lowered_counter: the channel's record after an answer never claims more tries
\* than the counter the card answered from.
LEMMA LoweredRecord ==
  ASSUME IInv, NEW k \in Cards, NEW answer,
         channel.by \in {"Pin1", "Puk"}, card.tries[channel.by] = 0 => k.tries[channel.by] = 0,
         \/ answer = Ok /\ k.tries[channel.by] = Limit
         \/ answer = Blocked /\ k.tries[channel.by] = 0
         \/ answer = Wrong(k.tries[channel.by])
  PROVE  LET ch == [channel EXCEPT !.record = lowered_counter(@, answer)] IN
         /\ ch \in Channels /\ ch.by = channel.by /\ ch.unspent = channel.unspent
         /\ RecordInv(k, ch, hist)
  <1> DEFINE r == channel.record
             n == lowered_counter(r, answer)
             ch == [channel EXCEPT !.record = n]
             c == channel.by
  <1>1. /\ c \in Credentials /\ channel \in Channels /\ r \in PinStatus
        /\ r.tries \in Nat /\ r.tries <= Limit
        /\ k.tries[c] \in 0..Limit /\ k.tries[c] \in Nat /\ card.tries[c] \in Nat
    BY Names, CardFields, StatusTypes, Consts DEF IInv, TypeOK, Channels
  <1>2. /\ family = "Organizational"
        /\ channel.unspent => c = "Pin2"
        /\ r.is \in {"Remaining", "Locked", "NoInfo"}
        /\ r.is = "Remaining" => 1 <= r.tries /\ (hist.lost \/ r.tries <= card.tries[c])
        /\ r.is = "Locked" /\ c = "Puk" => hist.lost \/ card.tries["Puk"] = 0
    BY <1>1, Zenon DEF IInv, StateInv, RecordInv
  <1>3. /\ n \in PinStatus /\ n.is \in {"Remaining", "Locked", "NoInfo"}
        /\ n.is = "Remaining" => 1 <= n.tries /\ (hist.lost \/ n.tries <= k.tries[c])
        /\ n.is = "Locked" /\ c = "Puk" => hist.lost \/ k.tries["Puk"] = 0
    <2> HIDE DEF r, c
    <2>1. CASE r.is # "Remaining" \/ answer = Ok
      <3>0. answer.is = "Ok" \/ r.is \in {"Locked", "NoInfo"}
        BY <1>2, <2>1, SMTT(30) DEF Ok
      <3>1. n = r
        BY <3>0, Zenon DEF lowered_counter
      <3>2. r.is = "Remaining" => k.tries[c] = Limit
        BY <2>1 DEF Ok, Blocked, Wrong, c
      <3>3. r.is = "Locked" /\ c = "Puk" => hist.lost \/ k.tries["Puk"] = 0
        BY <1>2 DEF c
      <3>4. r.is = "Remaining" => 1 <= r.tries /\ r.tries <= k.tries[c]
        BY <1>1, <1>2, <3>2
      <3>5. QED
        BY <1>1, <1>2, <3>1, <3>3, <3>4, Zenon
    <2>2. CASE r.is = "Remaining" /\ answer = Blocked /\ k.tries[c] = 0
      <3>1. n = Locked
        BY <2>2 DEF lowered_counter, Blocked
      <3>2. QED
        BY <2>2, <3>1, StatusTypes DEF Locked
    <2>3. CASE r.is = "Remaining" /\ answer = Wrong(k.tries[c])
      <3>1. answer.is = "Wrong" /\ answer.tries = k.tries[c]
        BY <2>3, Zenon DEF Wrong
      <3>2. n = IF r.tries < k.tries[c] THEN r ELSE IF k.tries[c] = 0 THEN Locked ELSE Remaining(k.tries[c])
        BY <2>3, <3>1 DEF lowered_counter
      <3>3. CASE r.tries < k.tries[c]
        BY <1>1, <1>2, <2>3, <3>2, <3>3, SMTT(30)
      <3>4. CASE ~(r.tries < k.tries[c]) /\ k.tries[c] = 0
        BY <3>2, <3>4, StatusTypes DEF Locked
      <3>5. CASE ~(r.tries < k.tries[c]) /\ k.tries[c] # 0
        BY <1>1, <3>2, <3>5, StatusTypes, SMTT(30) DEF Remaining
      <3>6. QED
        BY <3>3, <3>4, <3>5, Zenon
    <2>4. QED
      BY <1>2, <2>1, <2>2, <2>3, Zenon DEF c
  <1> HIDE DEF n
  <1>4. ch \in Channels /\ ch.by = channel.by /\ ch.unspent = channel.unspent /\ ch.record = n
    BY <1>1, <1>3 DEF Channels
  <1>5. RecordInv(k, ch, hist)
    BY <1>1, <1>2, <1>3, <1>4 DEF RecordInv
  <1>6. QED
    BY <1>4, <1>5 DEF n

\* Filling the counter of a PIN leaves the record true.
LEMMA RaisedRecord ==
  ASSUME IInv, NEW k,
         \A c \in Credentials : k.tries[c] = card.tries[c] \/ (c # "Puk" /\ k.tries[c] = Limit)
  PROVE  RecordInv(k, channel, hist)
  <1>1. channel.record.tries \in Nat /\ channel.record.tries <= Limit
    BY StatusTypes, Consts DEF IInv, TypeOK, Channels
  <1>2. QED
    BY <1>1, Names, Zenon DEF IInv, StateInv, RecordInv

\* The record on a channel whose answer about its own credential was lost.
LEMMA LostAnswer ==
  ASSUME IInv, NEW k, PresentsAgain
  PROVE  RecordInv(k, channel, [hist EXCEPT !.lost = @ \/ PresentsAgain])
  <1> DEFINE h == [hist EXCEPT !.lost = @ \/ PresentsAgain]
  <1>1. h.lost
    BY LostType, Zenon DEF IInv, TypeOK
  <1> HIDE DEF h
  <1>2. RecordInv(k, channel, h)
    BY <1>1, Zenon DEF IInv, StateInv, RecordInv
  <1>3. QED
    BY <1>2 DEF h

\* The PIN in hand was set: the function returns or goes on to PIN 2.
LEMMA SetKeeps ==
  ASSUME IInv, op.at \in {"change", "reset_with_puk", "reset_new_only"},
         NEW k \in Cards, CardInv(k), Spares(k),
         k.tries["Pin2"] = card.tries["Pin2"] \/ k.tries["Pin2"] = Limit,
         NEW ch \in Channels, ch.by = channel.by, ch.unspent = channel.unspent,
         RecordInv(k, ch, hist), RecordInv(k, channel, [hist EXCEPT !.lost = @ \/ PresentsAgain]),
         Set(k, ch)
  PROVE  IInv' /\ Spares(card')
  <1>1. op \in Operations /\ hist \in Histories /\ SpentInv(op, ch, hist)
    BY DEF IInv, TypeOK, StateInv, SpentInv, OwedByChannel
  <1>2. CASE op.todo = {}
    <2>1. Last(k, ch, hist)
      BY <1>2 DEF Set, AfterPin, Last
    <2>2. QED
      BY <1>1, <2>1, LastKeeps
  <1>3. CASE op.todo # {}
    <2> DEFINE at == IF scheme = "PresetActivationPin" THEN "change" ELSE "puk_status"
               o == [op EXCEPT !.slot = "Pin2", !.todo = {}, !.at = at]
    <2>1. Exchange(k, o, ch, hist)
      BY <1>3 DEF Set, AfterPin
    <2>2. at \in Steps /\ at \in {"change", "puk_status"} /\ (at = "change" => scheme = "PresetActivationPin")
          /\ (scheme = "PresetActivationPin" => at = "change")
      BY StepNames
    <2>3. op.call = "activate"
      BY <1>3 DEF IInv, StateInv, HandInv
    <2> HIDE DEF at
    <2>4. o \in Operations /\ o.call = "activate" /\ o.slot = "Pin2" /\ o.todo = {} /\ o.at = at
      BY <1>1, <2>2, <2>3, Names, Zenon DEF Operations
    <2> HIDE DEF o
    <2>5. HandInv(o) /\ OwedByCall(o) = 0
      BY <2>2, <2>4, Names DEF HandInv, OwedByCall
    <2>6. at = "change" => Safe(k, "Pin2")
      <3>1. at = "change" => op.at = "change"
        BY <2>2, <2>3 DEF IInv, StateInv, HandInv
      <3>2. at = "change" => Safe(card, "Pin2")
        BY <1>3, <3>1 DEF IInv, StateInv, FloorInv
      <3>3. QED
        BY <3>2, Consts DEF Safe
    <2>7. FloorInv(o, k, hist)
      BY <2>2, <2>4, <2>6 DEF FloorInv
    <2>8. ChannelInv(o, ch)
      <3>1. ch.by \in Credentials => scheme # "PresetActivationPin"
        BY DEF RecordInv, IInv, FamilyInv
      <3>2. QED
        BY <2>2, <2>4, <3>1 DEF ChannelInv
    <2>9. SpentInv(o, ch, hist)
      <3>1. OwedByCall(op) \in {0, 1}
        BY DEF OwedByCall
      <3>2. OwedByChannel(ch) \in {0, 1}
        BY DEF OwedByChannel
      <3>3. QED
        BY <1>1, <2>5, <3>1, <3>2 DEF SpentInv, Histories
    <2>10. StateInv(k, ch, o, hist)
      BY <2>5, <2>7, <2>8, <2>9 DEF StateInv
    <2>11. QED
      BY <1>1, <2>1, <2>4, <2>10, ExchangeKeeps
  <1>4. QED
    BY <1>2, <1>3

\* change: off the channel it is served by the caller's floor; on it, by the
\* channel's record, which the answer lowers.
LEMMA ChangeKeeps ==
  ASSUME IInv, change
  PROVE  IInv' /\ Spares(card')
  <1> DEFINE answer == Answer(op.slot, op.right)
             p == Presented(op.slot, op.right)
             w == WithNewPin(card, op.slot)
             k == IF answer = Ok THEN w ELSE p
             ch == IF op.call # "channel" THEN channel
                   ELSE [channel EXCEPT !.record = lowered_counter(@, answer)]
  <1>1. /\ op.at = "change"
        /\ IF answer = Ok THEN Set(k, ch) ELSE Last(k, ch, hist)
    BY DEF change
  <1>2. /\ op.slot \in Pins /\ op.slot \in Credentials /\ op.right \in BOOLEAN
        /\ card \in Cards /\ CardInv(card) /\ channel \in Channels /\ hist \in Histories
        /\ SpentInv(op, channel, hist)
    BY <1>1, Names DEF IInv, StateInv, HandInv, TypeOK, Operations
  <1>3. /\ hist.lost \/ Safe(card, op.slot)
        /\ op.call # "channel" => channel.by \notin Credentials
        /\ op.call = "channel" => channel.by = "Pin1" /\ op.slot = "Pin1"
    BY <1>1 DEF IInv, StateInv, FloorInv, ChannelInv
  <1>4. \A c \in Credentials : card.tries[c] \in Nat /\ card.tries[c] <= Limit
    BY <1>2, CardFields, Consts
  <1>5. /\ p \in Cards /\ CardInv(p)
        /\ \A d \in Credentials \ {op.slot} : p.tries[d] = card.tries[d]
        /\ \/ card.tries[op.slot] = 0 /\ p = card /\ answer = Blocked
           \/ card.tries[op.slot] # 0 /\ p.tries[op.slot] = Limit /\ answer = Ok
           \/ card.tries[op.slot] # 0 /\ answer = Wrong(p.tries[op.slot])
    <2>1. p.tries[op.slot] = card.tries[op.slot] - 1 =>
            Wrong(card.tries[op.slot] - 1) = Wrong(p.tries[op.slot])
      BY DEF Wrong
    <2>2. /\ p \in Cards /\ CardInv(p)
          /\ \A d \in Credentials \ {op.slot} : p.tries[d] = card.tries[d]
          /\ \/ card.tries[op.slot] = 0 /\ p = card /\ answer = Blocked
             \/ card.tries[op.slot] # 0 /\ p.tries[op.slot] = Limit /\ answer = Ok
             \/ /\ card.tries[op.slot] # 0 /\ p.tries[op.slot] = card.tries[op.slot] - 1
                /\ answer = Wrong(card.tries[op.slot] - 1)
      BY <1>2, PresentedIs, Zenon
    <2> HIDE DEF p, answer
    <2>3. QED
      BY <2>1, <2>2, Zenon
  <1>6. /\ w \in Cards /\ CardInv(w) /\ w.tries[op.slot] = Limit
        /\ \A d \in Credentials \ {op.slot} : w.tries[d] = card.tries[d]
    BY <1>2, NewPinIs
  <1>7. Spares(p)
    BY <1>2, <1>3, PresentSpares
  <1>8. Ok # Blocked /\ \A n : Ok # Wrong(n)
    BY DEF Ok, Blocked, Wrong
  <1> HIDE DEF answer, p, w
  <1>9. Spares(w)
    BY <1>4, <1>6, Consts DEF Spares
  <1>10. /\ k \in Cards /\ CardInv(k) /\ Spares(k)
         /\ \A d \in Credentials \ {op.slot} : k.tries[d] = card.tries[d]
         /\ answer = Ok => k.tries[op.slot] = Limit
         /\ card.tries[op.slot] = 0 => k.tries[op.slot] = 0
         /\ \/ answer = Ok /\ k.tries[op.slot] = Limit
            \/ answer = Blocked /\ k.tries[op.slot] = 0
            \/ answer = Wrong(k.tries[op.slot])
    <2>1. CASE answer = Ok
      BY <1>5, <1>6, <1>8, <1>9, <2>1, Zenon
    <2>2. CASE answer # Ok
      BY <1>5, <1>7, <2>2
    <2>3. QED
      BY <2>1, <2>2, Zenon
  <1> HIDE DEF k
  <1>11. /\ ch \in Channels /\ ch.by = channel.by /\ ch.unspent = channel.unspent
         /\ RecordInv(k, ch, hist) /\ RecordInv(k, channel, [hist EXCEPT !.lost = @ \/ PresentsAgain])
    <2>1. CASE op.call # "channel"
      <3>1. ch = channel
        BY <2>1
      <3>2. RecordInv(k, channel, hist) /\ RecordInv(k, channel, [hist EXCEPT !.lost = @ \/ PresentsAgain])
        BY <1>3, <2>1, NoRecord DEF IInv, StateInv
      <3>3. QED
        BY <1>2, <3>1, <3>2
    <2>2. CASE op.call = "channel"
      <3>1. ch = [channel EXCEPT !.record = lowered_counter(@, answer)]
        BY <2>2
      <3>2. channel.by = "Pin1" /\ op.slot = channel.by
        BY <1>3, <2>2
      <3>3. /\ ch \in Channels /\ ch.by = channel.by /\ ch.unspent = channel.unspent
            /\ RecordInv(k, ch, hist)
        BY <1>10, <3>1, <3>2, LoweredRecord
      <3>4. PresentsAgain
        BY <1>1, <2>2 DEF PresentsAgain
      <3>5. QED
        BY <3>3, <3>4, LostAnswer
    <2>3. QED
      BY <2>1, <2>2
  <1> HIDE DEF ch
  <1>12. CASE answer = Ok
    <2>1. Set(k, ch)
      BY <1>1, <1>12
    <2>2. k.tries["Pin2"] = card.tries["Pin2"] \/ k.tries["Pin2"] = Limit
      BY <1>10, <1>12, Names
    <2>3. QED
      BY <1>1, <1>10, <1>11, <2>1, <2>2, SetKeeps
  <1>13. CASE answer # Ok
    <2>1. Last(k, ch, hist)
      BY <1>1, <1>13
    <2>2. SpentInv(op, ch, hist)
      BY <1>2, <1>11 DEF SpentInv, OwedByChannel
    <2>3. QED
      BY <1>2, <1>10, <1>11, <2>1, <2>2, LastKeeps
  <1>14. QED
    BY <1>12, <1>13

\* unblock: the PUK's counter read and its floor applied.
LEMMA UnblockKeeps ==
  ASSUME IInv, unblock
  PROVE  IInv' /\ Spares(card')
  <1> DEFINE at == IF family = "Citizen" THEN "reset_with_puk" ELSE "verify_puk"
             o == [op EXCEPT !.at = at]
  <1>1. op.at = "puk_status"
    BY DEF unblock
  <1>2. PICK status \in puk_status :
           \/ check_retry_floor("Puk", status) /\ Exchange(card, o, channel, hist)
           \/ Last(card, channel, hist)
    BY DEF unblock
  <1>3. CASE Last(card, channel, hist)
    BY <1>3, QuietLast
  <1>4. CASE check_retry_floor("Puk", status) /\ Exchange(card, o, channel, hist)
    <2>1. Safe(card, "Puk") /\ channel.by \notin Credentials
      BY <1>4, PukSafe
    <2>2. at \in Steps /\ at \in {"reset_with_puk", "verify_puk"}
      BY StepNames
    <2>3. op \in Operations
      BY DEF IInv, TypeOK
    <2>4. Exchange(card, o, channel, hist)
      BY <1>4
    <2> HIDE DEF at
    <2>5. o \in Operations /\ o.call = op.call /\ o.slot = op.slot /\ o.todo = op.todo /\ o.at = at
      BY <2>2, <2>3 DEF Operations
    <2> HIDE DEF o
    <2>6. /\ op.slot \in Pins /\ op.call \in {"unblock", "activate"} /\ op.todo \subseteq {"Pin2"}
          /\ op.todo # {} => op.call = "activate"
          /\ ~(op.call = "activate" /\ scheme = "PresetActivationPin")
      BY <1>1, Zenon DEF IInv, StateInv, HandInv
    <2>7. HandInv(o) /\ OwedByCall(o) = 0 /\ OwedByCall(op) = 0
      BY <1>1, <2>2, <2>5, <2>6 DEF HandInv, OwedByCall
    <2>8. FloorInv(o, card, hist) /\ ChannelInv(o, channel)
      BY <2>1, <2>2, <2>5, <2>6, Zenon DEF FloorInv, ChannelInv
    <2>9. QED
      BY <2>4, <2>5, <2>7, <2>8, QuietExchange
  <1>5. QED
    BY <1>2, <1>3, <1>4

\* reset_with_puk: the citizen card's one command, never on a counted channel.
LEMMA ResetPukKeeps ==
  ASSUME IInv, reset_with_puk
  PROVE  IInv' /\ Spares(card')
  <1> DEFINE answer == Answer("Puk", op.right)
             p == Presented("Puk", op.right)
             k == [p EXCEPT !.verified = @ \ {"Puk"}]
             w == WithNewPin(k, op.slot)
  <1>1. /\ op.at = "reset_with_puk"
        /\ IF answer = Ok THEN Set(w, channel) ELSE Last(k, channel, hist)
    BY DEF reset_with_puk
  <1>2. /\ op.slot \in Pins /\ "Puk" \in Credentials /\ op.right \in BOOLEAN
        /\ channel \in Channels /\ hist \in Histories /\ SpentInv(op, channel, hist)
    BY <1>1, Names DEF IInv, StateInv, HandInv, TypeOK, Operations
  <1>3. (hist.lost \/ Safe(card, "Puk")) /\ channel.by \notin Credentials
    BY <1>1 DEF IInv, StateInv, FloorInv, ChannelInv
  <1>4. \A c \in Credentials : card.tries[c] \in Nat /\ card.tries[c] <= Limit
    BY CardFields, Consts DEF IInv, TypeOK
  <1>5. /\ p \in Cards /\ CardInv(p)
        /\ \A d \in Credentials \ {"Puk"} : p.tries[d] = card.tries[d]
    BY <1>2, PresentedIs, Zenon
  <1>6. Spares(p)
    BY <1>2, <1>3, PresentSpares
  <1> HIDE DEF answer, p
  <1>7. k \in Cards /\ k.tries = p.tries /\ k.verified = p.verified \ {"Puk"}
    BY <1>5 DEF Cards
  <1> HIDE DEF k
  <1>8. CardInv(k) /\ Spares(k)
    BY <1>5, <1>6, <1>7 DEF CardInv, Spares
  <1>9. \A n : RecordInv(n, channel, hist) /\ RecordInv(n, channel, [hist EXCEPT !.lost = @ \/ PresentsAgain])
    BY <1>3, NoRecord DEF IInv, StateInv
  <1>10. CASE answer # Ok
    <2>1. Last(k, channel, hist)
      BY <1>1, <1>10
    <2>2. QED
      BY <1>2, <1>7, <1>8, <1>9, <2>1, LastKeeps
  <1>11. CASE answer = Ok
    <2>1. Set(w, channel)
      BY <1>1, <1>11
    <2>2. /\ w \in Cards /\ CardInv(w) /\ w.tries[op.slot] = Limit
          /\ \A d \in Credentials \ {op.slot} : w.tries[d] = k.tries[d]
      BY <1>2, <1>7, <1>8, NewPinIs, Zenon
    <2> HIDE DEF w
    <2>3. w.tries["Pin2"] = card.tries["Pin2"] \/ w.tries["Pin2"] = Limit
      BY <1>5, <1>7, <2>2, Names
    <2>4. Spares(w)
      BY <1>2, <1>4, <1>8, <2>2, Consts, Names DEF Spares
    <2>5. QED
      BY <1>1, <1>2, <1>9, <2>1, <2>2, <2>3, <2>4, SetKeeps
  <1>12. QED
    BY <1>10, <1>11

\* verify_puk: as the unblock command, or again on a PUK channel.
LEMMA VerifyPukKeeps ==
  ASSUME IInv, verify_puk
  PROVE  IInv' /\ Spares(card')
  <1> DEFINE answer == Answer("Puk", op.right)
             k == Presented("Puk", op.right)
             o == [op EXCEPT !.at = "reset_new_only"]
             ch == IF op.call # "channel" THEN channel
                   ELSE [channel EXCEPT !.record = lowered_counter(@, answer)]
  <1>1. /\ op.at = "verify_puk"
        /\ IF answer = Ok THEN Exchange(k, o, ch, hist) ELSE Last(k, ch, hist)
    BY DEF verify_puk
  <1>2. /\ op.slot \in Pins /\ "Puk" \in Credentials /\ op.right \in BOOLEAN /\ op \in Operations
        /\ channel \in Channels /\ hist \in Histories /\ SpentInv(op, channel, hist)
    BY <1>1, Names DEF IInv, StateInv, HandInv, TypeOK, Operations
  <1>3. /\ hist.lost \/ Safe(card, "Puk")
        /\ op.call # "channel" => channel.by \notin Credentials
        /\ op.call = "channel" => channel.by = "Puk"
    BY <1>1 DEF IInv, StateInv, FloorInv, ChannelInv
  <1>4. k \in Cards /\ CardInv(k) /\ Spares(k)
    BY <1>2, <1>3, PresentedIs, PresentSpares
  <1>5. \/ card.tries["Puk"] = 0 /\ k = card /\ answer = Blocked
        \/ card.tries["Puk"] # 0 /\ k.tries["Puk"] = Limit /\ answer = Ok
        \/ card.tries["Puk"] # 0 /\ k.tries["Puk"] = card.tries["Puk"] - 1 /\ answer = Wrong(card.tries["Puk"] - 1)
    BY <1>2, PresentedIs, Zenon
  <1> HIDE DEF k, answer
  <1>6. /\ card.tries["Puk"] = 0 => k.tries["Puk"] = 0
        /\ \/ answer = Ok /\ k.tries["Puk"] = Limit
           \/ answer = Blocked /\ k.tries["Puk"] = 0
           \/ answer = Wrong(k.tries["Puk"])
    BY <1>5 DEF Wrong
  <1>7. /\ ch \in Channels /\ ch.by = channel.by /\ ch.unspent = channel.unspent
        /\ RecordInv(k, ch, hist) /\ RecordInv(k, channel, [hist EXCEPT !.lost = @ \/ PresentsAgain])
    <2>1. CASE op.call # "channel"
      <3>1. ch = channel
        BY <2>1
      <3>2. RecordInv(k, channel, hist) /\ RecordInv(k, channel, [hist EXCEPT !.lost = @ \/ PresentsAgain])
        BY <1>3, <2>1, NoRecord DEF IInv, StateInv
      <3>3. QED
        BY <1>2, <3>1, <3>2
    <2>2. CASE op.call = "channel"
      <3>1. ch = [channel EXCEPT !.record = lowered_counter(@, answer)]
        BY <2>2
      <3>2. channel.by = "Puk"
        BY <1>3, <2>2
      <3>3. /\ ch \in Channels /\ ch.by = channel.by /\ ch.unspent = channel.unspent
            /\ RecordInv(k, ch, hist)
        BY <1>4, <1>6, <3>1, <3>2, LoweredRecord
      <3>4. PresentsAgain
        BY <1>1, <2>2 DEF PresentsAgain
      <3>5. QED
        BY <3>3, <3>4, LostAnswer
    <2>3. QED
      BY <2>1, <2>2
  <1> HIDE DEF ch
  <1>8. SpentInv(op, ch, hist)
    BY <1>2, <1>7 DEF SpentInv, OwedByChannel
  <1>9. CASE answer # Ok
    <2>1. Last(k, ch, hist)
      BY <1>1, <1>9
    <2>2. QED
      BY <1>2, <1>4, <1>7, <1>8, <2>1, LastKeeps
  <1>10. CASE answer = Ok
    <2>1. Exchange(k, o, ch, hist)
      BY <1>1, <1>10
    <2>2. /\ o \in Operations /\ o.at = "reset_new_only" /\ o.call = op.call /\ o.slot = op.slot
          /\ o.todo = op.todo
      <3>1. "reset_new_only" \in Steps
        BY StepNames
      <3>2. QED
        BY <1>2, <3>1 DEF Operations
    <2> HIDE DEF o
    <2>3. HandInv(o) /\ FloorInv(o, k, hist) /\ ChannelInv(o, ch) /\ OwedByCall(o) = OwedByCall(op)
      BY <1>1, <1>2, <2>2, ZenonT(60) DEF IInv, StateInv, HandInv, FloorInv, ChannelInv, OwedByCall
    <2>4. StateInv(k, ch, o, hist)
      BY <1>4, <1>7, <1>8, <2>3 DEF StateInv, SpentInv
    <2>5. QED
      BY <1>2, <1>4, <1>7, <2>1, <2>2, <2>4, ExchangeKeeps
  <1>11. QED
    BY <1>9, <1>10

\* reset_new_only: no counter falls.
LEMMA ResetNewKeeps ==
  ASSUME IInv, reset_new_only
  PROVE  IInv' /\ Spares(card')
  <1>1. op.at = "reset_new_only"
    BY DEF reset_new_only
  <1>2. CASE "Puk" \notin card.verified
    BY <1>2, QuietLast DEF reset_new_only
  <1>3. CASE "Puk" \in card.verified
    <2>1. PICK dropped \in {{}, {"Puk"}} :
             Set([WithNewPin(card, op.slot) EXCEPT !.verified = @ \ dropped], channel)
      BY <1>3 DEF reset_new_only
    <2> DEFINE w == WithNewPin(card, op.slot)
               k == [w EXCEPT !.verified = @ \ dropped]
    <2>2. /\ op.slot \in Pins /\ op.slot \in Credentials /\ op.slot # "Puk"
          /\ channel \in Channels /\ hist \in Histories /\ card \in Cards /\ CardInv(card)
      BY <1>1, Names, Zenon DEF IInv, StateInv, HandInv, TypeOK
    <2>3. /\ w \in Cards /\ CardInv(w) /\ w.tries[op.slot] = Limit
          /\ \A d \in Credentials \ {op.slot} : w.tries[d] = card.tries[d]
      BY <2>2, NewPinIs, Zenon
    <2> HIDE DEF w
    <2>4. k \in Cards /\ k.tries = w.tries /\ k.verified = w.verified \ dropped
      BY <2>3 DEF Cards
    <2>5. Set(k, channel)
      BY <2>1 DEF w
    <2> HIDE DEF k
    <2>6. \A c \in Credentials : k.tries[c] = card.tries[c] \/ (c # "Puk" /\ k.tries[c] = Limit)
      BY <2>2, <2>3, <2>4
    <2>7. CardInv(k)
      BY <2>3, <2>4 DEF CardInv
    <2>8. Spares(k)
      <3>1. \A c \in Credentials : card.tries[c] \in Nat /\ card.tries[c] <= Limit
        BY <2>2, CardFields, Consts
      <3>2. QED
        BY <2>6, <3>1, Consts DEF Spares
    <2>9. RecordInv(k, channel, hist)
      BY <2>6, RaisedRecord
    <2>10. RecordInv(k, channel, [hist EXCEPT !.lost = @ \/ PresentsAgain])
      BY <2>2, <2>9, LostRecord
    <2>11. k.tries["Pin2"] = card.tries["Pin2"] \/ k.tries["Pin2"] = Limit
      BY <2>6, Names
    <2>12. QED
      BY <1>1, <2>2, <2>4, <2>5, <2>7, <2>8, <2>9, <2>10, <2>11, SetKeeps
  <1>4. QED
    BY <1>2, <1>3

-----------------------------------------------------------------------------
(* Activation, PACE and the signature commands. *)

\* A probe check_last_tries serves comes from a counter no last try is spent of.
LEMMA ProbedSafe ==
  ASSUME IInv, NEW slot \in Pins, NEW status \in Probed(slot), check_last_tries(status)
  PROVE  Safe(card, slot)
  <1>1. slot \in Credentials /\ card.tries[slot] \in Nat
    BY Names, CardFields DEF IInv, TypeOK
  <1>2. ~(channel.by # "none" /\ family = "Organizational")
    BY DEF Probed, NoInfo, check_last_tries
  <1>3. CASE slot \in card.verified
    BY <1>3, Consts DEF IInv, StateInv, CardInv, Safe
  <1>4. CASE slot \notin card.verified /\ card.tries[slot] = 0
    BY <1>4 DEF Safe
  <1>5. CASE slot \notin card.verified /\ card.tries[slot] # 0
    <2>1. status = Remaining(card.tries[slot])
      BY <1>2, <1>5 DEF Probed
    <2>2. QED
      BY <1>1, <1>5, <2>1, Consts DEF Remaining, check_last_tries, spends_a_last_try, Safe
  <1>6. QED
    BY <1>3, <1>4, <1>5

\* read_activation: every PIN it goes on to change was read above the floor.
LEMMA ActivationKeeps ==
  ASSUME IInv, read_activation
  PROVE  IInv' /\ Spares(card')
  <1>1. PICK s1 \in Probed("Pin1"), s2 \in Probed("Pin2") :
          LET status == [slot \in Pins |-> IF slot = "Pin1" THEN s1 ELSE s2]
              needs == {slot \in op.todo : pin_awaits_activation(slot, status[slot])}
              first == IF "Pin1" \in needs THEN "Pin1" ELSE "Pin2"
              at == IF scheme = "PresetActivationPin" THEN "change" ELSE "puk_status"
          IN  \/ Last(card, channel, hist)
              \/ /\ ~Refused(needs, status) /\ needs # {}
                 /\ Exchange(card, [op EXCEPT !.slot = first, !.todo = needs \ {first}, !.at = at],
                             channel, hist)
    BY Zenon DEF read_activation
  <1> DEFINE status == [slot \in Pins |-> IF slot = "Pin1" THEN s1 ELSE s2]
             needs == {slot \in op.todo : pin_awaits_activation(slot, status[slot])}
             first == IF "Pin1" \in needs THEN "Pin1" ELSE "Pin2"
             rest == needs \ {first}
             at == IF scheme = "PresetActivationPin" THEN "change" ELSE "puk_status"
             o == [op EXCEPT !.slot = first, !.todo = rest, !.at = at]
  <1>2. \/ Last(card, channel, hist)
        \/ ~Refused(needs, status) /\ needs # {} /\ Exchange(card, o, channel, hist)
    BY <1>1
  <1>3. \A slot \in Pins : status[slot] \in Probed(slot)
    BY DEF Pins
  <1>4. op \in Operations /\ op.todo \subseteq Pins /\ needs \subseteq op.todo
    BY DEF IInv, TypeOK, Operations
  <1> HIDE DEF status, needs
  <1>5. CASE Last(card, channel, hist)
    BY <1>5, QuietLast
  <1>6. CASE ~Refused(needs, status) /\ needs # {} /\ Exchange(card, o, channel, hist)
    <2>1. first \in needs /\ first \in Pins /\ rest \subseteq Pins /\ rest \subseteq {"Pin2"}
          /\ rest \subseteq needs
      BY <1>4, <1>6 DEF Pins
    <2>2. at \in Steps /\ at \in {"change", "puk_status"} /\ (at = "change" => scheme = "PresetActivationPin")
          /\ (scheme = "PresetActivationPin" => at = "change")
      BY StepNames
    <2>3. Exchange(card, o, channel, hist)
      BY <1>6
    <2>4. op.call = "activate"
      BY <1>4, <1>6 DEF IInv, StateInv, HandInv
    <2> HIDE DEF first, rest, at
    <2>5. /\ o \in Operations /\ o.call = "activate" /\ o.slot = first /\ o.todo = rest /\ o.at = at
      BY <1>4, <2>1, <2>2, <2>4, Names, Zenon DEF Operations
    <2> HIDE DEF o
    <2>6. at = "change" => \A slot \in needs : Safe(card, slot)
      BY <1>3, <1>4, <1>6, <2>2, ProbedSafe DEF Refused
    <2>7. HandInv(o) /\ OwedByCall(o) = 0
      BY <2>1, <2>2, <2>5 DEF HandInv, OwedByCall
    <2>8. FloorInv(o, card, hist)
      BY <2>1, <2>2, <2>5, <2>6, Zenon DEF FloorInv
    <2>9. ChannelInv(o, channel)
      <3>1. channel.by \in Credentials => scheme # "PresetActivationPin"
        BY DEF IInv, StateInv, RecordInv, FamilyInv
      <3>2. QED
        BY <2>2, <2>5, <3>1 DEF ChannelInv
    <2>10. OwedByCall(o) <= OwedByCall(op)
      BY <2>4, <2>7 DEF OwedByCall
    <2>11. QED
      BY <2>3, <2>5, <2>7, <2>8, <2>9, <2>10, QuietExchange
  <1>7. QED
    BY <1>2, <1>5, <1>6

\* A PACE function in hand.
LEMMA PaceHand ==
  ASSUME IInv, op.at \in {"set_at", "nonce", "agree", "mutual"}
  PROVE  /\ op \in Operations /\ op.call = "pace" /\ op.slot \in Credentials \cup {"Can"}
         /\ op.todo = {} /\ channel.by = "none" /\ ~channel.unspent /\ OwedByCall(op) = 0
         /\ op.slot \in Credentials => family = "Organizational"
  BY Zenon DEF IInv, TypeOK, StateInv, HandInv, ChannelInv, RecordInv, OwedByCall

\* set_authentication_template: the counter read and its floor applied.
LEMMA SetAtKeeps ==
  ASSUME IInv, set_authentication_template
  PROVE  IInv' /\ Spares(card')
  <1>1. op.at = "set_at"
    BY DEF set_authentication_template
  <1>2. "nonce" \in Steps /\ "Can" \notin Credentials
    BY StepNames, Names
  <1>3. ASSUME NEW o \in Operations, Exchange(card, o, channel, hist), o.at = "nonce", o.call = op.call,
               o.slot = op.slot, o.todo = op.todo,
               op.slot \in Credentials =>
                 /\ Safe(card, op.slot)
                 /\ card.tries[op.slot] # 0 => o.record = Remaining(card.tries[op.slot])
        PROVE  IInv' /\ Spares(card')
    <2>1. HandInv(o) /\ FloorInv(o, card, hist) /\ ChannelInv(o, channel)
      BY <1>1, <1>3, PaceHand, Zenon DEF HandInv, FloorInv, ChannelInv
    <2>2. OwedByCall(o) = 0 /\ OwedByCall(op) = 0
      BY <1>1, <1>3, PaceHand, Zenon DEF OwedByCall
    <2>3. QED
      BY <1>3, <2>1, <2>2, QuietExchange, SMTT(30)
  <1>4. CASE op.slot = "Can"
    <2> DEFINE o == [op EXCEPT !.at = "nonce"]
    <2>1. o \in Operations /\ o.at = "nonce" /\ o.call = op.call /\ o.slot = op.slot /\ o.todo = op.todo
      BY <1>1, <1>2, PaceHand DEF Operations
    <2>2. Exchange(card, o, channel, hist)
      BY <1>4 DEF set_authentication_template
    <2> HIDE DEF o
    <2>3. QED
      BY <1>2, <1>3, <1>4, <2>1, <2>2, Zenon
  <1>5. CASE op.slot # "Can" /\ check_retry_floor(op.slot, SetAt(op.slot))
    <2> DEFINE r == SetAt(op.slot)
               o == [op EXCEPT !.at = "nonce", !.record = r]
    <2>1. op.slot \in Credentials /\ card.tries[op.slot] \in 0..Limit /\ card.tries[op.slot] \in Nat
      BY <1>1, <1>5, PaceHand, CardFields, Zenon DEF IInv, TypeOK
    <2>2. r \in PinStatus /\ (card.tries[op.slot] # 0 => r = Remaining(card.tries[op.slot]))
      BY <2>1, StatusTypes DEF SetAt
    <2>3. Safe(card, op.slot)
      <3>1. CASE card.tries[op.slot] = 0
        BY <3>1 DEF Safe
      <3>2. CASE card.tries[op.slot] # 0
        <4>1. r.is = "Remaining" /\ r.tries = card.tries[op.slot]
          BY <2>2, <3>2 DEF Remaining
        <4>2. is_above_floor(r.tries) \/ check_last_tries(r)
          BY <1>5, <4>1 DEF check_retry_floor
        <4>3. QED
          BY <2>1, <3>2, <4>1, <4>2, Consts DEF is_above_floor, check_last_tries, spends_a_last_try, Safe
      <3>3. QED
        BY <3>1, <3>2
    <2>4. Exchange(card, o, channel, hist)
      BY <1>5 DEF set_authentication_template
    <2> HIDE DEF r
    <2>5. /\ o \in Operations /\ o.at = "nonce" /\ o.call = op.call /\ o.slot = op.slot /\ o.todo = op.todo
          /\ o.record = r
      BY <1>1, <1>2, <2>2, PaceHand, Zenon DEF Operations
    <2> HIDE DEF o
    <2>6. QED
      BY <1>3, <2>2, <2>3, <2>4, <2>5
  <1>6. CASE op.slot # "Can" /\ ~check_retry_floor(op.slot, SetAt(op.slot))
    BY <1>6, QuietLast DEF set_authentication_template
  <1>7. QED
    BY <1>4, <1>5, <1>6

\* get_encrypted_nonce: the one try the handshake takes.
LEMMA NonceKeeps ==
  ASSUME IInv, get_encrypted_nonce
  PROVE  IInv' /\ Spares(card')
  <1> DEFINE o == [op EXCEPT !.at = "agree"]
  <1>1. op.at = "nonce"
    BY DEF get_encrypted_nonce
  <1>2. /\ o \in Operations /\ o.at = "agree" /\ o.call = op.call /\ o.slot = op.slot /\ o.todo = op.todo
        /\ o.record = op.record
    <2>1. "agree" \in Steps
      BY StepNames
    <2>2. QED
      BY <1>1, <2>1, PaceHand DEF Operations
  <1>3. "Can" \notin Credentials
    BY Names
  <1>4. HandInv(o) /\ ChannelInv(o, channel) /\ OwedByCall(o) = 0 /\ OwedByCall(op) = 0
    <2> HIDE DEF o
    <2>1. QED
      BY <1>1, <1>2, PaceHand DEF HandInv, ChannelInv, OwedByCall
  <1>5. CASE op.slot = "Can"
    <2>1. Exchange(card, o, channel, hist)
      BY <1>5 DEF get_encrypted_nonce
    <2> HIDE DEF o
    <2>2. FloorInv(o, card, hist)
      BY <1>1, <1>2, <1>3, <1>5, PaceHand DEF FloorInv
    <2>3. QED
      BY <1>2, <1>4, <2>1, <2>2, QuietExchange
  <1>6. CASE op.slot # "Can" /\ card.tries[op.slot] = 0
    BY <1>6, QuietLast DEF get_encrypted_nonce
  <1>7. CASE op.slot # "Can" /\ card.tries[op.slot] # 0
    <2> DEFINE tries == [card.tries EXCEPT ![op.slot] = @ - 1]
               k == [card EXCEPT !.tries[op.slot] = @ - 1, !.verified = @ \ {op.slot}]
    <2>1. Exchange(k, o, channel, hist)
      BY <1>7 DEF get_encrypted_nonce
    <2>2. /\ op.slot \in Credentials /\ card \in Cards /\ CardInv(card) /\ channel \in Channels
          /\ hist \in Histories /\ SpentInv(op, channel, hist)
      BY <1>1, <1>7, PaceHand, Zenon DEF IInv, TypeOK, StateInv
    <2>3. /\ card.tries \in [Credentials -> 0..Limit]
          /\ \A c \in Credentials : card.tries[c] \in 0..Limit /\ card.tries[c] \in Nat
      BY <2>2, CardFields, Zenon
    <2>4. tries \in [Credentials -> 0..Limit] /\ tries[op.slot] = card.tries[op.slot] - 1
          /\ \A d \in Credentials \ {op.slot} : tries[d] = card.tries[d]
      BY <1>7, <2>2, <2>3, Consts
    <2>5. k = [card EXCEPT !.tries = tries, !.verified = card.verified \ {op.slot}]
      BY <2>2 DEF Cards
    <2> HIDE DEF tries, k, o
    <2>6. k \in Cards /\ k.tries = tries /\ k.verified = card.verified \ {op.slot}
      BY <2>2, <2>4, <2>5, Zenon DEF Cards
    <2>7. CardInv(k)
      BY <2>2, <2>4, <2>6 DEF CardInv, Cards
    <2>8. /\ Floor <= card.tries[op.slot] /\ op.record = Remaining(card.tries[op.slot])
      BY <1>1, <1>7, <2>2, Zenon DEF IInv, StateInv, FloorInv, Safe
    <2>9. Spares(k)
      BY <2>2, <2>3, <2>4, <2>6, <2>8, SMTT(30) DEF Spares
    <2>10. FloorInv(o, k, hist)
      <3>1. o.record.is = "Remaining" /\ 1 <= o.record.tries
        BY <1>2, <1>7, <2>2, <2>3, <2>8 DEF Remaining
      <3>2. QED
        BY <1>1, <1>2, <3>1, PaceHand, Zenon DEF FloorInv
    <2>11. /\ RecordInv(k, channel, hist)
           /\ RecordInv(k, channel, [hist EXCEPT !.lost = @ \/ PresentsAgain])
      BY <1>1, PaceHand, Names, NoRecord DEF IInv, StateInv
    <2>12. StateInv(k, channel, o, hist)
      BY <1>4, <2>2, <2>7, <2>10, <2>11 DEF StateInv, SpentInv
    <2>13. QED
      BY <1>2, <2>1, <2>2, <2>6, <2>9, <2>11, <2>12, ExchangeKeeps
  <1>8. QED
    BY <1>5, <1>6, <1>7

\* The key agreement of PACE keeps the invariant.
LEMMA AgreeKeeps ==
  ASSUME IInv, map_nonce_and_key_agreement
  PROVE  IInv' /\ Spares(card')
  <1> DEFINE o == [op EXCEPT !.at = "mutual"]
  <1>1. op.at = "agree" /\ (Exchange(card, o, channel, hist) \/ Last(card, channel, hist))
    BY DEF map_nonce_and_key_agreement
  <1>2. /\ o \in Operations /\ o.at = "mutual" /\ o.call = op.call /\ o.slot = op.slot /\ o.todo = op.todo
        /\ o.record = op.record
    <2>1. "mutual" \in Steps
      BY StepNames
    <2>2. QED
      BY <1>1, <2>1, PaceHand DEF Operations
  <1> HIDE DEF o
  <1>3. HandInv(o) /\ ChannelInv(o, channel) /\ OwedByCall(o) = 0 /\ OwedByCall(op) = 0
    BY <1>1, <1>2, PaceHand, Zenon DEF HandInv, ChannelInv, OwedByCall
  <1>4. FloorInv(o, card, hist)
    BY <1>1, <1>2, PaceHand, Zenon DEF IInv, StateInv, FloorInv
  <1>5. QED
    BY <1>1, <1>2, <1>3, <1>4, QuietExchange, QuietLast

\* run_mutual_authentication: the channel opens with its credential's counter
\* full, its record as the floor served it, and for PIN 2 one presentation owed.
LEMMA MutualKeeps ==
  ASSUME IInv, run_mutual_authentication
  PROVE  IInv' /\ Spares(card')
  <1>1. op.at = "mutual"
    BY DEF run_mutual_authentication
  <1>2. CASE ~op.right
    BY <1>2, QuietLast DEF run_mutual_authentication
  <1>3. CASE op.right
    <2> DEFINE tries == [c \in Credentials |-> IF c = op.slot THEN Limit ELSE card.tries[c]]
               k == [card EXCEPT !.ssc = 0, !.verified = @ \cup ({op.slot} \cap Credentials),
                                 !.tries = tries]
               ch == Opened(op.slot)
               n == IF op.slot = "Pin2" THEN hist.presented + 1 ELSE hist.presented
               h == [hist EXCEPT !.lost = FALSE, !.presented = n]
    <2>1. /\ card \in Cards /\ CardInv(card) /\ hist \in Histories /\ SpentInv(op, channel, hist)
          /\ op \in Operations /\ op.record \in PinStatus
      BY DEF IInv, TypeOK, StateInv, Operations
    <2>2. Last(k, ch, h)
      <3>1. [card EXCEPT !.ssc = 0, !.verified = @ \cup ({op.slot} \cap Credentials),
                         !.tries = [c \in Credentials |-> IF c = op.slot THEN Limit ELSE @[c]]] = k
        BY <2>1 DEF Cards
      <3>2. [hist EXCEPT !.lost = FALSE, !.presented = IF op.slot = "Pin2" THEN @ + 1 ELSE @] = h
        BY <2>1 DEF Histories
      <3>3. QED
        BY <1>3, <3>1, <3>2 DEF run_mutual_authentication
    <2>3. /\ tries \in [Credentials -> 0..Limit] /\ \A c \in Credentials : card.tries[c] \in Nat
          /\ \A c \in Credentials : tries[c] = card.tries[c] \/ tries[c] = Limit
          /\ \A c \in Credentials : card.tries[c] = Limit \/ c = op.slot => tries[c] = Limit
          /\ \A c \in Credentials : card.tries[c] <= Limit
      BY <2>1, CardFields, Consts
    <2>4. n \in Nat /\ n = hist.presented + (IF op.slot = "Pin2" THEN 1 ELSE 0)
      BY <2>1 DEF Histories
    <2> HIDE DEF tries, n
    <2>5. k \in Cards /\ k.tries = tries /\ k.verified = card.verified \cup ({op.slot} \cap Credentials)
      BY <2>1, <2>3, Zenon DEF Cards
    <2>6. h \in Histories /\ h.presented = n /\ h.signed = hist.signed
      BY <2>1, <2>4, Zenon DEF Histories
    <2>7. /\ ch \in Channels /\ ch.by = op.slot /\ ch.record = op.record
          /\ (ch.unspent <=> op.slot = "Pin2")
      <3>1. op.slot \in Credentials \cup {"Can", "none"}
        BY <1>1, PaceHand
      <3>2. QED
        BY <2>1, <3>1, Zenon DEF Opened, Channels
    <2> HIDE DEF k, h, ch
    <2>8. CardInv(k)
      BY <2>1, <2>3, <2>5 DEF CardInv, Cards
    <2>9. Spares(k)
      BY <2>3, <2>5, Consts, SMTT(30) DEF Spares
    <2>10. SpentInv(op, ch, h)
      <3>1. OwedByCall(op) = 0 /\ OwedByChannel(channel) = 0
        BY <1>1, PaceHand DEF OwedByChannel
      <3>2. OwedByChannel(ch) = IF op.slot = "Pin2" THEN 1 ELSE 0
        BY <2>7 DEF OwedByChannel
      <3>3. QED
        BY <2>1, <2>4, <2>6, <3>1, <3>2 DEF SpentInv, Histories
    <2>11. RecordInv(k, ch, h)
      <3>1. op.slot \in Credentials => op.record.is = "Remaining" /\ 1 <= op.record.tries
        BY <1>1, Zenon DEF IInv, StateInv, FloorInv
      <3>2. op.record.tries \in Nat /\ op.record.tries <= Limit
        BY <2>1, StatusTypes, Consts, SMTT(30)
      <3>3. op.slot \in Credentials => k.tries[op.slot] = Limit /\ family = "Organizational"
        BY <1>1, <2>3, <2>5, PaceHand
      <3>4. QED
        BY <2>7, <3>1, <3>2, <3>3 DEF RecordInv
    <2>12. RecordInv(k, channel, [hist EXCEPT !.lost = @ \/ PresentsAgain])
      BY <1>1, PaceHand, Names, NoRecord DEF IInv, StateInv
    <2>13. QED
      BY <2>2, <2>5, <2>6, <2>7, <2>8, <2>9, <2>10, <2>11, <2>12, LastKeeps
  <1>4. QED
    BY <1>2, <1>3

\* Selecting the signature application keeps the invariant.
LEMMA SelectKeeps ==
  ASSUME IInv, select_esign_directory
  PROVE  IInv' /\ Spares(card')
  <1> DEFINE at == IF op.call = "sign" THEN "verify2" ELSE "mse"
             o == [op EXCEPT !.at = at]
  <1>1. op.at = "select" /\ (Exchange(card, o, channel, hist) \/ Last(card, channel, hist))
    BY DEF select_esign_directory
  <1>2. /\ at \in Steps /\ at \in {"verify2", "mse"} /\ op \in Operations
        /\ at = "verify2" => op.call = "sign"
        /\ at = "mse" => op.call # "sign"
    BY StepNames DEF IInv, TypeOK
  <1> HIDE DEF at
  <1>3. o \in Operations /\ o.at = at /\ o.call = op.call /\ o.slot = op.slot /\ o.todo = op.todo
    BY <1>2 DEF Operations
  <1> HIDE DEF o
  <1>4. op.slot = "Pin2" /\ op.call \in {"sign", "sign_channel"}
    BY <1>1, Zenon DEF IInv, StateInv, HandInv
  <1>5. HandInv(o)
    BY <1>1, <1>2, <1>3, <1>4, Names, Zenon DEF IInv, StateInv, HandInv
  <1>6. FloorInv(o, card, hist) /\ ChannelInv(o, channel)
    BY <1>1, <1>2, <1>3, <1>4, Zenon DEF IInv, StateInv, FloorInv, ChannelInv
  <1>7. OwedByCall(o) <= OwedByCall(op)
    BY <1>1, <1>2, <1>3, <1>4 DEF OwedByCall
  <1>8. QED
    BY <1>1, <1>3, <1>5, <1>6, <1>7, QuietExchange, QuietLast

\* drive_chain: a signature uses up the presentation it was owed.
LEMMA ChainKeeps ==
  ASSUME IInv, drive_chain
  PROVE  IInv' /\ Spares(card')
  <1>1. op.at \in {"mse", "hash", "cds"} /\ op \in Operations
    BY DEF drive_chain, IInv, TypeOK
  <1>2. ASSUME NEW at \in {"hash", "cds"}, Exchange(card, [op EXCEPT !.at = at], channel, hist)
        PROVE  IInv' /\ Spares(card')
    <2> DEFINE o == [op EXCEPT !.at = at]
    <2>1. o \in Operations /\ o.at = at /\ o.call = op.call /\ o.slot = op.slot /\ o.todo = op.todo
      <3>1. at \in Steps
        BY <1>2, StepNames
      <3>2. QED
        BY <1>1, <3>1 DEF Operations
    <2>2. Exchange(card, o, channel, hist)
      BY <1>2
    <2> HIDE DEF o
    <2>3. HandInv(o) /\ FloorInv(o, card, hist) /\ ChannelInv(o, channel) /\ OwedByCall(o) <= OwedByCall(op)
      BY <1>1, <1>2, <2>1 DEF IInv, StateInv, HandInv, FloorInv, ChannelInv, OwedByCall
    <2>4. QED
      BY <2>1, <2>2, <2>3, QuietExchange
  <1>3. ASSUME op.at = "cds",
               Last(card, channel, [hist EXCEPT !.signed = IF op.slot = "Pin2" THEN @ + 1 ELSE @])
        PROVE  IInv' /\ Spares(card')
    <2> DEFINE n == IF op.slot = "Pin2" THEN hist.signed + 1 ELSE hist.signed
               h == [hist EXCEPT !.signed = n]
    <2>1. hist \in Histories /\ card \in Cards /\ channel \in Channels
      BY DEF IInv, TypeOK
    <2>2. Exchange(card, Idle, channel, h)
      BY <1>3 DEF Last
    <2>3. n \in Nat /\ n = hist.signed + (IF op.slot = "Pin2" THEN 1 ELSE 0)
      BY <2>1 DEF Histories
    <2> HIDE DEF n
    <2>4. h \in Histories /\ h.signed = n /\ h.presented = hist.presented /\ h.lost = hist.lost
      BY <2>1, <2>3 DEF Histories
    <2> HIDE DEF h
    <2>5. SpentInv(Idle, channel, h)
      <3>1. op.slot = "Pin2" => OwedByCall(op) = 1
        BY <1>3 DEF IInv, StateInv, HandInv, OwedByCall
      <3>2. OwedByCall(op) \in {0, 1} /\ OwedByCall(Idle) = 0 /\ OwedByChannel(channel) \in {0, 1}
        BY DEF OwedByCall, OwedByChannel, Idle
      <3>3. QED
        BY <2>1, <2>3, <2>4, <3>1, <3>2 DEF IInv, StateInv, SpentInv, Histories
    <2>6. RecordInv(card, channel, h) /\ CardInv(card)
      BY <2>4, Zenon DEF IInv, StateInv, RecordInv
    <2>7. StateInv(card, channel, Idle, h)
      BY <2>4, <2>5, <2>6, IdleState, Zenon
    <2>8. RecordInv(card, channel, [hist EXCEPT !.lost = @ \/ PresentsAgain])
      BY <2>1, LostRecord DEF IInv, StateInv
    <2>9. QED
      BY <2>1, <2>2, <2>4, <2>7, <2>8, IdleType, SameSpares, ExchangeKeeps
  <1>4. QED
    BY <1>2, <1>3, QuietLast DEF drive_chain

-----------------------------------------------------------------------------
(* The invariant is inductive, and what follows from it. *)

\* The invariant holds before the first operation.
LEMMA InitHolds ==
  ASSUME Init
  PROVE  IInv
  <1>1. PICK tries \in [Credentials -> FirstTries], changed \in SUBSET Pins :
           card = [tries |-> tries, verified |-> {}, changed |-> changed, ssc |-> NoSsc]
    BY Zenon DEF Init
  <1>2. card \in Cards /\ card.verified = {}
    <2>1. tries \in [Credentials -> 0..Limit]
      BY CountsAssumption, Zenon
    <2>2. QED
      BY <1>1, <2>1 DEF Cards
  <1>3. /\ family \in Families /\ channel = NoChannel /\ op = Idle /\ calls = 0
        /\ hist = [presented |-> 0, signed |-> 0, lost |-> FALSE]
    BY DEF Init
  <1>4. hist \in Histories /\ hist.signed = 0 /\ hist.presented = 0
    BY <1>3 DEF Histories
  <1>5. scheme \in {"ActivationCodeIsPuk", "PresetActivationPin", "None"} /\ flagged \in BOOLEAN
    BY Zenon DEF Init
  <1>6. TypeOK
    BY <1>2, <1>3, <1>4, <1>5, IdleType, NoChannelType, Consts DEF TypeOK
  <1>7. FamilyInv
    BY DEF Init, FamilyInv
  <1>8. CardInv(card)
    BY <1>2 DEF CardInv
  <1>9. SpentInv(Idle, NoChannel, hist)
    BY <1>4 DEF SpentInv, OwedByCall, OwedByChannel, Idle, NoChannel
  <1>10. RecordInv(card, NoChannel, hist)
    BY Names, Zenon DEF RecordInv, NoChannel
  <1>11. StateInv(card, NoChannel, Idle, hist)
    BY <1>4, <1>8, <1>9, <1>10, IdleState
  <1>12. QED
    BY <1>3, <1>6, <1>7, <1>11 DEF IInv

\* Every step keeps the invariant and takes no try from below the floor.
LEMMA NextKeeps ==
  ASSUME IInv, Next
  PROVE  IInv' /\ Spares(card')
  <1>1. CASE Operation
    BY <1>1, ServedStart, UnblockStart, ActivateStart, PaceStart, PukChannelStart, Pin1ChannelStart,
       AuthenticationStart, QualifiedStart, QualifiedChannelStart, DropKeeps DEF Operation
  <1>2. CASE Step
    BY <1>2, VerifyKeeps, ChangeKeeps, UnblockKeeps, ResetPukKeeps, VerifyPukKeeps, ResetNewKeeps,
       ActivationKeeps, SetAtKeeps, NonceKeeps, AgreeKeeps, MutualKeeps, SelectKeeps, Verify2Keeps,
       ChainKeeps DEF Step
  <1>3. QED
    BY <1>1, <1>2, ResetKeeps DEF Next

\* So does a step that changes nothing.
LEMMA StutterKeeps ==
  ASSUME IInv, UNCHANGED vars
  PROVE  IInv'
  <1>1. TypeOK' /\ FamilyInv'
    BY DEF IInv, TypeOK, FamilyInv, vars
  <1>2. StateInv(card, channel, op, hist)'
    <2>1. /\ card' = card /\ channel' = channel /\ op' = op /\ hist' = hist
          /\ family' = family /\ scheme' = scheme
      BY DEF vars
    <2>2. CardInv(card)' /\ SpentInv(op, channel, hist)'
      BY <2>1, Zenon DEF IInv, StateInv, CardInv, SpentInv, OwedByCall, OwedByChannel
    <2>3. RecordInv(card, channel, hist)' /\ HandInv(op)'
      BY <2>1, ZenonT(60) DEF IInv, StateInv, RecordInv, HandInv
    <2>4. FloorInv(op, card, hist)' /\ ChannelInv(op, channel)'
      BY <2>1, ZenonT(60) DEF IInv, StateInv, FloorInv, ChannelInv, Safe
    <2>5. QED
      BY <2>2, <2>3, <2>4 DEF StateInv
  <1>3. QED
    BY <1>1, <1>2 DEF IInv

\* The invariant holds of every run: the presentations owed are counted, a channel's record
\* never claims more tries than the card has unless an answer was lost (SmTransport's record
\* and lowered_counter), and every credential in hand was read at or above its floor.
THEOREM Invariant == Spec => []IInv
  <1>1. Init => IInv
    BY InitHolds
  <1>2. IInv /\ [Next]_vars => IInv'
    BY NextKeeps, StutterKeeps
  <1>3. QED
    BY <1>1, <1>2, PTL DEF Spec

\* Counters stay within the card's limit and every record, function and channel has its shape.
THEOREM TypeCorrect == Spec => []TypeOK
  <1>1. IInv => TypeOK
    BY DEF IInv
  <1>2. QED
    BY <1>1, Invariant, PTL

\* However operations, lost answers, card resets and dropped channels interleave, each
\* qualified signature has a PIN 2 presentation of its own: unlock_qualified_key presents it
\* for one signature, and qualified_key_after_pin2_pace spends the channel's only one.
THEOREM OwnPresentation == Spec => []OnePin2PerSignature
  <1>1. IInv => OnePin2PerSignature
    <2>1. SUFFICES ASSUME IInv PROVE OnePin2PerSignature
      OBVIOUS
    <2>2. hist.signed \in Nat /\ hist.presented \in Nat
      BY <2>1 DEF IInv, TypeOK, Histories
    <2>3. OwedByCall(op) \in Nat /\ OwedByChannel(channel) \in Nat
      BY DEF OwedByCall, OwedByChannel
    <2>4. hist.signed + OwedByCall(op) + OwedByChannel(channel) <= hist.presented
      BY <2>1 DEF IInv, StateInv, SpentInv
    <2>5. QED
      BY <2>2, <2>3, <2>4 DEF OnePin2PerSignature
  <1>2. QED
    BY <1>1, Invariant, PTL

\* No step of the library, on the raw transport, over PACE or on the channel it opened, takes
\* a counter from below the floor, unless the answer to a further presentation on that channel
\* was lost (check_retry_floor, check_last_tries and the record that lowered_counter keeps).
THEOREM LastTries == Spec => LastTriesNotSpent
  <1> DEFINE Spared == \A c \in Credentials :
                         card'.tries[c] < card.tries[c] => hist.lost \/ Floor <= card.tries[c]
  <1>1. IInv /\ [Next]_vars => [Spared]_vars
    BY NextKeeps DEF Spares
  <1>2. QED
    BY <1>1, Invariant, PTL DEF Spec, LastTriesNotSpent

=============================================================================
