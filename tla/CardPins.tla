------------------------------ MODULE CardPins ------------------------------
(***************************************************************************)
(* PIN 1, PIN 2 and the PUK of one FINEID card as the library presents     *)
(* them: verification, change, unblocking with the PUK, factory activation *)
(* (crates/auth), PACE with a PIN or the PUK as the password and the       *)
(* secure channel it opens (crates/pace), and the signatures the PINs      *)
(* unlock (crates/sign).                                                   *)
(*                                                                         *)
(* An operation is a caller's function call.  It runs as the sequence of   *)
(* its card exchanges, one action each.  An exchange may fail before the   *)
(* command reaches the card or after the card carried it out; either way   *)
(* the function returns the transport's error and the caller may go on     *)
(* with the same transport.  The card may be reset between two exchanges.  *)
(* The transport is the caller's alone while a function runs.              *)
(*                                                                         *)
(* The card is external: its counters, its verified flags and its answers  *)
(* are what the code's comments and classifiers rely on.                   *)
(***************************************************************************)
EXTENDS Naturals, Integers, FiniteSets

CONSTANTS Limit,         \* tries of a pristine credential: RETRIES_PRISTINE
          Floor,         \* lowest count an attempt is served at: RETRIES_FLOOR
          Families,      \* card families a run covers
          FirstTries,    \* counters a card may be met with
          MaxCalls       \* bound: operations the caller starts

ASSUME CountsAssumption == /\ Limit \in Nat /\ Floor \in 1..Limit
                           /\ FirstTries \subseteq 0..Limit
ASSUME CallsAssumption == MaxCalls \in Nat
ASSUME FamiliesAssumption == Families \subseteq {"Citizen", "Organizational"}

VARIABLES family,    \* the card's numbering, as the counter-safe probe resolves it
          scheme,    \* its ActivationScheme, None when the validity start was not read
          flagged,   \* the card returns the PIN changed flag
          card,      \* counters, verified and changed flags, its side of the channel
          channel,   \* the SmTransport the caller works through, or NoChannel
          op,        \* the function running, or Idle
          calls,     \* operations started
          hist       \* what the operations did

vars == <<family, scheme, flagged, card, channel, op, calls, hist>>

-----------------------------------------------------------------------------
(* Values *)

Pins == {"Pin1", "Pin2"}
Credentials == Pins \cup {"Puk"}

\* PinStatus
Remaining(n) == [is |-> "Remaining", tries |-> n]
Verified == [is |-> "Verified", tries |-> 0]
Locked == [is |-> "Locked", tries |-> 0]
NoInfo == [is |-> "NoInfo", tries |-> 0]
PinStatus == {Remaining(n) : n \in 0..Limit} \cup {Verified, Locked, NoInfo}

\* ManageOutcome and VerifyOutcome
Ok == [is |-> "Ok", tries |-> 0]
Wrong(n) == [is |-> "Wrong", tries |-> n]
Blocked == [is |-> "Locked", tries |-> 0]
Other == [is |-> "Other", tries |-> 0]

NoChannel == [by |-> "none", record |-> NoInfo, unspent |-> FALSE, ssc |-> 0]
Idle == [at |-> "idle", call |-> "none", slot |-> "none", right |-> FALSE, todo |-> {},
         record |-> NoInfo]
NoSsc == -1

\* PinRetryRisk::spends_a_last_try and is_above_floor
spends_a_last_try(n) == 0 < n /\ n < Floor
is_above_floor(n) == Floor <= n /\ n <= Limit

\* check_last_tries: no command that may spend one of the last two tries
check_last_tries(status) ==
  CASE status.is = "Remaining" -> ~spends_a_last_try(status.tries)
    [] status.is \in {"Verified", "Locked"} -> TRUE
    [] OTHER -> FALSE

\* check_retry_floor: the PINs' floor, and the PUK's own last-tries rule
check_retry_floor(c, status) ==
  IF c \in Pins
  THEN \/ status.is = "Verified"
       \/ status.is = "Remaining" /\ is_above_floor(status.tries)
  ELSE status.is # "Verified" /\ check_last_tries(status)

\* lowered_counter: the channel's record after the card answered a presentation
lowered_counter(record, answer) ==
  IF answer.is = "Ok" \/ record.is \in {"Locked", "NoInfo"} THEN record
  ELSE CASE answer.is = "Locked" -> Locked
         [] answer.is = "Other" -> NoInfo
         [] OTHER -> IF record.is = "Remaining" /\ record.tries < answer.tries THEN record
                     ELSE IF answer.tries = 0 THEN Locked ELSE Remaining(answer.tries)

-----------------------------------------------------------------------------
(* The card *)

\* A credential presented and compared: the counter and the verified flag
Presented(c, right) ==
  IF card.tries[c] = 0 THEN card
  ELSE IF right
       THEN [card EXCEPT !.tries[c] = Limit, !.verified = @ \cup {c}]
       ELSE [card EXCEPT !.tries[c] = @ - 1, !.verified = @ \ {c}]

\* The status word of that presentation
Answer(c, right) ==
  IF card.tries[c] = 0 THEN Blocked
  ELSE IF right THEN Ok ELSE Wrong(card.tries[c] - 1)

\* A PIN set to a new value: its counter full, not verified, its flag changed
WithNewPin(k, slot) ==
  [k EXCEPT !.tries[slot] = Limit, !.verified = @ \ {slot}, !.changed = @ \cup {slot}]

\* The answers to the counter-safe status probe of c.  Over secure messaging
\* the organizational card does not answer it with a counter.
Probed(c) ==
  IF channel.by # "none" /\ family = "Organizational" THEN {NoInfo}
  ELSE IF c \in card.verified THEN {Verified}
  ELSE IF card.tries[c] = 0 THEN {Locked, Remaining(0)}
  ELSE {Remaining(card.tries[c])}

\* puk_status: the probe, and on the citizen card the PIN container when the
\* probe carries no counter; the container may not carry one either
puk_status ==
  IF family = "Citizen" THEN (Probed("Puk") \ {Verified}) \cup {NoInfo} ELSE Probed("Puk")

\* pin_awaits_activation, from the change record the card gives for the PIN
pin_awaits_activation(slot, status) ==
  IF flagged THEN slot \notin card.changed
  ELSE scheme = "ActivationCodeIsPuk" /\ (status = Locked \/ status = Remaining(0))

-----------------------------------------------------------------------------
(* Exchanges.  On a channel each command and each answer is protected under  *)
(* the next send sequence counter of its side.                               *)

\* SmTransport::wrap: the counter a command goes out under
wrap(ssc) == ssc + 1

\* SmTransport::unwrap: the counter the answer is authenticated under
unwrap(ssc) == ssc + 1

OnChannel == channel.by # "none"

\* The card takes a protected command only under its own next counter
InStep == OnChannel => card.ssc # NoSsc /\ wrap(channel.ssc) = card.ssc + 1

\* The counters after a whole exchange on the channel ch
HostDone(ch) == IF OnChannel THEN [ch EXCEPT !.ssc = unwrap(wrap(@))] ELSE ch
HostSent == IF OnChannel THEN [channel EXCEPT !.ssc = wrap(@)] ELSE channel
CardDone(k) == IF OnChannel THEN [k EXCEPT !.ssc = @ + 2] ELSE k

\* The function returns the transport's error to the caller
Failed(h) == op' = Idle /\ hist' = h

\* The exchange presents the channel's own credential once more
PresentsAgain == op.call = "channel" /\ op.at \in {"verify_puk", "change"}

\* One exchange whose command leaves the card as k.  The function goes on as
\* o, its channel record as ch; or the command or the answer is lost; or the
\* channel is out of step, the card answers unprotected and ends its side.
Exchange(k, o, ch, h) ==
  /\ UNCHANGED <<family, scheme, flagged, calls>>
  /\ \/ /\ InStep
        /\ card' = CardDone(k) /\ channel' = HostDone(ch) /\ op' = o /\ hist' = h
     \/ /\ card' = card /\ channel' = HostSent /\ Failed(hist)
     \/ /\ InStep
        /\ card' = CardDone(k) /\ channel' = HostSent
        /\ Failed([hist EXCEPT !.lost = @ \/ PresentsAgain])
     \/ /\ ~InStep
        /\ card' = [card EXCEPT !.ssc = NoSsc] /\ channel' = HostSent /\ Failed(hist)

\* The same, the function returning after it
Last(k, ch, h) == Exchange(k, Idle, ch, h)

Call(call, at, slot, right) ==
  [Idle EXCEPT !.call = call, !.at = at, !.slot = slot, !.right = right]

Start(o, ch) ==
  /\ op = Idle /\ calls < MaxCalls
  /\ op' = o /\ calls' = calls + 1 /\ channel' = ch
  /\ UNCHANGED <<family, scheme, flagged, card, hist>>

\* The floor the caller holds before it presents a PIN
CallerServed(slot) == \E status \in Probed(slot) : check_retry_floor(slot, status)

-----------------------------------------------------------------------------
(* VERIFY and CHANGE REFERENCE DATA *)

verify(slot, right) == CallerServed(slot) /\ Start(Call("verify", "verify", slot, right), channel)

verify_digits ==
  /\ op.at = "verify"
  /\ Last(Presented(op.slot, op.right), channel, hist)

change_pin(slot, right) == CallerServed(slot) /\ Start(Call("change", "change", slot, right), channel)

\* activate_card after the PIN in hand: on to PIN 2, or the report
AfterPin ==
  IF op.todo = {} THEN Idle
  ELSE [op EXCEPT !.slot = "Pin2", !.todo = {},
                  !.at = IF scheme = "PresetActivationPin" THEN "change" ELSE "puk_status"]

\* The PIN in hand was set
Set(k, ch) == Exchange(k, AfterPin, ch, hist)

\* change, also as change_pin1_after_pin1_pace and activate_card send it: a
\* refused activation PIN ends the activation
change ==
  /\ op.at = "change"
  /\ LET answer == Answer(op.slot, op.right)
         k == IF answer = Ok THEN WithNewPin(card, op.slot) ELSE Presented(op.slot, op.right)
         ch == IF op.call # "channel" THEN channel
               ELSE [channel EXCEPT !.record = lowered_counter(@, answer)]
     IN  IF answer = Ok THEN Set(k, ch) ELSE Last(k, ch, hist)

-----------------------------------------------------------------------------
(* Unblocking with the PUK *)

unblock_pin(slot, right) == Start(Call("unblock", "puk_status", slot, right), channel)

\* Mutant: the PUK's counter is not read.
unblock_Unread ==
  /\ op.at = "puk_status"
  /\ Exchange(card, [op EXCEPT !.at = IF family = "Citizen" THEN "reset_with_puk"
                                      ELSE "verify_puk"], channel, hist)

\* unblock: the PUK's counter is read and its floor applied
unblock ==
  /\ op.at = "puk_status"
  /\ \E status \in puk_status :
       IF check_retry_floor("Puk", status)
       THEN Exchange(card, [op EXCEPT !.at = IF family = "Citizen" THEN "reset_with_puk"
                                             ELSE "verify_puk"], channel, hist)
       ELSE Last(card, channel, hist)

\* The citizen card's one RESET RETRY COUNTER with the PUK and the new PIN
reset_with_puk ==
  /\ op.at = "reset_with_puk"
  /\ LET answer == Answer("Puk", op.right)
         k == [Presented("Puk", op.right) EXCEPT !.verified = @ \ {"Puk"}]
     IN  IF answer = Ok THEN Set(WithNewPin(k, op.slot), channel)
         ELSE Last(k, channel, hist)

\* verify_puk: the organizational card's first unblock command; on a PUK channel
\* the record is lowered by the answer
verify_puk ==
  /\ op.at = "verify_puk"
  /\ LET answer == Answer("Puk", op.right)
         k == Presented("Puk", op.right)
         ch == IF op.call # "channel" THEN channel
               ELSE [channel EXCEPT !.record = lowered_counter(@, answer)]
     IN  IF answer = Ok THEN Exchange(k, [op EXCEPT !.at = "reset_new_only"], ch, hist)
         ELSE Last(k, ch, hist)

\* reset_new_only: the card sets the PIN when its security state authorises it,
\* and may drop the PUK's verification with that
reset_new_only ==
  /\ op.at = "reset_new_only"
  /\ IF "Puk" \in card.verified
     THEN \E dropped \in {{}, {"Puk"}} :
            Set([WithNewPin(card, op.slot) EXCEPT !.verified = @ \ dropped], channel)
     ELSE Last(card, channel, hist)

-----------------------------------------------------------------------------
(* Activation *)

\* activate_card with the new PINs the caller supplies
activate_card(news, right) ==
  /\ scheme # "None"
  /\ Start([Call("activate", "read", "none", right) EXCEPT !.todo = news], channel)

\* The readings under which a PIN about to be changed is refused
Refused(needs, status) ==
  /\ scheme = "PresetActivationPin"
  /\ \E slot \in needs : ~check_last_tries(status[slot])

\* read_activation, and the floor of every PIN about to be changed
read_activation ==
  /\ op.at = "read"
  /\ \E s1 \in Probed("Pin1"), s2 \in Probed("Pin2") :
       LET status == [slot \in Pins |-> IF slot = "Pin1" THEN s1 ELSE s2]
           needs == {slot \in op.todo : pin_awaits_activation(slot, status[slot])}
           first == IF "Pin1" \in needs THEN "Pin1" ELSE "Pin2"
           at == IF scheme = "PresetActivationPin" THEN "change" ELSE "puk_status"
       IN  IF Refused(needs, status) THEN Last(card, channel, hist)
           ELSE IF needs = {} THEN Last(card, channel, hist)
           ELSE Exchange(card, [op EXCEPT !.slot = first, !.todo = needs \ {first}, !.at = at],
                         channel, hist)

-----------------------------------------------------------------------------
(* PACE, and the operations on the channel it opens *)

\* run_pace on the raw transport: the Card Access Number of a citizen card, or
\* a PIN or the PUK of an organizational one
run_pace(by, right) ==
  /\ ~OnChannel
  /\ by \in IF family = "Citizen" THEN {"Can"} ELSE Credentials
  /\ Start(Call("pace", "set_at", by, right), channel)

\* What MSE:Set AT answers for a counted password
SetAt(by) == IF card.tries[by] = 0 THEN Locked ELSE Remaining(card.tries[by])

\* set_authentication_template: the counter read, the floor applied
set_authentication_template ==
  /\ op.at = "set_at"
  /\ IF op.slot = "Can" THEN Exchange(card, [op EXCEPT !.at = "nonce"], channel, hist)
     ELSE IF check_retry_floor(op.slot, SetAt(op.slot))
          THEN Exchange(card, [op EXCEPT !.at = "nonce", !.record = SetAt(op.slot)],
                        channel, hist)
          ELSE Last(card, channel, hist)

\* get_encrypted_nonce: the card takes the try at the first GENERAL AUTHENTICATE
get_encrypted_nonce ==
  /\ op.at = "nonce"
  /\ IF op.slot = "Can" THEN Exchange(card, [op EXCEPT !.at = "agree"], channel, hist)
     ELSE IF card.tries[op.slot] = 0 THEN Last(card, channel, hist)
     ELSE LET k == [card EXCEPT !.tries[op.slot] = @ - 1, !.verified = @ \ {op.slot}]
          IN  Exchange(k, [op EXCEPT !.at = "agree"], channel, hist)

\* map_nonce_and_key_agreement: two rounds, or an answer that is refused here
map_nonce_and_key_agreement ==
  /\ op.at = "agree"
  /\ \/ Exchange(card, [op EXCEPT !.at = "mutual"], channel, hist)
     \/ Last(card, channel, hist)

\* The channel a handshake with by opens, the record as the floor served it
Opened(by) == [by |-> by, record |-> op.record, unspent |-> by = "Pin2", ssc |-> 0]

\* run_mutual_authentication: a completed handshake gives the try back, its
\* counter full, and counts the credential verified on the channel
run_mutual_authentication ==
  /\ op.at = "mutual"
  /\ IF op.right
     THEN LET k == [card EXCEPT !.ssc = 0,
                      !.verified = @ \cup ({op.slot} \cap Credentials),
                      !.tries = [c \in Credentials |-> IF c = op.slot THEN Limit ELSE @[c]]]
          IN  Last(k, Opened(op.slot),
                   [hist EXCEPT !.lost = FALSE,
                                !.presented = IF op.slot = "Pin2" THEN @ + 1 ELSE @])
     ELSE Last(card, channel, hist)

\* The channel dropped for the raw transport (into_inner)
into_inner ==
  /\ op = Idle /\ OnChannel
  /\ channel' = NoChannel /\ card' = [card EXCEPT !.ssc = NoSsc]
  /\ hist' = [hist EXCEPT !.lost = FALSE]
  /\ UNCHANGED <<family, scheme, flagged, op, calls>>

\* reset_after_puk_pace: on the handshake's proof, or presenting the PUK again
\* under the floor of the channel's record
reset_after_puk_pace(slot, right, again) ==
  /\ channel.by = "Puk"
  /\ again => check_retry_floor("Puk", channel.record)
  /\ Start(Call("channel", IF again THEN "verify_puk" ELSE "reset_new_only", slot, right),
           channel)

change_pin1_after_pin1_pace(right, again) ==
  /\ channel.by = "Pin1"
  /\ again => check_retry_floor("Pin1", channel.record)
  /\ Start(Call("channel", IF again THEN "change" ELSE "reset_new_only", "Pin1", right),
           channel)

-----------------------------------------------------------------------------
(* Signatures *)

authentication_key == Start(Call("sign", "mse", "Pin1", TRUE), channel)

\* unlock_qualified_key: DF.ESIGN first on the organizational card, then PIN 2
unlock_qualified_key(right) ==
  /\ CallerServed("Pin2")
  /\ Start(Call("sign", IF family = "Citizen" THEN "verify2" ELSE "select", "Pin2", right),
           channel)

\* Mutant: the channel's presentation is not spent.
qualified_key_after_pin2_pace_Unspent ==
  /\ channel.by = "Pin2"
  /\ Start(Call("sign_channel", "select", "Pin2", TRUE), channel)

\* qualified_key_after_pin2_pace: the channel's one presentation is spent first
qualified_key_after_pin2_pace ==
  /\ channel.by = "Pin2" /\ channel.unspent
  /\ Start(Call("sign_channel", "select", "Pin2", TRUE), [channel EXCEPT !.unspent = FALSE])

select_esign_directory ==
  /\ op.at = "select"
  /\ \/ Exchange(card, [op EXCEPT !.at = IF op.call = "sign" THEN "verify2" ELSE "mse"],
                 channel, hist)
     \/ Last(card, channel, hist)

verify_pin2 ==
  /\ op.at = "verify2"
  /\ LET answer == Answer("Pin2", op.right)
         k == Presented("Pin2", op.right)
     IN  IF answer = Ok
         THEN Exchange(k, [op EXCEPT !.at = "mse"], channel,
                       [hist EXCEPT !.presented = @ + 1])
         ELSE Last(k, channel, hist)

\* drive_chain: MSE:Set, PSO:HASH on the citizen card, PSO:CDS; any of them may
\* be refused
drive_chain ==
  /\ op.at \in {"mse", "hash", "cds"}
  /\ \/ Last(card, channel, hist)
     \/ /\ op.at = "mse"
        /\ Exchange(card, [op EXCEPT !.at = IF family = "Citizen" THEN "hash" ELSE "cds"],
                    channel, hist)
     \/ op.at = "hash" /\ Exchange(card, [op EXCEPT !.at = "cds"], channel, hist)
     \/ /\ op.at = "cds" /\ op.slot \in card.verified
        /\ Last(card, channel,
                [hist EXCEPT !.signed = IF op.slot = "Pin2" THEN @ + 1 ELSE @])

-----------------------------------------------------------------------------
\* The card is reset or taken out and put back
CardReset ==
  /\ card' = [card EXCEPT !.verified = {}, !.ssc = NoSsc]
  /\ UNCHANGED <<family, scheme, flagged, channel, op, calls, hist>>

Init ==
  /\ family \in Families
  /\ scheme \in IF family = "Organizational" THEN {"ActivationCodeIsPuk"}
                ELSE {"ActivationCodeIsPuk", "PresetActivationPin", "None"}
  /\ flagged \in IF family = "Organizational" THEN {FALSE} ELSE BOOLEAN
  /\ \E tries \in [Credentials -> FirstTries], changed \in SUBSET Pins :
       /\ scheme = "ActivationCodeIsPuk" => \A slot \in Pins \ changed : tries[slot] = 0
       /\ card = [tries |-> tries, verified |-> {}, changed |-> changed, ssc |-> NoSsc]
  /\ channel = NoChannel /\ op = Idle /\ calls = 0
  /\ hist = [presented |-> 0, signed |-> 0, lost |-> FALSE]

Operation ==
  \/ \E slot \in Pins, right \in BOOLEAN :
       verify(slot, right) \/ change_pin(slot, right) \/ unblock_pin(slot, right)
  \/ \E news \in SUBSET Pins, right \in BOOLEAN : activate_card(news, right)
  \/ \E by \in Credentials \cup {"Can"}, right \in BOOLEAN : run_pace(by, right)
  \/ \E slot \in Pins, right, again \in BOOLEAN : reset_after_puk_pace(slot, right, again)
  \/ \E right, again \in BOOLEAN : change_pin1_after_pin1_pace(right, again)
  \/ authentication_key
  \/ \E right \in BOOLEAN : unlock_qualified_key(right)
  \/ qualified_key_after_pin2_pace
  \/ into_inner

Step ==
  \/ verify_digits \/ change \/ unblock \/ reset_with_puk \/ verify_puk \/ reset_new_only
  \/ read_activation \/ set_authentication_template \/ get_encrypted_nonce
  \/ map_nonce_and_key_agreement \/ run_mutual_authentication
  \/ select_esign_directory \/ verify_pin2 \/ drive_chain

Next == Operation \/ Step \/ CardReset

Spec == Init /\ [][Next]_vars

-----------------------------------------------------------------------------
(* Properties *)

Cards == [tries : [Credentials -> 0..Limit], verified : SUBSET Credentials,
          changed : SUBSET Pins, ssc : Nat \cup {NoSsc}]
Channels == [by : Credentials \cup {"Can", "none"}, record : PinStatus, unspent : BOOLEAN,
             ssc : Nat]
Steps == {"idle", "verify", "change", "puk_status", "reset_with_puk", "verify_puk",
          "reset_new_only", "read", "set_at", "nonce", "agree", "mutual", "select", "verify2",
          "mse", "hash", "cds"}
CallNames == {"none", "verify", "change", "unblock", "activate", "pace", "channel", "sign",
              "sign_channel"}
Operations == [at : Steps, call : CallNames, slot : Credentials \cup {"Can", "none"},
               right : BOOLEAN, todo : SUBSET Pins, record : PinStatus]
Histories == [presented : Nat, signed : Nat, lost : BOOLEAN]

TypeOK ==
  /\ family \in Families /\ flagged \in BOOLEAN
  /\ scheme \in {"ActivationCodeIsPuk", "PresetActivationPin", "None"}
  /\ card \in Cards /\ channel \in Channels /\ op \in Operations /\ hist \in Histories
  /\ calls \in 0..MaxCalls

\* No operation takes a counter below the floor: a try is spent only from a count
\* the floor serves, through every unblock, activation, PACE handshake and further
\* presentation on a channel, unless the answer to a presentation on that channel
\* was lost.
LastTriesNotSpent ==
  [][\A c \in Credentials :
       card'.tries[c] < card.tries[c] => hist.lost \/ Floor <= card.tries[c]]_vars

\* Every qualified signature has a PIN 2 presentation of its own, made by VERIFY
\* or by the handshake that opened the channel.
OnePin2PerSignature == hist.signed <= hist.presented

=============================================================================
