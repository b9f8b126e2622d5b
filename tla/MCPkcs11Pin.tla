---------------------------- MODULE MCPkcs11Pin ----------------------------
EXTENDS Pkcs11Pin, TLC

CONSTANTS t1, t2, c1, c2, p1, p2

MCThreads == {t1, t2}
MCCards == {c1, c2}
MCPins == {p1, p2}

\* Two callers and a card that leaves; two callers and another application; one
\* caller and two cards; one caller that also changes the PIN.
MCInstances ==
    {[callers |-> MCThreads, cards |-> {c1}, pin_change |-> FALSE,
      events |-> 2, generations |-> 3, others |-> 0],
     [callers |-> MCThreads, cards |-> {c1}, pin_change |-> FALSE,
      events |-> 1, generations |-> 2, others |-> 1],
     [callers |-> {t1}, cards |-> MCCards, pin_change |-> FALSE,
      events |-> 3, generations |-> 2, others |-> 0],
     [callers |-> {t1}, cards |-> {c1}, pin_change |-> TRUE,
      events |-> 1, generations |-> 2, others |-> 1]}

\* Cards and PINs are interchangeable, so one of them comes first: what
\* symmetry would do, for a run that checks liveness.
FirstCardInit == Init /\ reader.card = c1 /\ card[c1].pin = p1 /\ card[c2].pin = p2
FirstCard == FirstCardInit /\ [][Next]_vars /\ \A t \in Threads : WF_vars(CardStep(t))
=============================================================================
