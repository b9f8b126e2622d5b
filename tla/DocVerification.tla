--------------------------- MODULE DocVerification ---------------------------
(***************************************************************************)
(* What verification.rs decides about a signed document: from its bytes,   *)
(* what each signature covers (SignedDocument), and from its certificates, *)
(* timestamps and evidence, whether the signature is valid (LongTerm).     *)
(* The two meet only in the facts Context::report is handed, which         *)
(* LongTerm takes as intact or not, so a behaviour is that of one of them: *)
(* format says which bytes it is about, or Life.                           *)
(***************************************************************************)
EXTENDS SignedDocument

CONSTANTS
    DIRECTIVE_REGIME_END, MAX_POINTERS, MAX_SERVICES, MAX_HISTORY, MAX_PATH_DEPTH,
    MAX_ANCHORED_PATHS, MAX_PATH_SEARCH_VERIFICATIONS, MAX_CLOCK_SKEW, MAX_DEPTH,
    MAX_OCSP_AGE_WITHOUT_NEXT_UPDATE, Worlds, MaxTime      \* of LongTerm

VARIABLES world, now, register, services, cached, document, proven, report

L == INSTANCE LongTerm

life == <<world, now, register, services, cached, document, proven, report>>

Life == "life"
Off == "off"
LifeOff ==
    /\ world = Off /\ now = Off /\ register = Off /\ services = Off
    /\ cached = Off /\ document = Off /\ proven = Off /\ report = Off
BytesOff ==
    /\ file = Off /\ placed = Off /\ chosen = Off
    /\ archive = Off /\ signed = Off /\ edits = Off

VerificationInit ==
    \/ Init /\ LifeOff
    \/ format = Life /\ BytesOff /\ L!Init

BytesNext == format # Life /\ Next /\ UNCHANGED life
LifeNext == format = Life /\ L!Next /\ UNCHANGED vars

VerificationNext == BytesNext \/ LifeNext

VerificationSpec == VerificationInit /\ [][VerificationNext]_<<vars, life>>

-----------------------------------------------------------------------------
\* A signature reported valid stands on certificates that were in force: none of its path was revoked by the time it is
\* judged at, except inside the window of an answer given before the revocation (verification.rs Context::report).
ValidIsJustified == format = Life => L!ValidIsJustified

\* What was proven stays proven: once a document with a timestamp verifies from its own material, time, expiry,
\* revocations and more evidence do not take it back, unless the document is changed, the added evidence names a
\* compromise or an earlier revocation, or the search gives up (trust.rs judge, verification.rs report).
ProvenStaysValid == format = Life => L!ProvenStaysValid

\* The writer's material is enough for the verifier: a document whose LT collection succeeded, with answers that speak
\* for the stamped time, verifies offline as long as its timestamp is proven (material.rs walk against trust.rs judge).
CollectedSuffices == format = Life => L!CollectedSuffices


\* The periods an anchor is granted for are those its status history gives, in whatever order it is listed: an instant
\* is inside one exactly when the entry in force then, or just before it, grants the service (trusted_list.rs
\* granted_periods).
GrantedAsListed == format = Life => L!GrantedAsListed
==============================================================================
