--------------------------- MODULE SigningService ---------------------------
(***************************************************************************)
(* What a caller of the JavaScript client is promised, with no device, no  *)
(* chunks and no transport: a call gives out all the signatures it was     *)
(* asked for, at once, and only after the user has consented to every      *)
(* transaction among them; or it fails and gives out none.                 *)
(***************************************************************************)
CONSTANTS
    Calls,   \* the calls an application makes
    Owed     \* Owed[c]: the signatures call c asks for

VARIABLES
    outcome,    \* "idle", "open", "signed" or "failed"
    consented,  \* the calls to all of which the user has consented
    given       \* given[c]: the signatures call c has given out

svars == <<outcome, consented, given>>

Init ==
    /\ outcome = [c \in Calls |-> "idle"]
    /\ consented = {}
    /\ given = [c \in Calls |-> {}]

Open(c) ==
    /\ outcome[c] = "idle"
    /\ outcome' = [outcome EXCEPT ![c] = "open"]
    /\ UNCHANGED <<consented, given>>

\* An approval can be the consent to several calls that ask for the same, and the
\* device may still show what a failed call left behind.
Consent(cs) ==
    /\ \A c \in cs : outcome[c] # "idle"
    /\ consented' = consented \union cs
    /\ UNCHANGED <<outcome, given>>

Release(c) ==
    /\ outcome[c] = "open"
    /\ c \in consented
    /\ outcome' = [outcome EXCEPT ![c] = "signed"]
    /\ given' = [given EXCEPT ![c] = Owed[c]]
    /\ UNCHANGED consented

Fail(c) ==
    /\ outcome[c] = "open"
    /\ outcome' = [outcome EXCEPT ![c] = "failed"]
    /\ UNCHANGED <<consented, given>>

Next ==
    \/ \E c \in Calls : Open(c) \/ Release(c) \/ Fail(c)
    \/ \E cs \in SUBSET Calls : Consent(cs)

Spec == Init /\ [][Next]_svars

=============================================================================
