--------------------------- MODULE SessionLedger ---------------------------
(***************************************************************************)
(* What refresh sessions promise, whatever runs at the same time: a        *)
(* session has one current token; a call is granted a refresh only for the *)
(* current token of a session that is not revoked; a granted call gives    *)
(* the session a token never used before, perhaps after another one did;   *)
(* and revocation is final.                                                *)
(***************************************************************************)
CONSTANTS Calls, Sessions, Tokens, None

VARIABLES
    current,    \* the current token of each session
    revoked,    \* the sessions that were logged out
    grants,     \* the session and the token each call was granted, or None
    exchanged,  \* the pairs of a token and the one it was exchanged for
    used        \* every token that was ever current

ledger == <<current, revoked, grants, exchanged, used>>

Open(s, t) ==
    /\ current[s] = None /\ t \notin used
    /\ current' = [current EXCEPT ![s] = t]
    /\ used' = used \cup {t}
    /\ UNCHANGED <<revoked, grants, exchanged>>

Grant(c, s) ==
    /\ grants[c] = None
    /\ current[s] # None /\ s \notin revoked
    /\ grants' = [grants EXCEPT ![c] = <<s, current[s]>>]
    /\ UNCHANGED <<current, revoked, exchanged, used>>

Exchange(c, t) ==
    /\ grants[c] # None /\ t \notin used
    /\ exchanged' = exchanged \cup {<<grants[c][2], t>>}
    /\ current' = [current EXCEPT ![grants[c][1]] = t]
    /\ grants' = [grants EXCEPT ![c] = None]
    /\ used' = used \cup {t}
    /\ UNCHANGED revoked

GiveUp(c) ==
    /\ grants' = [grants EXCEPT ![c] = None]
    /\ UNCHANGED <<current, revoked, exchanged, used>>

Revoke(s) ==
    /\ current[s] # None
    /\ revoked' = revoked \cup {s}
    /\ UNCHANGED <<current, grants, exchanged, used>>

Init ==
    /\ current = [s \in Sessions |-> None]
    /\ grants = [c \in Calls |-> None]
    /\ revoked = {} /\ exchanged = {} /\ used = {}

Next ==
    \/ \E s \in Sessions, t \in Tokens : Open(s, t)
    \/ \E c \in Calls, s \in Sessions : Grant(c, s)
    \/ \E c \in Calls, t \in Tokens : Exchange(c, t)
    \/ \E c \in Calls : GiveUp(c)
    \/ \E s \in Sessions : Revoke(s)

Spec == Init /\ [][Next]_ledger
=============================================================================
