---------------------------- MODULE SerialObject ----------------------------
(***************************************************************************)
(* What one object of the shard promises (spec 3 and 4.1), with no read   *)
(* timestamps, waits or ranges: transactions state the value they intend  *)
(* the object to take, may withdraw it, and the object installs intents  *)
(* one at a time, oldest first, each only if it passes the consistency    *)
(* check, so that the committed timestamp only advances.                   *)
(***************************************************************************)
EXTENDS Integers, TLC

CONSTANTS TxIds, Values

VARIABLES
    ts,       \* writer of the installed value; 0 when none was installed
    value,    \* the installed value
    intents   \* intents[t]: the value t last intended

vars == <<ts, value, intents>>

Init ==
    /\ ts = 0
    /\ value = 0
    /\ intents = [t \in {} |-> 0]

\* A transaction newer than the installed version states its value.
Intend(t, v) ==
    /\ t > ts
    /\ intents' = (t :> v) @@ intents
    /\ UNCHANGED <<ts, value>>

Withdraw(t) ==
    /\ intents' = [u \in DOMAIN intents \ {t} |-> intents[u]]
    /\ UNCHANGED <<ts, value>>

\* The oldest intent is installed when its value passes the check.
Install(t) ==
    /\ t \in DOMAIN intents
    /\ \A u \in DOMAIN intents : t <= u
    /\ intents[t] >= 0
    /\ ts' = t
    /\ value' = intents[t]
    /\ intents' = [u \in DOMAIN intents \ {t} |-> intents[u]]

Next ==
    \E t \in TxIds : \/ \E v \in Values : Intend(t, v)
                     \/ Withdraw(t)
                     \/ Install(t)

Spec == Init /\ [][Next]_vars
=============================================================================
