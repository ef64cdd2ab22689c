--------------------------- MODULE StateRegister ---------------------------
(***************************************************************************)
(* What the order-management state store promises its only client: one     *)
(* durable register.  A save takes effect as a whole or not at all, is     *)
(* acknowledged only after it took effect, and nothing else changes what   *)
(* the next load finds while the process runs: neither a load, nor a       *)
(* failed save, nor a quarantine.  One case is excepted: a load may leave  *)
(* damage behind, and until something is restored or saved after it, a     *)
(* save under way may lose the value before it takes effect.               *)
(***************************************************************************)

CONSTANTS
    Values,     \* what a load may find
    Nothing     \* no usable file; no save under way

VARIABLES
    value,      \* what a load would find now
    pending,    \* the document being saved, or Nothing
    acked,      \* the last document reported as saved
    up,         \* the process runs
    exposed     \* a load left damage behind

vars == <<value, pending, acked, up, exposed>>

Init ==
    /\ value = Nothing /\ pending = Nothing /\ acked = Nothing
    /\ up = FALSE /\ exposed = FALSE

Submit ==
    /\ up /\ pending = Nothing
    /\ pending' \in Values \ {Nothing}
    /\ UNCHANGED <<value, acked, up, exposed>>

TakeEffect ==
    /\ up /\ pending # Nothing
    /\ value' = pending
    /\ UNCHANGED <<pending, acked, up, exposed>>

\* What a save under way may leave behind before it is acknowledged.
Lost == IF exposed /\ pending # Nothing THEN {Nothing} ELSE {}

LoseValue ==
    /\ up
    /\ value' \in Lost
    /\ UNCHANGED <<pending, acked, up, exposed>>

Acknowledge ==
    /\ up /\ pending # Nothing
    /\ value' = pending /\ acked' = pending /\ pending' = Nothing
    /\ exposed' = FALSE
    /\ UNCHANGED up

(* An error is reported: the save may have taken effect or not. *)
Fail ==
    /\ up /\ pending # Nothing
    /\ value' \in {value, pending} \cup Lost /\ pending' = Nothing
    /\ UNCHANGED <<acked, up, exposed>>

(* A load changes nothing but the knowledge of what it found. *)
Load ==
    /\ up /\ pending = Nothing
    /\ exposed' \in BOOLEAN
    /\ UNCHANGED <<value, pending, acked, up>>

(* The process dies, in the middle of a save or not. *)
Crash ==
    /\ up /\ up' = FALSE
    /\ value' \in {value} \cup ({pending} \ {Nothing}) \cup Lost
    /\ pending' = Nothing
    /\ UNCHANGED <<acked, exposed>>

Start == ~up /\ up' = TRUE /\ UNCHANGED <<value, pending, acked, exposed>>

(* Files are damaged, deleted or replaced only while nobody runs. *)
Damage == ~up /\ value' \in Values /\ UNCHANGED <<pending, acked, up, exposed>>

Next ==
    \/ Submit \/ TakeEffect \/ LoseValue \/ Acknowledge \/ Fail \/ Load
    \/ Crash \/ Start \/ Damage

Spec == Init /\ [][Next]_vars

=============================================================================
