--------------------------- MODULE DurableRegister ---------------------------
(***************************************************************************)
(* What an account store promises its callers: a register that takes the   *)
(* saves one by one in the order they were asked for.  A save is named by  *)
(* its number.  A crash of the process loses the saves not yet taken and   *)
(* nothing else; a power failure may also lose what was taken since the    *)
(* operating system last wrote the register back.                          *)
(***************************************************************************)
EXTENDS Naturals, Sequences

VARIABLES
    asked,     \* number of saves asked for
    pending,   \* saves not yet answered, in order
    taken,     \* the first of them is in the register already
    value,     \* the save that load() finds, 0 when there is none
    settled    \* the one it finds after a power failure at worst

vars == <<asked, pending, taken, value, settled>>

Init ==
    /\ asked = 0
    /\ pending = <<>>
    /\ taken = FALSE
    /\ value = 0
    /\ settled = 0

Ask ==
    /\ asked' = asked + 1
    /\ pending' = Append(pending, asked + 1)
    /\ UNCHANGED <<taken, value, settled>>

Take ==
    /\ pending # <<>>
    /\ ~taken
    /\ taken' = TRUE
    /\ value' = Head(pending)
    /\ UNCHANGED <<asked, pending, settled>>

\* the caller learns that its save succeeded
Acknowledge ==
    /\ taken
    /\ taken' = FALSE
    /\ pending' = Tail(pending)
    /\ UNCHANGED <<asked, value, settled>>

\* the caller learns that its save failed; it has changed nothing
Refuse ==
    /\ pending # <<>>
    /\ ~taken
    /\ pending' = Tail(pending)
    /\ UNCHANGED <<asked, taken, value, settled>>

Settle ==
    /\ settled' = value
    /\ UNCHANGED <<asked, pending, taken, value>>

Crash ==
    /\ pending' = <<>>
    /\ taken' = FALSE
    /\ UNCHANGED <<asked, value, settled>>

PowerFailure ==
    /\ pending' = <<>>
    /\ taken' = FALSE
    /\ value' \in {value, settled}
    /\ settled' = value'
    /\ UNCHANGED asked

Next == Ask \/ Take \/ Acknowledge \/ Refuse \/ Settle \/ Crash \/ PowerFailure

Spec == Init /\ [][Next]_vars

=============================================================================
