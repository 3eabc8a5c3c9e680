----------------------------- MODULE ConfirmGate -----------------------------
(***************************************************************************)
(* What the confirmation of destructive commands promises: each sender has *)
(* one slot.  Arming puts a command into it, over whatever was there; a    *)
(* command is let through only out of the slot, which is empty afterwards. *)
(***************************************************************************)
EXTENDS Integers

CONSTANTS Senders, Commands, NoCommand

VARIABLES slot,       \* the command each sender has to confirm
          armed,      \* how often each sender armed each command
          released    \* how often each command was let through

gateVars == <<slot, armed, released>>

Init ==
  /\ slot = [s \in Senders |-> NoCommand]
  /\ armed = [s \in Senders |-> [c \in Commands |-> 0]]
  /\ released = [s \in Senders |-> [c \in Commands |-> 0]]

Arm(s, c) ==
  /\ slot' = [slot EXCEPT ![s] = c]
  /\ armed' = [armed EXCEPT ![s][c] = @ + 1]
  /\ UNCHANGED released

Release(s, c) ==
  /\ slot[s] = c
  /\ slot' = [slot EXCEPT ![s] = NoCommand]
  /\ released' = [released EXCEPT ![s][c] = @ + 1]
  /\ UNCHANGED armed

Next == \E s \in Senders, c \in Commands : Arm(s, c) \/ Release(s, c)

Spec == Init /\ [][Next]_gateVars
=============================================================================
