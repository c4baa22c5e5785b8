---- MODULE FailBack ----
(***************************************************************************)
(* What the active-address store of serv_addr.c promises, without its      *)
(* flash layout, its erase-then-write save or its call structure.          *)
(*                                                                         *)
(*   running   the address the firmware runs with, None when it has none   *)
(*   stored    the address a restart would find, None when there is none   *)
(*   answered  the addresses that have answered a TCP probe                *)
(*                                                                         *)
(* The promise: the running address is only ever set to what is stored at  *)
(* that moment, so RAM never runs ahead of flash; a stored address is      *)
(* never overwritten by another in one step; and while an address is       *)
(* running only one that answered a probe can be stored.                   *)
(***************************************************************************)
CONSTANTS Text, None

VARIABLES running, stored, answered

fbVars == <<running, stored, answered>>

FBTypeOK ==
  /\ running \in Text \cup {None}
  /\ stored \in Text \cup {None}
  /\ answered \subseteq Text

FBInit == running = None /\ stored = None /\ answered = {}

Answer(a) ==
  /\ running # None
  /\ answered' = answered \cup {a}
  /\ UNCHANGED <<running, stored>>

\* The stored address is given up: a save erases before it writes.
Forget == stored # None /\ stored' = None /\ UNCHANGED <<running, answered>>

Store(a) ==
  /\ stored = None
  /\ running # None => a \in answered
  /\ stored' = a
  /\ UNCHANGED <<running, answered>>

\* Restoring at boot and committing a save are the same step seen from outside.
TakeUp == stored # None /\ running' = stored /\ UNCHANGED <<stored, answered>>

\* The power fails; a save in progress may take the stored address with it.
PowerCut ==
  /\ running' = None
  /\ stored' \in {stored, None}
  /\ UNCHANGED answered

FBNext ==
  \/ \E a \in Text : Answer(a) \/ Store(a)
  \/ Forget
  \/ TakeUp
  \/ PowerCut

FBSpec == FBInit /\ [][FBNext]_fbVars
====
