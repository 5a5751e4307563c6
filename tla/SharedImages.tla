---------------------------- MODULE SharedImages ----------------------------
(***************************************************************************)
(* What the Sapwood server promises (HACKING, "Memory"): all images are    *)
(* loaded in memory only once and reference counted between clients.  An   *)
(* image is resident exactly while some client uses it, and it is loaded   *)
(* only when it becomes resident.                                          *)
(***************************************************************************)
CONSTANTS Clients, Files

VARIABLES
  users,    \* per file: the clients that use its image
  resident  \* files whose image is in memory

sharedVars == <<users, resident>>

InUse(u) == {f \in Files : u[f] # {}}

SharedInit ==
  /\ users = [f \in Files |-> {}]
  /\ resident = {}

Acquire(c, f) ==
  /\ users' = [users EXCEPT ![f] = @ \union {c}]
  /\ resident' = resident \union {f}

(* One image, or at the end of the client all of its images at once. *)
Release(c, F) ==
  /\ \A f \in F : c \in users[f]
  /\ users' = [f \in Files |-> IF f \in F THEN users[f] \ {c} ELSE users[f]]
  /\ resident' = InUse(users')

SharedNext ==
  \E c \in Clients :
    \/ \E f \in Files : Acquire(c, f) \/ Release(c, {f})
    \/ Release(c, {f \in Files : c \in users[f]})

SharedSpec == SharedInit /\ [][SharedNext]_sharedVars
=============================================================================
