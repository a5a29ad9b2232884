----------------------------- MODULE ShardInbox -----------------------------
(***************************************************************************)
(* How the messages of one bounded context reach its entities.             *)
(*                                                                         *)
(* Each context has one shard (access-desk.ts, SHARD_PER_CONTEXT), which   *)
(* delivers its messages one after another, so the inboxes of the entities *)
(* are one queue.  A client's command joins the queue behind what is there *)
(* already, and so does every command, event and rejection a handler gives.*)
(* An event takes one place per entity type that receives it, in the order *)
(* in which the context adds them.                                         *)
(***************************************************************************)
EXTENDS Naturals, Sequences

CONSTANT MaxCrashes  \* bound: stops between a handler and its message's removal

VARIABLES
  inbox,   \* the messages of the shard, the oldest first
  crashes  \* how often a handled message was left in the inbox

To(entity, signal) == [to |-> entity, signal |-> signal]

Receives(entity, types) ==
  /\ inbox # <<>>
  /\ Head(inbox).to = entity
  /\ Head(inbox).signal.type \in types

received == Head(inbox).signal

(* The handled message leaves the inbox and what the handler gave joins it.*)
(* When the server stops after the handler but before the removal, the     *)
(* message is handled once more after the restart.                         *)
Give(messages) ==
  \/ /\ inbox' = Tail(inbox) \o messages
     /\ UNCHANGED crashes
  \/ /\ crashes < MaxCrashes
     /\ crashes' = crashes + 1
     /\ inbox' = inbox \o messages
=============================================================================
