------------------------------ MODULE Lifecycle ------------------------------
(***************************************************************************)
(* What a device keeps over restarts, and who may use it meanwhile:         *)
(* OpenDatabase and its migrations (storage/db.go), the identity            *)
(* (identity/identity.go, storage/identity.go), node handles                *)
(* (cabi/handles.go, exports.go), and the saved state of a session          *)
(* (transfer/persist.go, storage/transfer_state.go).                        *)
(*                                                                          *)
(* Threads of one process call ml_node_create and ml_node_destroy on the    *)
(* same database.  Each SQL statement outside a transaction and each        *)
(* transaction is one step; the process may die between any two steps.      *)
(***************************************************************************)
EXTENDS Naturals, Sequences, FiniteSets

CONSTANTS
  Thread,      \* callers of the C ABI
  NoKey,       \* no key
  NoNode,      \* a handle that stands for nothing
  MaxKeys,     \* bound: key pairs generated
  MaxHandles,  \* bound: nodes created in one process
  MaxCrashes   \* bound: deaths of the process

ASSUME KeyAssumption == MaxKeys \in Nat /\ NoKey \notin 1 .. MaxKeys
ASSUME BoundAssumption == MaxHandles \in Nat /\ MaxCrashes \in Nat

VARIABLES
  tables,    \* disk: the groups of tables that exist, {1, 2}
  versions,  \* disk: the rows of schema_version, first row first
  stored,    \* disk: the pubkey of the identity row
  keys,      \* how many key pairs have been generated; a key is its number
  pc,        \* pc[t]: where t is in ml_node_create or ml_node_destroy
  local,     \* local[t]: the version t has read, or the key, or the handle
  priv,      \* priv[t]: the private key of the node t creates
  nodes,     \* nodes[h]: the registry, and what handle h stands for
  next,      \* registry.next
  session,   \* the State of a TransferSession, "none" when it is not in memory
  snap,      \* snap[t]: the row t is about to write
  saved,     \* disk: the state in its row of transfer_state
  crashes

disk == <<tables, versions, stored>>
saving == <<session, snap, saved>>
vars == <<disk, pc, local, priv, nodes, next, keys, saving, crashes>>

Key == 1 .. MaxKeys
Handle == 1 .. MaxHandles
Node == [key : Key, priv : Key \cup {NoKey}, open : BOOLEAN]

ASSUME NodeAssumption == NoNode \notin Node

\* The handles that stand for a node.
Live == {h \in Handle : nodes[h] # NoNode}

Step == {"idle", "version", "v1", "v2", "load", "new", "register", "release", "save"}
State == {"IDLE", "HANDSHAKE", "VERIFYING", "TRANSFERRING", "CO_SIGNING", "GOSSIPING",
          "COMPLETE", "REJECTED", "FAILED"}

\* Thread t goes on at step, with value v.
goto(t, step, v) ==
  /\ pc' = [pc EXCEPT ![t] = step]
  /\ local' = [local EXCEPT ![t] = v]

Init ==
  /\ tables = {} /\ versions = << >> /\ stored = NoKey /\ keys = 0 /\ crashes = 0
  /\ pc = [t \in Thread |-> "idle"] /\ local = [t \in Thread |-> 0]
  /\ priv = [t \in Thread |-> NoKey]
  /\ nodes = [h \in Handle |-> NoNode] /\ next = 1
  /\ session = "none" /\ snap = [t \in Thread |-> "none"] /\ saved = "none"

-----------------------------------------------------------------------------
(* OpenDatabase.                                                            *)

\* The connections are opened, schema_version is created if it is not there.
OpenDatabase(t) ==
  /\ pc[t] = "idle" /\ goto(t, "version", 0)
  /\ UNCHANGED <<disk, priv, nodes, next, keys, saving, crashes>>

\* SELECT version: the first row, 0 without one.
migrate(t) ==
  /\ pc[t] = "version"
  /\ LET v == IF versions = << >> THEN 0 ELSE Head(versions) IN
       goto(t, IF v < 1 THEN "v1" ELSE IF v < 2 THEN "v2" ELSE "load", v)
  /\ UNCHANGED <<disk, priv, nodes, next, keys, saving, crashes>>

\* Mutant: the first migration records the final version.
runMigrationV1_final(t) ==
  /\ pc[t] = "v1"
  /\ tables' = tables \cup {1} /\ versions' = Append(versions, 2)
  /\ goto(t, "v2", 1)
  /\ UNCHANGED <<stored, priv, nodes, next, keys, saving, crashes>>

\* One transaction: tables that are not there, and a row.
runMigrationV1(t) ==
  /\ pc[t] = "v1"
  /\ tables' = tables \cup {1} /\ versions' = Append(versions, 1)
  /\ goto(t, "v2", 1)
  /\ UNCHANGED <<stored, priv, nodes, next, keys, saving, crashes>>

\* Mutant: the version is counted up instead of set.
runMigrationV2_increment(t) ==
  /\ pc[t] = "v2"
  /\ tables' = tables \cup {2} /\ versions' = [i \in DOMAIN versions |-> versions[i] + 1]
  /\ goto(t, "load", 2)
  /\ UNCHANGED <<stored, priv, nodes, next, keys, saving, crashes>>

\* One transaction: the UPDATE has no condition, so it sets every row.
runMigrationV2(t) ==
  /\ pc[t] = "v2"
  /\ tables' = tables \cup {2} /\ versions' = [i \in DOMAIN versions |-> 2]
  /\ goto(t, "load", 2)
  /\ UNCHANGED <<stored, priv, nodes, next, keys, saving, crashes>>

-----------------------------------------------------------------------------
(* ml_node_create after the database is open, and ml_node_destroy.          *)

\* The private key is not in the row.
LoadIdentity(t) ==
  /\ pc[t] = "load" /\ stored # NoKey
  /\ priv' = [priv EXCEPT ![t] = NoKey]
  /\ goto(t, "register", stored)
  /\ UNCHANGED <<disk, nodes, next, keys, saving, crashes>>

\* No row, or an error of the query: ml_node_create makes no difference.
loadFails(t) ==
  /\ pc[t] = "load" /\ keys < MaxKeys
  /\ keys' = keys + 1 /\ goto(t, "new", keys + 1)
  /\ UNCHANGED <<disk, priv, nodes, next, saving, crashes>>

\* Mutant: the row is replaced.
InitIdentity_replace(t) == TRUE

\* INSERT with id 1: fails when there is a row.
InitIdentity(t) == stored = NoKey

\* Mutant: the error of InitIdentity is dropped.
NewIdentity_anyway(t) ==
  /\ pc[t] = "new"
  /\ stored' = IF InitIdentity(t) THEN local[t] ELSE stored
  /\ priv' = [priv EXCEPT ![t] = local[t]] /\ goto(t, "register", local[t])
  /\ UNCHANGED <<tables, versions, nodes, next, keys, saving, crashes>>

NewIdentity(t) ==
  /\ pc[t] = "new"
  /\ IF InitIdentity(t)
     THEN /\ stored' = local[t] /\ priv' = [priv EXCEPT ![t] = local[t]]
          /\ goto(t, "register", local[t])
     ELSE /\ UNCHANGED <<stored, priv>> /\ goto(t, "idle", 0)
  /\ UNCHANGED <<tables, versions, nodes, next, keys, saving, crashes>>

RegisterHandle == next

\* The node goes into the registry and the handle to the caller.
register(t) ==
  /\ pc[t] = "register" /\ next <= MaxHandles
  /\ nodes' = [nodes EXCEPT ![RegisterHandle] =
                 [key |-> local[t], priv |-> priv[t], open |-> TRUE]]
  /\ next' = next + 1
  /\ goto(t, "idle", 0)
  /\ UNCHANGED <<disk, priv, keys, saving, crashes>>

\* A step of OpenDatabase, or of NewIdentity, fails: 0 is returned.
createFails(t) ==
  /\ pc[t] \in {"version", "v1", "v2", "new"}
  /\ goto(t, "idle", 0)
  /\ UNCHANGED <<disk, priv, nodes, next, keys, saving, crashes>>

\* ml_node_destroy looks the handle up and closes the store ...
destroy(t, h) ==
  /\ pc[t] = "idle" /\ h \in Live
  /\ nodes' = [nodes EXCEPT ![h].open = FALSE]
  /\ goto(t, "release", h)
  /\ UNCHANGED <<disk, priv, next, keys, saving, crashes>>

\* ... and then removes the handle, which another thread may have removed.
ReleaseHandle(t) ==
  /\ pc[t] = "release"
  /\ nodes' = [nodes EXCEPT ![local[t]] = NoNode]
  /\ goto(t, "idle", 0)
  /\ UNCHANGED <<disk, priv, next, keys, saving, crashes>>

-----------------------------------------------------------------------------
(* Saved sessions.                                                          *)

\* Mutant: a failed session may start again.
isValidTransition_retry ==
  [IDLE |-> {"HANDSHAKE"}, HANDSHAKE |-> {"VERIFYING", "REJECTED", "FAILED"},
   VERIFYING |-> {"TRANSFERRING", "REJECTED", "FAILED"},
   TRANSFERRING |-> {"TRANSFERRING", "CO_SIGNING", "COMPLETE", "FAILED"},
   CO_SIGNING |-> {"GOSSIPING", "FAILED"}, GOSSIPING |-> {"COMPLETE", "FAILED"},
   COMPLETE |-> {}, REJECTED |-> {}, FAILED |-> {"HANDSHAKE"}, none |-> {"IDLE"}]

\* The states a session may go to; a new session is IDLE.
isValidTransition ==
  [IDLE |-> {"HANDSHAKE"}, HANDSHAKE |-> {"VERIFYING", "REJECTED", "FAILED"},
   VERIFYING |-> {"TRANSFERRING", "REJECTED", "FAILED"},
   TRANSFERRING |-> {"TRANSFERRING", "CO_SIGNING", "COMPLETE", "FAILED"},
   CO_SIGNING |-> {"GOSSIPING", "FAILED"}, GOSSIPING |-> {"COMPLETE", "FAILED"},
   COMPLETE |-> {}, REJECTED |-> {}, FAILED |-> {}, none |-> {"IDLE"}]

\* A node creates the session, once: its ID is not used again.
TransitionTo(state) ==
  /\ state \in isValidTransition[session] /\ (session = "none" => saved = "none" /\ Live # {})
  /\ session' = state
  /\ UNCHANGED <<disk, pc, local, priv, nodes, next, keys, snap, saved, crashes>>

\* CheckpointTransferState copies the session under its lock ...
CheckpointTransferState(t) ==
  /\ pc[t] = "idle" /\ Live # {} /\ session # "none"
  /\ snap' = [snap EXCEPT ![t] = session] /\ goto(t, "save", 0)
  /\ UNCHANGED <<disk, priv, nodes, next, keys, session, saved, crashes>>

\* ... and writes the row without it, or finds the store closed.
UpsertTransferState(t) ==
  /\ pc[t] = "save" /\ goto(t, "idle", 0)
  /\ saved' \in IF \E h \in Live : nodes[h].open THEN {snap[t]} ELSE {saved}
  /\ snap' = [snap EXCEPT ![t] = "none"]
  /\ UNCHANGED <<disk, priv, nodes, next, keys, session, crashes>>

\* RecoverSessions, of a process that has no sessions yet.
RecoverSessions(t) ==
  /\ pc[t] = "idle" /\ Live # {} /\ session = "none" /\ saved # "none"
  /\ session' = saved
  /\ UNCHANGED <<disk, pc, local, priv, nodes, next, keys, snap, saved, crashes>>

\* The process dies; the database keeps what was committed.
crash ==
  /\ crashes < MaxCrashes /\ crashes' = crashes + 1
  /\ pc' = [t \in Thread |-> "idle"] /\ local' = [t \in Thread |-> 0]
  /\ priv' = [t \in Thread |-> NoKey]
  /\ nodes' = [h \in Handle |-> NoNode] /\ next' = 1
  /\ session' = "none" /\ snap' = [t \in Thread |-> "none"]
  /\ UNCHANGED <<disk, keys, saved>>

Next ==
  \/ \E t \in Thread :
       \/ OpenDatabase(t) \/ migrate(t) \/ runMigrationV1(t) \/ runMigrationV2(t)
       \/ LoadIdentity(t) \/ loadFails(t) \/ NewIdentity(t) \/ register(t) \/ createFails(t)
       \/ \E h \in Handle : destroy(t, h)
       \/ ReleaseHandle(t)
       \/ CheckpointTransferState(t) \/ UpsertTransferState(t) \/ RecoverSessions(t)
  \/ \E state \in State : TransitionTo(state)
  \/ crash

Spec == Init /\ [][Next]_vars

-----------------------------------------------------------------------------
(* Properties.                                                              *)

\* Every variable has its type.
TypeOK ==
  /\ tables \subseteq {1, 2} /\ versions \in Seq({1, 2})
  /\ stored \in Key \cup {NoKey} /\ keys \in 0 .. MaxKeys
  /\ pc \in [Thread -> Step] /\ local \in [Thread -> Nat]
  /\ priv \in [Thread -> Key \cup {NoKey}]
  /\ next \in 1 .. MaxHandles + 1 /\ nodes \in [Handle -> Node \cup {NoNode}]
  /\ session \in State \cup {"none"} /\ saved \in State \cup {"none"}
  /\ snap \in [Thread -> State \cup {"none"}] /\ crashes \in 0 .. MaxCrashes

\* A node that ml_node_create returned finds every table, wherever an earlier
\* process died in its migrations and whichever migrations ran side by side.
NodesHaveTables == Live # {} => tables = {1, 2}

\* Nodes of one database have one identity, the stored one, although
\* LoadIdentity and NewIdentity of two threads interleave.
OneIdentity == \A h \in Live : nodes[h].key = stored

\* A stored identity is never replaced or lost.
IdentityIsFinal == [][stored # NoKey => stored' = stored]_vars

\* Within a process a handle that was released stands for nothing ever after:
\* a late call with it cannot reach another node (RegisterHandle counts up).
HandlesAreFresh ==
  [][crashes' = crashes =>
       \A h \in Live' : h \in Live \/ h >= next]_vars

\* The order in which a session goes through its states.
Rank == [none |-> 0, IDLE |-> 1, HANDSHAKE |-> 2, VERIFYING |-> 3, TRANSFERRING |-> 4,
         CO_SIGNING |-> 5, GOSSIPING |-> 6, COMPLETE |-> 7, REJECTED |-> 7, FAILED |-> 7]

\* What is saved is never ahead of the session, whichever threads save it:
\* a session that RecoverSessions brings back has no step undone that the
\* row already counts as done.
SavedIsPast == session # "none" => Rank[saved] <= Rank[session]

-----------------------------------------------------------------------------
(* What the documents say and the code does not keep.                       *)

\* "The device's Ed25519 private key is currently stored in SQLite": a node
\* can sign for its identity also after a restart.
NodesCanSign == \A h \in Live : nodes[h].priv = nodes[h].key

\* A saved end is final: with two threads in CheckpointTransferState the older
\* copy may be written last.
SavedEndIsFinal ==
  [][(saved \in {"COMPLETE", "REJECTED", "FAILED"}) => saved' = saved]_vars
=============================================================================
