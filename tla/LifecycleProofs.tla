-------------------------- MODULE LifecycleProofs --------------------------
(***************************************************************************)
(* Proofs about Lifecycle, for any threads, handles, keys and crashes: the  *)
(* tables, the identity, the handles and the saved sessions.                *)
(***************************************************************************)
EXTENDS Lifecycle, SequenceTheorems, TLAPS

\* What ml_node_create has established when it has come to a step: a version
\* row stands for its tables, and the key that is registered is the stored one.
CreateInv ==
  /\ versions # << >> => 1 \in tables
  /\ \A i \in DOMAIN versions : versions[i] = 2 => tables = {1, 2}
  /\ \A t \in Thread :
       /\ pc[t] = "v2" => 1 \in tables
       /\ pc[t] \in {"load", "new", "register"} => tables = {1, 2}
       /\ pc[t] = "new" => local[t] \in Key
       /\ pc[t] = "register" => local[t] = stored /\ stored \in Key

\* The registry holds handles that were given out, for nodes of the stored key.
RegistryInv == NodesHaveTables /\ OneIdentity /\ \A h \in Live : h < next

\* No copy of the session, in a thread or on disk, is ahead of it.
SavingInv ==
  /\ SavedIsPast
  /\ \A t \in Thread : snap[t] # "none" => session # "none" /\ Rank[snap[t]] <= Rank[session]

Inv == TypeOK /\ CreateInv /\ RegistryInv /\ SavingInv

-----------------------------------------------------------------------------
\* A step of TransitionTo goes up in the order of the states.
LEMMA TransitionRises ==
  ASSUME NEW s \in State \cup {"none"}, NEW u \in isValidTransition[s]
  PROVE  u \in State /\ Rank[s] <= Rank[u]
  <1>1. CASE s = "none"          BY <1>1 DEF isValidTransition, Rank, State
  <1>2. CASE s = "IDLE"          BY <1>2 DEF isValidTransition, Rank, State
  <1>3. CASE s = "HANDSHAKE"     BY <1>3 DEF isValidTransition, Rank, State
  <1>4. CASE s = "VERIFYING"     BY <1>4 DEF isValidTransition, Rank, State
  <1>5. CASE s = "TRANSFERRING"  BY <1>5 DEF isValidTransition, Rank, State
  <1>6. CASE s = "CO_SIGNING"    BY <1>6 DEF isValidTransition, Rank, State
  <1>7. CASE s = "GOSSIPING"     BY <1>7 DEF isValidTransition, Rank, State
  <1>8. CASE s \in {"COMPLETE", "REJECTED", "FAILED"}
    BY <1>8 DEF isValidTransition
  <1>. QED  BY <1>1, <1>2, <1>3, <1>4, <1>5, <1>6, <1>7, <1>8 DEF State

\* Ranks are numbers, and only a session that is not there has rank 0.
LEMMA RankType ==
  ASSUME NEW s \in State \cup {"none"}
  PROVE  Rank[s] \in Nat /\ Rank["none"] = 0
  BY DEF Rank, State

\* Initially nothing is stored and nothing is in memory.
LEMMA InitInv == Init => Inv
  <1>. SUFFICES ASSUME Init PROVE Inv  OBVIOUS
  <1>0. Live = {} /\ versions = << >> /\ DOMAIN versions = {}
    BY DEF Init, Live
  <1>1. TypeOK
    BY KeyAssumption, BoundAssumption DEF Init, TypeOK, Key, Step, State, Handle
  <1>2. CreateInv  BY <1>0 DEF Init, CreateInv
  <1>3. RegistryInv  BY <1>0 DEF RegistryInv, NodesHaveTables, OneIdentity
  <1>4. SavingInv  BY DEF Init, SavingInv, SavedIsPast
  <1>. QED  BY <1>1, <1>2, <1>3, <1>4 DEF Inv

-----------------------------------------------------------------------------
(* The steps, by the part of the state they are about.                      *)

\* goto moves one thread.
LEMMA GotoType ==
  ASSUME TypeOK, NEW t \in Thread, NEW step \in Step, NEW v \in Nat, goto(t, step, v)
  PROVE  /\ pc' \in [Thread -> Step] /\ local' \in [Thread -> Nat]
         /\ pc'[t] = step /\ local'[t] = v
         /\ \A u \in Thread : u # t => pc'[u] = pc[u] /\ local'[u] = local[u]
  BY DEF TypeOK, goto

\* Steps are the names of the places in ml_node_create, destroy and saving.
LEMMA StepNames ==
  /\ "idle" \in Step /\ "version" \in Step /\ "v1" \in Step /\ "v2" \in Step /\ "load" \in Step
  /\ "new" \in Step /\ "register" \in Step /\ "release" \in Step /\ "save" \in Step
  BY DEF Step

\* Types are kept by every step.
LEMMA StepType == ASSUME Inv, Next PROVE TypeOK'
  <1>. USE KeyAssumption, BoundAssumption, StepNames DEF Inv, disk, saving
  <1>0. Key \subseteq Nat /\ Handle \subseteq Nat /\ 0 \in Nat  BY DEF Key, Handle
  <1>1. ASSUME NEW t \in Thread, OpenDatabase(t) \/ migrate(t) \/ createFails(t) PROVE TypeOK'
    <2>. DEFINE v == IF versions = << >> THEN 0 ELSE Head(versions)
                step == IF v < 1 THEN "v1" ELSE IF v < 2 THEN "v2" ELSE "load"
    <2>1. v \in Nat
      <3>1. versions # << >> => Head(versions) \in {1, 2}  BY HeadTailProperties DEF TypeOK
      <3>. QED  BY <3>1
    <2>2. step \in Step  OBVIOUS
    <2>3. goto(t, "version", 0) \/ goto(t, step, v) \/ goto(t, "idle", 0)
      BY <1>1 DEF OpenDatabase, migrate, createFails
    <2>. HIDE DEF v, step
    <2>4. pc' \in [Thread -> Step] /\ local' \in [Thread -> Nat]
      BY <2>1, <2>2, <2>3, <1>0, GotoType
    <2>. QED  BY <1>1, <2>4 DEF OpenDatabase, migrate, createFails, TypeOK
  <1>2. ASSUME NEW t \in Thread, runMigrationV1(t) PROVE TypeOK'
    <2>1. Append(versions, 1) \in Seq({1, 2})  BY AppendProperties DEF TypeOK
    <2>2. pc' \in [Thread -> Step] /\ local' \in [Thread -> Nat]
      BY <1>2, GotoType DEF runMigrationV1
    <2>. QED  BY <1>2, <2>1, <2>2 DEF runMigrationV1, TypeOK
  <1>3. ASSUME NEW t \in Thread, runMigrationV2(t) PROVE TypeOK'
    <2>1. [i \in DOMAIN versions |-> 2] \in Seq({1, 2})  BY DEF TypeOK
    <2>2. pc' \in [Thread -> Step] /\ local' \in [Thread -> Nat]
      BY <1>3, GotoType DEF runMigrationV2
    <2>. QED  BY <1>3, <2>1, <2>2 DEF runMigrationV2, TypeOK
  <1>4. ASSUME NEW t \in Thread, LoadIdentity(t) PROVE TypeOK'
    <2>1. stored \in Nat  BY <1>0, <1>4 DEF LoadIdentity, TypeOK
    <2>2. pc' \in [Thread -> Step] /\ local' \in [Thread -> Nat]
      BY <1>4, <2>1, GotoType DEF LoadIdentity
    <2>. QED  BY <1>4, <2>2 DEF LoadIdentity, TypeOK
  <1>5. ASSUME NEW t \in Thread, loadFails(t) PROVE TypeOK'
    <2>1. keys + 1 \in Nat /\ keys' \in 0 .. MaxKeys  BY <1>5 DEF loadFails, TypeOK
    <2>2. pc' \in [Thread -> Step] /\ local' \in [Thread -> Nat]
      BY <1>5, <2>1, GotoType DEF loadFails
    <2>. QED  BY <1>5, <2>1, <2>2 DEF loadFails, TypeOK
  <1>6. ASSUME NEW t \in Thread, NewIdentity(t) PROVE TypeOK'
    <2>1. local[t] \in Key /\ local[t] \in Nat  BY <1>0, <1>6 DEF NewIdentity, CreateInv
    <2>2. pc' \in [Thread -> Step] /\ local' \in [Thread -> Nat]
      BY <1>0, <1>6, <2>1, GotoType DEF NewIdentity
    <2>. QED  BY <1>6, <2>1, <2>2 DEF NewIdentity, TypeOK
  <1>7. ASSUME NEW t \in Thread, register(t) PROVE TypeOK'
    <2>. DEFINE n == [key |-> local[t], priv |-> priv[t], open |-> TRUE]
    <2>1. n \in Node  BY <1>7 DEF register, CreateInv, Node, TypeOK
    <2>2. nodes' = [nodes EXCEPT ![next] = n]  BY <1>7 DEF register, RegisterHandle
    <2>3. next' \in 1 .. MaxHandles + 1  BY <1>7 DEF register, TypeOK
    <2>. HIDE DEF n
    <2>4. nodes' \in [Handle -> Node \cup {NoNode}]  BY <2>1, <2>2 DEF TypeOK
    <2>5. pc' \in [Thread -> Step] /\ local' \in [Thread -> Nat]
      BY <1>0, <1>7, GotoType DEF register
    <2>. QED  BY <1>7, <2>3, <2>4, <2>5 DEF register, TypeOK
  <1>8. ASSUME NEW t \in Thread, NEW h \in Handle, destroy(t, h) PROVE TypeOK'
    <2>1. nodes[h] \in Node  BY <1>8 DEF destroy, Live, TypeOK
    <2>. DEFINE n == [nodes[h] EXCEPT !.open = FALSE]
    <2>2. n \in Node  BY <2>1 DEF Node
    <2>3. nodes' = [nodes EXCEPT ![h] = n]  BY <1>8 DEF destroy
    <2>. HIDE DEF n
    <2>4. nodes' \in [Handle -> Node \cup {NoNode}]  BY <2>2, <2>3 DEF TypeOK
    <2>5. pc' \in [Thread -> Step] /\ local' \in [Thread -> Nat]
      BY <1>0, <1>8, GotoType DEF destroy
    <2>. QED  BY <1>8, <2>4, <2>5 DEF destroy, TypeOK
  <1>9. ASSUME NEW t \in Thread, ReleaseHandle(t) PROVE TypeOK'
    <2>1. pc' \in [Thread -> Step] /\ local' \in [Thread -> Nat]
      BY <1>0, <1>9, GotoType DEF ReleaseHandle
    <2>. QED  BY <1>9, <2>1 DEF ReleaseHandle, TypeOK
  <1>10. ASSUME NEW t \in Thread, CheckpointTransferState(t) PROVE TypeOK'
    <2>1. pc' \in [Thread -> Step] /\ local' \in [Thread -> Nat]
      BY <1>0, <1>10, GotoType DEF CheckpointTransferState
    <2>. QED  BY <1>10, <2>1 DEF CheckpointTransferState, TypeOK
  <1>11. ASSUME NEW t \in Thread, UpsertTransferState(t) PROVE TypeOK'
    <2>1. pc' \in [Thread -> Step] /\ local' \in [Thread -> Nat]
      BY <1>0, <1>11, GotoType DEF UpsertTransferState
    <2>. QED  BY <1>11, <2>1 DEF UpsertTransferState, TypeOK
  <1>12. ASSUME NEW t \in Thread, RecoverSessions(t) PROVE TypeOK'
    BY <1>12 DEF RecoverSessions, TypeOK
  <1>13. ASSUME NEW state \in State, TransitionTo(state) PROVE TypeOK'
    BY <1>13 DEF TransitionTo, TypeOK
  <1>14. CASE crash
    BY <1>14 DEF crash, TypeOK
  <1>. HIDE DEF Inv, disk, saving
  <1>. QED  BY <1>1, <1>2, <1>3, <1>4, <1>5, <1>6, <1>7, <1>8, <1>9, <1>10, <1>11, <1>12,
                <1>13, <1>14 DEF Next

\* What a step leaves the registry with: as it was, a node of the stored key
\* more, or less of it.
LEMMA StepRegistry ==
  ASSUME Inv, Next
  PROVE  /\ \A h \in Live' : \/ h \in Live /\ nodes'[h].key = nodes[h].key
                             \/ h = next /\ nodes'[h].key = stored /\ tables = {1, 2}
         /\ (crashes' = crashes => next <= next') /\ (Live' # {} => next <= next')
         /\ next \in Live' => next < next'
  <1>. USE KeyAssumption, BoundAssumption DEF Inv, TypeOK, Live, disk, saving
  <1>1. ASSUME NEW t \in Thread, register(t)
        PROVE /\ next \in Handle /\ next' = next + 1
              /\ nodes'[next].key = stored /\ tables = {1, 2}
              /\ \A h \in Handle : h # next => nodes'[h] = nodes[h]
    BY <1>1 DEF register, RegisterHandle, CreateInv, Handle
  <1>2. ASSUME NEW t \in Thread, NEW h \in Handle, destroy(t, h)
        PROVE /\ next' = next /\ nodes'[h].key = nodes[h].key /\ h \in Live
              /\ \A g \in Handle : g # h => nodes'[g] = nodes[g]
    <2>1. nodes[h] \in Node  BY <1>2 DEF destroy
    <2>. QED  BY <1>2, <2>1 DEF destroy, Node
  <1>3. ASSUME NEW t \in Thread, ReleaseHandle(t)
        PROVE next' = next /\ \A h \in Handle : nodes'[h] # NoNode => nodes'[h] = nodes[h]
    BY <1>3 DEF ReleaseHandle
  <1>4. CASE crash
    BY <1>4 DEF crash
  <1>5. CASE UNCHANGED <<nodes, next>>
    BY <1>5 DEF RegistryInv
  <1>6. \/ UNCHANGED <<nodes, next>> \/ crash
        \/ \E t \in Thread : register(t) \/ ReleaseHandle(t) \/ \E h \in Handle : destroy(t, h)
    BY DEF Next, OpenDatabase, migrate, runMigrationV1, runMigrationV2, LoadIdentity,
           loadFails, NewIdentity, createFails, CheckpointTransferState,
           UpsertTransferState, RecoverSessions, TransitionTo
  <1>7. CASE \E t \in Thread : register(t)
    BY <1>1, <1>7
  <1>8. CASE \E t \in Thread, h \in Handle : destroy(t, h)
    BY <1>2, <1>8 DEF RegistryInv
  <1>9. CASE \E t \in Thread : ReleaseHandle(t)
    BY <1>3, <1>9 DEF RegistryInv
  <1>. QED  BY <1>4, <1>5, <1>6, <1>7, <1>8, <1>9

\* Tables are never dropped, and an identity that is stored stays.
LEMMA StepDisk ==
  ASSUME Inv, Next
  PROVE  tables \subseteq tables' /\ tables' \subseteq {1, 2} /\ (stored # NoKey => stored' = stored)
  <1>1. tables' \subseteq {1, 2}  BY StepType DEF TypeOK
  <1>. QED
    BY <1>1 DEF Next, OpenDatabase, migrate, runMigrationV1, runMigrationV2, LoadIdentity, loadFails,
       NewIdentity, InitIdentity, register, createFails, destroy, ReleaseHandle, crash, disk,
       CheckpointTransferState, UpsertTransferState, RecoverSessions, TransitionTo

\* A version row stands for its tables: the migrations are transactions.
LEMMA StepVersions ==
  ASSUME Inv, Next
  PROVE  /\ versions' # << >> => 1 \in tables'
         /\ \A i \in DOMAIN versions' : versions'[i] = 2 => tables' = {1, 2}
  <1>. USE DEF Inv, CreateInv, TypeOK
  <1>1. ASSUME NEW t \in Thread, runMigrationV1(t)
        PROVE /\ 1 \in tables'
              /\ \A i \in DOMAIN versions' : versions'[i] = 2 => tables' = {1, 2}
    <2>1. /\ DOMAIN Append(versions, 1) = 1 .. Len(versions) + 1
          /\ \A i \in DOMAIN Append(versions, 1) :
               Append(versions, 1)[i] = 2 => i \in DOMAIN versions /\ versions[i] = 2
      OBVIOUS
    <2>. QED  BY <1>1, <2>1 DEF runMigrationV1
  <1>2. ASSUME NEW t \in Thread, runMigrationV2(t) PROVE tables' = {1, 2}
    BY <1>2 DEF runMigrationV2
  <1>3. CASE UNCHANGED <<tables, versions>>
    BY <1>3
  <1>4. \/ UNCHANGED <<tables, versions>>
        \/ \E t \in Thread : runMigrationV1(t) \/ runMigrationV2(t)
    BY DEF Next, OpenDatabase, migrate, LoadIdentity, loadFails, NewIdentity, register,
           createFails, destroy, ReleaseHandle, crash, disk,
           CheckpointTransferState, UpsertTransferState, RecoverSessions, TransitionTo
  <1>. QED  BY <1>1, <1>2, <1>3, <1>4

\* What holds of a thread at its step of ml_node_create.
AtStep(t) ==
  /\ pc[t] = "v2" => 1 \in tables
  /\ pc[t] \in {"load", "new", "register"} => tables = {1, 2}
  /\ pc[t] = "new" => local[t] \in Key
  /\ pc[t] = "register" => local[t] = stored /\ stored \in Key

\* A thread that goes to a step of ml_node_create has done what leads there;
\* the other threads stay where they are.
LEMMA StepThreads == ASSUME Inv, Next PROVE \A t \in Thread : AtStep(t)'
  <1>. USE KeyAssumption, StepNames DEF Inv, disk, saving
  <1>0. /\ tables \subseteq tables' /\ tables' \subseteq {1, 2}
        /\ (stored # NoKey => stored' = stored) /\ \A t \in Thread : AtStep(t)
        /\ TypeOK' /\ Key \subseteq Nat /\ Handle \subseteq Nat /\ NoKey \notin Key /\ 0 \in Nat
    BY StepDisk, StepType DEF CreateInv, AtStep, Key, Handle
  <1>1. ASSUME NEW t \in Thread, pc'[t] = pc[t], local'[t] = local[t] PROVE AtStep(t)'
    BY <1>0, <1>1 DEF AtStep
  <1>2. ASSUME NEW t \in Thread, NEW step \in Step, NEW v \in Nat, goto(t, step, v), 
               step = "v2" => 1 \in tables',
               step \in {"load", "new", "register"} => tables' = {1, 2},
               step = "new" => v \in Key,
               step = "register" => v = stored' /\ stored' \in Key
        PROVE \A u \in Thread : AtStep(u)'
    <2>1. /\ pc'[t] = step /\ local'[t] = v
          /\ \A u \in Thread : u # t => pc'[u] = pc[u] /\ local'[u] = local[u]
      BY <1>2, GotoType
    <2>2. AtStep(t)'  BY <1>2, <2>1 DEF AtStep
    <2>. QED  BY <1>1, <2>1, <2>2
  <1>3. ASSUME NEW t \in Thread, goto(t, "idle", 0) \/ goto(t, "version", 0) \/ goto(t, "save", 0)
        PROVE \A u \in Thread : AtStep(u)'
    BY <1>0, <1>2, <1>3
  <1>4. ASSUME NEW t \in Thread, migrate(t) PROVE \A u \in Thread : AtStep(u)'
    <2>. DEFINE v == IF versions = << >> THEN 0 ELSE Head(versions)
                step == IF v < 1 THEN "v1" ELSE IF v < 2 THEN "v2" ELSE "load"
    <2>1. versions # << >> => Head(versions) = versions[1] /\ 1 \in DOMAIN versions
                              /\ Head(versions) \in {1, 2}
      BY HeadTailProperties DEF TypeOK
    <2>2. v \in Nat /\ step \in Step  BY <2>1
    <2>3. (step = "v2" => 1 \in tables) /\ (step = "load" => tables = {1, 2})
      BY <2>1 DEF CreateInv
    <2>4. goto(t, step, v) /\ step # "new" /\ step # "register" /\ tables' = tables
      BY <1>4 DEF migrate
    <2>. HIDE DEF v, step
    <2>. QED  BY <1>2, <2>2, <2>3, <2>4
  <1>5. ASSUME NEW t \in Thread, runMigrationV1(t) \/ runMigrationV2(t)
        PROVE \A u \in Thread : AtStep(u)'
    <2>1. CASE runMigrationV1(t)
      <3>1. goto(t, "v2", 1) /\ 1 \in tables'  BY <2>1 DEF runMigrationV1
      <3>. QED  BY <1>2, <3>1
    <2>2. CASE runMigrationV2(t)
      <3>1. goto(t, "load", 2) /\ tables' = {1, 2}
        BY <2>2, <1>0 DEF runMigrationV2, CreateInv
      <3>. QED  BY <1>2, <3>1
    <2>. QED  BY <1>5, <2>1, <2>2
  <1>6. ASSUME NEW t \in Thread, LoadIdentity(t) PROVE \A u \in Thread : AtStep(u)'
    <2>1. goto(t, "register", stored) /\ stored \in Key /\ stored' = stored /\ tables' = {1, 2}
      BY <1>0, <1>6 DEF LoadIdentity, TypeOK, AtStep
    <2>. QED  BY <1>0, <1>2, <2>1
  <1>7. ASSUME NEW t \in Thread, loadFails(t) PROVE \A u \in Thread : AtStep(u)'
    <2>1. goto(t, "new", keys + 1) /\ keys + 1 \in Key /\ tables' = {1, 2}
      BY <1>0, <1>7 DEF loadFails, TypeOK, AtStep, Key
    <2>. QED  BY <1>0, <1>2, <2>1
  <1>8. ASSUME NEW t \in Thread, NewIdentity(t) PROVE \A u \in Thread : AtStep(u)'
    <2>1. local[t] \in Key /\ tables' = {1, 2}
      BY <1>0, <1>8 DEF NewIdentity, AtStep
    <2>2. CASE goto(t, "register", local[t]) /\ stored' = local[t]
      BY <1>0, <1>2, <2>1, <2>2
    <2>3. CASE goto(t, "idle", 0)
      BY <1>3, <2>3
    <2>. QED  BY <1>8, <2>2, <2>3 DEF NewIdentity
  <1>9. ASSUME NEW t \in Thread, NEW h \in Handle, destroy(t, h) PROVE \A u \in Thread : AtStep(u)'
    <2>1. goto(t, "release", h) /\ h \in Nat  BY <1>0, <1>9 DEF destroy
    <2>. QED  BY <1>2, <2>1
  <1>10. CASE crash \/ \E state \in State : TransitionTo(state)
    BY <1>10, <1>1 DEF crash, TransitionTo, AtStep
  <1>11. ASSUME NEW t \in Thread, RecoverSessions(t) PROVE \A u \in Thread : AtStep(u)'
    BY <1>11, <1>1 DEF RecoverSessions
  <1>12. ASSUME NEW t \in Thread,
                \/ OpenDatabase(t) \/ createFails(t) \/ register(t) \/ ReleaseHandle(t)
                \/ CheckpointTransferState(t) \/ UpsertTransferState(t)
         PROVE \A u \in Thread : AtStep(u)'
    BY <1>12, <1>3 DEF OpenDatabase, createFails, register, ReleaseHandle,
       CheckpointTransferState, UpsertTransferState
  <1>. HIDE DEF Inv, disk, saving
  <1>. QED  BY <1>4, <1>5, <1>6, <1>7, <1>8, <1>9, <1>10, <1>11, <1>12 DEF Next

\* No copy of the session gets ahead of it: a copy is taken of the current
\* state, which only rises, and a crash takes the copies in memory along.
LEMMA StepSaving == ASSUME Inv, Next PROVE SavingInv'
  <1>. USE DEF Inv, disk, saving
  <1>0. /\ \A s \in State \cup {"none"} : Rank[s] \in Nat
        /\ Rank["none"] = 0 /\ "none" \in State \cup {"none"}
    BY RankType
  <1>1. /\ session \in State \cup {"none"} /\ saved \in State \cup {"none"}
        /\ snap \in [Thread -> State \cup {"none"}]
    BY DEF TypeOK
  <1>2. ASSUME NEW state \in State, TransitionTo(state) PROVE SavingInv'
    <2>1. Rank[session] <= Rank[state] /\ state # "none"
      BY <1>1, <1>2, TransitionRises DEF TransitionTo, State
    <2>2. CASE session = "none"
      <3>1. saved' = "none" /\ \A t \in Thread : snap'[t] = "none"
        BY <1>2, <2>2 DEF TransitionTo, SavingInv
      <3>. QED  BY <1>0, <1>2, <3>1 DEF TransitionTo, SavingInv, SavedIsPast
    <2>3. CASE session # "none"
      BY <1>0, <1>1, <1>2, <2>1, <2>3 DEF TransitionTo, SavingInv, SavedIsPast
    <2>. QED  BY <2>2, <2>3
  <1>3. ASSUME NEW t \in Thread, CheckpointTransferState(t) PROVE SavingInv'
    <2>1. snap'[t] = session /\ \A u \in Thread : u # t => snap'[u] = snap[u]
      BY <1>1, <1>3 DEF CheckpointTransferState
    <2>. QED  BY <1>0, <1>1, <1>3, <2>1 DEF CheckpointTransferState, SavingInv, SavedIsPast
  <1>4. ASSUME NEW t \in Thread, UpsertTransferState(t) PROVE SavingInv'
    <2>1. /\ saved' = snap[t] \/ saved' = saved
          /\ snap'[t] = "none" /\ \A u \in Thread : u # t => snap'[u] = snap[u]
          /\ session' = session
      BY <1>1, <1>4 DEF UpsertTransferState
    <2>2. session # "none" => Rank[saved'] <= Rank[session]
      BY <1>0, <1>1, <2>1 DEF SavingInv, SavedIsPast
    <2>. QED  BY <2>1, <2>2 DEF SavingInv, SavedIsPast
  <1>5. ASSUME NEW t \in Thread, RecoverSessions(t) PROVE SavingInv'
    BY <1>0, <1>1, <1>5 DEF RecoverSessions, SavingInv, SavedIsPast
  <1>6. CASE crash
    BY <1>6 DEF crash, SavingInv, SavedIsPast
  <1>7. CASE UNCHANGED saving
    BY <1>7 DEF SavingInv, SavedIsPast
  <1>8. \/ UNCHANGED saving \/ crash \/ \E state \in State : TransitionTo(state)
        \/ \E t \in Thread : CheckpointTransferState(t) \/ UpsertTransferState(t) \/ RecoverSessions(t)
    BY DEF Next, OpenDatabase, migrate, runMigrationV1, runMigrationV2, LoadIdentity, loadFails,
       NewIdentity, register, createFails, destroy, ReleaseHandle
  <1>. QED  BY <1>2, <1>3, <1>4, <1>5, <1>6, <1>7, <1>8

\* Every step keeps the invariant.
LEMMA NextInv == ASSUME Inv, [Next]_vars PROVE Inv'
  <1>1. CASE Next
    <2>1. CreateInv'
      BY <1>1, StepVersions, StepThreads DEF CreateInv, AtStep
    <2>2. RegistryInv'
      <3>1. /\ tables = {1, 2} => tables' = {1, 2}
            /\ stored # NoKey => stored' = stored
        BY <1>1, StepDisk
      <3>2. \A h \in Live : h < next /\ nodes[h].key = stored /\ stored # NoKey /\ tables = {1, 2}
        <4>1. SUFFICES ASSUME NEW h \in Live PROVE stored # NoKey
          BY DEF Inv, RegistryInv, OneIdentity, NodesHaveTables
        <4>2. nodes[h] \in Node  BY DEF Inv, TypeOK, Live
        <4>. QED  BY <4>2, KeyAssumption DEF Inv, RegistryInv, OneIdentity, Node, Key
      <3>3. \A h \in Live' : \/ h \in Live /\ nodes'[h].key = nodes[h].key
                             \/ h = next /\ nodes'[h].key = stored /\ tables = {1, 2}
        BY <1>1, StepRegistry
      <3>4. Live' # {} => next <= next'  BY <1>1, StepRegistry
      <3>5. next \in Live' => next < next'  BY <1>1, StepRegistry
      <3>6. \A h \in Live' : nodes'[h].key = stored /\ tables = {1, 2}
        BY <3>2, <3>3
      <3>7. \A h \in Live' : stored # NoKey
        <4>1. SUFFICES ASSUME NEW h \in Live' PROVE nodes'[h].key # NoKey  BY <3>6
        <4>2. nodes'[h] \in Node  BY <1>1, StepType DEF TypeOK, Live
        <4>. QED  BY <4>2, KeyAssumption DEF Node, Key
      <3>8. \A h \in Live' : h < next'
        <4>1. next \in Nat /\ next' \in Nat /\ Handle \subseteq Nat
          BY <1>1, StepType, BoundAssumption DEF Inv, TypeOK, Handle
        <4>2. Live \subseteq Handle  BY DEF Live
        <4>3. SUFFICES ASSUME NEW h \in Live' PROVE h < next'  OBVIOUS
        <4>4. CASE h = next  BY <3>5, <4>4
        <4>5. CASE h \in Live
          <5>1. h < next /\ h \in Nat /\ next <= next'  BY <3>2, <3>4, <4>1, <4>2, <4>5
          <5>. QED  BY <4>1, <5>1
        <4>. QED  BY <3>3, <4>4, <4>5
      <3>. QED  BY <3>1, <3>6, <3>7, <3>8 DEF RegistryInv, NodesHaveTables, OneIdentity
    <2>. QED  BY <1>1, <2>1, <2>2, StepType, StepSaving DEF Inv
  <1>2. CASE UNCHANGED vars
    BY <1>2 DEF vars, disk, saving, Inv, TypeOK, CreateInv, RegistryInv, NodesHaveTables, OneIdentity,
       SavingInv, SavedIsPast, Live
  <1>. QED  BY <1>1, <1>2

-----------------------------------------------------------------------------
\* The invariant holds in every reachable state.
THEOREM Invariance == Spec => []Inv
  <1>1. Init => Inv  BY InitInv
  <1>2. Inv /\ [Next]_vars => Inv'  BY NextInv
  <1>. QED  BY <1>1, <1>2, PTL DEF Spec

\* Types are kept by any number of threads in ml_node_create and destroy.
THEOREM TypeCorrect == Spec => []TypeOK
  <1>1. Inv => TypeOK  BY DEF Inv
  <1>. QED  BY <1>1, Invariance, PTL

\* ml_node_create never returns a node without its tables: OpenDatabase runs
\* what is missing, wherever earlier migrations stopped.
THEOREM TablesAreThere == Spec => []NodesHaveTables
  <1>1. Inv => NodesHaveTables  BY DEF Inv, RegistryInv
  <1>. QED  BY <1>1, Invariance, PTL

\* All nodes of a database have the stored identity: the primary key of the
\* identity table decides between threads that both found none.
THEOREM IdentityIsShared == Spec => []OneIdentity
  <1>1. Inv => OneIdentity  BY DEF Inv, RegistryInv
  <1>. QED  BY <1>1, Invariance, PTL

\* InitIdentity never replaces a stored identity.
THEOREM IdentityStays == Spec => IdentityIsFinal
  <1>1. Inv /\ [Next]_vars => [stored # NoKey => stored' = stored]_vars
    BY StepDisk
  <1>. QED  BY <1>1, Invariance, PTL DEF Spec, IdentityIsFinal

\* RegisterHandle never gives a handle out twice in one process.
THEOREM HandlesAreNotReused == Spec => HandlesAreFresh
  <1>1. Inv /\ [Next]_vars =>
          [crashes' = crashes => \A h \in Live' : h \in Live \/ h >= next]_vars
    <2>. SUFFICES ASSUME Inv, Next PROVE \A h \in Live' : h \in Live \/ h >= next
      OBVIOUS
    <2>1. \A h \in Live' : h \in Live \/ h = next  BY StepRegistry
    <2>2. next \in Nat  BY BoundAssumption DEF Inv, TypeOK
    <2>. QED  BY <2>1, <2>2
  <1>. QED  BY <1>1, Invariance, PTL DEF Spec, HandlesAreFresh

\* The row of UpsertTransferState is never ahead of the session, with any
\* number of threads in CheckpointTransferState.
THEOREM SavedIsBehind == Spec => []SavedIsPast
  <1>1. Inv => SavedIsPast  BY DEF Inv, SavingInv
  <1>. QED  BY <1>1, Invariance, PTL
=============================================================================
