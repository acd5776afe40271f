--------------------------- MODULE ChunkDelivery ---------------------------
(***************************************************************************)
(* What chunk transfer between devices promises, without sessions,         *)
(* messages or links.  A device holds a set of chunks of every file.  It   *)
(* gains chunks only by copying chunks another device holds.  A download   *)
(* job closes successfully only when the device holds every chunk asked of *)
(* it; it may also be abandoned.  FileTransfer implements this module.     *)
(***************************************************************************)
CONSTANTS
  Device,     \* the phones
  File,       \* file hashes
  Chunk,      \* chunk indices
  Slot,       \* names of download jobs, per device
  Seed        \* Seed[d][f]: the chunks d shares at the start (ml_share_file)

VARIABLES
  have,       \* have[d][f]: the chunks of f stored on d
  job         \* job[d][s]: the download job s of device d

NoJob == [status |-> "none"]
Job == [status : {"open", "done", "abandoned"}, file : File, asked : SUBSET Chunk]

TypeOK ==
  /\ have \in [Device -> [File -> SUBSET Chunk]]
  /\ job \in [Device -> [Slot -> Job \cup {NoJob}]]

Init ==
  /\ have = Seed
  /\ job = [d \in Device |-> [s \in Slot |-> NoJob]]

SetJob(d, s, j) == job' = [job EXCEPT ![d][s] = j]

\* A chunk set appears on a device only if one other device holds all of it.
Copy(d, f, S) ==
  /\ \E e \in Device \ {d} : S \subseteq have[e][f]
  /\ have' = [have EXCEPT ![d][f] = @ \cup S]
  /\ UNCHANGED job

Open(d, s, f, S) ==
  /\ job[d][s] = NoJob
  /\ SetJob(d, s, [status |-> "open", file |-> f, asked |-> S])
  /\ UNCHANGED have

\* The user asks again for the file of an open job.
Reopen(d, s, S) ==
  /\ job[d][s].status = "open"
  /\ SetJob(d, s, [job[d][s] EXCEPT !.asked = S])
  /\ UNCHANGED have

\* A job closes successfully only with everything asked of it on the device.
Finish(d, s) ==
  /\ job[d][s].status = "open"
  /\ job[d][s].asked \subseteq have[d][job[d][s].file]
  /\ SetJob(d, s, [job[d][s] EXCEPT !.status = "done"])
  /\ UNCHANGED have

\* A job may be abandoned, in the same step as the last chunks it stored.
Abandon(d, s) ==
  /\ job[d][s].status = "open"
  /\ SetJob(d, s, [job[d][s] EXCEPT !.status = "abandoned"])
  /\ \/ UNCHANGED have
     \/ \E f \in File, S \in SUBSET Chunk :
          /\ \E e \in Device \ {d} : S \subseteq have[e][f]
          /\ have' = [have EXCEPT ![d][f] = @ \cup S]

Forget(d, s) ==
  /\ job[d][s].status \in {"done", "abandoned"}
  /\ SetJob(d, s, NoJob)
  /\ UNCHANGED have

Next ==
  \E d \in Device :
    \/ \E f \in File, S \in SUBSET Chunk : Copy(d, f, S)
    \/ \E s \in Slot, f \in File, S \in SUBSET Chunk : Open(d, s, f, S)
    \/ \E s \in Slot, S \in SUBSET Chunk : Reopen(d, s, S)
    \/ \E s \in Slot : Finish(d, s) \/ Abandon(d, s) \/ Forget(d, s)

vars == <<have, job>>

Spec == Init /\ [][Next]_vars
=============================================================================
