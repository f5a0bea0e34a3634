------------------------- MODULE SchedulerLeadership -------------------------
(***************************************************************************)
(* Scheduler processes (scheduler/__main__.py) that compete for the lock   *)
(* eden:scheduler:leader, run jobs while they hold it and give up when the *)
(* heartbeat finds it lost (start_scheduler, verify_scheduler_leadership). *)
(* systemd starts a process again whenever it ends.                        *)
(*                                                                         *)
(* The lock belongs to the server's session of a connection: a client may  *)
(* lose the connection before or after the server gives the lock up.       *)
(***************************************************************************)
EXTENDS Integers, FiniteSets

CONSTANTS
  Schedulers,    \* processes
  MaxMishaps      \* bound: lost connections, crashes and stop requests

ASSUME LeadershipAssumption == MaxMishaps \in Nat

VARIABLES
  phase,    \* "off", "waiting", "starting", "running", "stopped", "draining"
  link,     \* the leader connection: "none", "open", "broken"
  held,     \* held[p]: leader_lock.acquired, what p believes
  owner,    \* the process whose session holds the lock, or "free"
  slot,     \* slot[p]: the only thread of executor "default" takes a sample
  busy,     \* busy[p]: a job of the other executors is at work
  stop,     \* stop[p]: a signal asked p to stop
  mishaps

leaderVars == <<phase, link, held, owner, slot, busy, stop, mishaps>>
Free == "free"

LeaderInit ==
  /\ phase = [p \in Schedulers |-> "off"]
  /\ link = [p \in Schedulers |-> "none"]
  /\ held = [p \in Schedulers |-> FALSE]
  /\ owner = Free
  /\ slot = [p \in Schedulers |-> FALSE]
  /\ busy = [p \in Schedulers |-> FALSE]
  /\ stop = [p \in Schedulers |-> FALSE]
  /\ mishaps = 0

\* p closes its connection: the server frees the lock if it still had the session.
CloseLink(p) ==
  /\ link' = [link EXCEPT ![p] = "none"]
  /\ owner' = IF owner = p /\ link[p] = "open" THEN Free ELSE owner
  /\ held' = [held EXCEPT ![p] = FALSE]

-----------------------------------------------------------------------------
\* start_scheduler up to the lock; run tries again every 30 seconds.
TryLead(p) ==
  /\ phase[p] \in {"off", "waiting"} /\ ~stop[p]
  /\ IF owner = Free
     THEN /\ owner' = p
          /\ link' = [link EXCEPT ![p] = "open"]
          /\ held' = [held EXCEPT ![p] = TRUE]
          /\ phase' = [phase EXCEPT ![p] = "starting"]
     ELSE /\ phase' = [phase EXCEPT ![p] = "waiting"]
          /\ UNCHANGED <<owner, link, held>>
  /\ UNCHANGED <<slot, busy, stop, mishaps>>

\* The recovery of abandoned runs and a first sample, then the jobs are added.
StartJobs(p) ==
  /\ phase[p] = "starting"
  /\ phase' = [phase EXCEPT ![p] = "running"]
  /\ UNCHANGED <<link, held, owner, slot, busy, stop, mishaps>>

BeginJob(p) ==
  /\ phase[p] = "running" /\ ~busy[p]
  /\ busy' = [busy EXCEPT ![p] = TRUE]
  /\ UNCHANGED <<phase, link, held, owner, slot, stop, mishaps>>

EndJob(p) ==
  /\ busy[p]
  /\ busy' = [busy EXCEPT ![p] = FALSE]
  /\ UNCHANGED <<phase, link, held, owner, slot, stop, mishaps>>

\* refresh_scheduler_capacity occupies the thread the heartbeat needs.
BeginSample(p) ==
  /\ phase[p] = "running" /\ ~slot[p]
  /\ slot' = [slot EXCEPT ![p] = TRUE]
  /\ UNCHANGED <<phase, link, held, owner, busy, stop, mishaps>>

EndSample(p) ==
  /\ slot[p]
  /\ slot' = [slot EXCEPT ![p] = FALSE]
  /\ UNCHANGED <<phase, link, held, owner, busy, stop, mishaps>>

\* mutant of Heartbeat: it trusts leader_lock.acquired and asks nobody
HeartbeatTrusting(p) ==
  /\ phase[p] = "running" /\ ~slot[p]
  /\ IF held[p]
     THEN UNCHANGED <<phase, link, held, owner>>
     ELSE CloseLink(p) /\ phase' = [phase EXCEPT ![p] = "stopped"]
  /\ UNCHANGED <<slot, busy, stop, mishaps>>

\* verify_scheduler_leadership, every 30 seconds: the session that holds the
\* lock must be the one of the connection, else the scheduler shuts down.
Heartbeat(p) ==
  /\ phase[p] = "running" /\ ~slot[p]
  /\ IF held[p] /\ link[p] = "open" /\ owner = p
     THEN UNCHANGED <<phase, link, held, owner>>
     ELSE CloseLink(p) /\ phase' = [phase EXCEPT ![p] = "stopped"]
  /\ UNCHANGED <<slot, busy, stop, mishaps>>

\* run notices, within a second, that it was asked to stop or that the
\* scheduler is no longer running, and shuts the runtime down.
Shutdown(p) ==
  /\ phase[p] = "stopped" \/ (phase[p] = "running" /\ stop[p])
  /\ CloseLink(p)
  /\ phase' = [phase EXCEPT ![p] = "draining"]
  /\ UNCHANGED <<slot, busy, stop, mishaps>>

\* The process ends with its last job; nobody waits for the jobs before.
ExitProcess(p) ==
  /\ \/ phase[p] = "draining" /\ ~busy[p] /\ ~slot[p]
     \/ phase[p] \in {"off", "waiting"} /\ stop[p]
  /\ phase' = [phase EXCEPT ![p] = "off"]
  /\ stop' = [stop EXCEPT ![p] = FALSE]
  /\ UNCHANGED <<link, held, owner, slot, busy, mishaps>>

-----------------------------------------------------------------------------
\* The connection breaks; the server may notice at once or later.
LoseLink(p) ==
  /\ mishaps < MaxMishaps /\ link[p] = "open"
  /\ link' = [link EXCEPT ![p] = "broken"]
  /\ owner' \in {owner, Free}
  /\ mishaps' = mishaps + 1
  /\ UNCHANGED <<phase, held, slot, busy, stop>>

ServerNotices ==
  /\ owner # Free /\ link[owner] # "open"
  /\ owner' = Free
  /\ UNCHANGED <<phase, link, held, slot, busy, stop, mishaps>>

\* The process dies, or start_scheduler raises, with the lock still held.
DieScheduler(p) ==
  /\ mishaps < MaxMishaps /\ phase[p] # "off"
  /\ phase' = [phase EXCEPT ![p] = "off"]
  /\ link' = [link EXCEPT ![p] = "none"]
  /\ held' = [held EXCEPT ![p] = FALSE]
  /\ busy' = [busy EXCEPT ![p] = FALSE]
  /\ slot' = [slot EXCEPT ![p] = FALSE]
  /\ stop' = [stop EXCEPT ![p] = FALSE]
  /\ mishaps' = mishaps + 1
  /\ UNCHANGED owner

AskToStop(p) ==
  /\ mishaps < MaxMishaps /\ ~stop[p]
  /\ stop' = [stop EXCEPT ![p] = TRUE]
  /\ mishaps' = mishaps + 1
  /\ UNCHANGED <<phase, link, held, owner, slot, busy>>

LeaderNext ==
  \/ \E p \in Schedulers :
       \/ TryLead(p) \/ StartJobs(p) \/ BeginJob(p) \/ EndJob(p)
       \/ BeginSample(p) \/ EndSample(p) \/ Heartbeat(p)
       \/ Shutdown(p) \/ ExitProcess(p)
       \/ LoseLink(p) \/ DieScheduler(p) \/ AskToStop(p)
  \/ ServerNotices

\* Jobs and samples end, systemd restarts, the server notices dead sessions.  The
\* heartbeat waits in a queue behind at most one sample, hence strong fairness.
LeaderFairness ==
  /\ \A p \in Schedulers :
       /\ WF_leaderVars(TryLead(p)) /\ WF_leaderVars(StartJobs(p))
       /\ WF_leaderVars(EndJob(p)) /\ WF_leaderVars(EndSample(p))
       /\ SF_leaderVars(Heartbeat(p))
       /\ WF_leaderVars(Shutdown(p)) /\ WF_leaderVars(ExitProcess(p))
  /\ WF_leaderVars(ServerNotices)

LeaderSpec == LeaderInit /\ [][LeaderNext]_leaderVars /\ LeaderFairness

-----------------------------------------------------------------------------
Leads(p) == phase[p] = "running" /\ owner = p

LeaderTypeOK ==
  /\ phase \in [Schedulers ->
       {"off", "waiting", "starting", "running", "stopped", "draining"}]
  /\ link \in [Schedulers -> {"none", "open", "broken"}]
  /\ held \in [Schedulers -> BOOLEAN]
  /\ owner \in Schedulers \union {Free}
  /\ slot \in [Schedulers -> BOOLEAN] /\ busy \in [Schedulers -> BOOLEAN]
  /\ stop \in [Schedulers -> BOOLEAN]
  /\ mishaps \in 0..MaxMishaps

\* Every process that still schedules jobs without the lock stops, although a
\* capacity sample may keep its heartbeat waiting; and however connections,
\* processes and sessions die, there is a leader again and again.
LeadershipRecovers ==
  /\ \A p \in Schedulers :
       (phase[p] = "running" /\ owner # p) ~> (phase[p] # "running")
  /\ []<>(\E p \in Schedulers : Leads(p))

=============================================================================
