----------------------------- MODULE Resilience -----------------------------
(***************************************************************************)
(* PeerResilienceManager (src/beenet/core/resilience.py): peer scores,    *)
(* peer states, the blacklist, reconnection tasks with backoff, and the   *)
(* cleanup loop, driven by the calls a connection manager makes.          *)
(*                                                                         *)
(* Each reconnection task is an asyncio task; a step of a task runs from   *)
(* one await to the next, as the event loop does.  Time is abstracted to  *)
(* one event: more than a day passes, which makes every last_seen older    *)
(* than 24 h and every blacklist entry older than blacklist_duration.      *)
(* Backoff delays only decide when a sleep ends, so a sleep ends at any    *)
(* time.  Callers pass no latency (update_peer_state never does), so the   *)
(* latency score is 1.0, and uptime_ratio is never changed from 1.0.       *)
(***************************************************************************)
EXTENDS Integers, Sequences, FiniteSets

CONSTANTS Peers,                 \* peer ids
          MaxAttempts,           \* ReconnectionPolicy.max_attempts
          BlacklistThresholdPct, \* ReconnectionPolicy.blacklist_threshold, in %
          MinScoreForRetryPct,   \* ReconnectionPolicy.min_score_for_retry, in %
          MaxCount,              \* bound on the connection and transfer counters
          MaxTasks               \* bound on the reconnection tasks created

ASSUME MaxAttempts >= 1 /\ MaxCount >= 2 /\ MaxTasks >= 1

VARIABLES
    running,     \* _running
    cleanup,     \* _cleanup_task is not None
    peerState,   \* peer_states (absent = "unknown")
    score,       \* peer_scores: the counters and whether last_seen is recent
    blacklist,   \* blacklisted_peers: "none", "active" or "expired"
    taskOf,      \* reconnection_tasks: peer -> task id, 0 when absent
    tasks        \* every task created: peer, attempt and where it is

vars == <<running, cleanup, peerState, score, blacklist, taskOf, tasks>>

States == {"unknown", "connecting", "connected", "disconnected", "failed", "blacklisted"}

NewScore == [total |-> 0, succ |-> 0, xtotal |-> 0, xsucc |-> 0, seen |-> FALSE]

\* A task is "new" (created, not yet run), "sleeping" in asyncio.sleep,
\* "done" (returned or raised) or "cancelled".
Live(t) == tasks[t].pc \in {"new", "sleeping"}

TypeOK ==
    /\ running \in BOOLEAN /\ cleanup \in BOOLEAN
    /\ peerState \in [Peers -> States]
    /\ score \in [Peers -> [total : 0..MaxCount, succ : 0..MaxCount,
                            xtotal : 0..MaxCount, xsucc : 0..MaxCount,
                            seen : BOOLEAN]]
    /\ blacklist \in [Peers -> {"none", "active", "expired"}]
    /\ taskOf \in [Peers -> 0..MaxTasks]
    /\ tasks \in Seq([peer : Peers, attempt : 0..MaxAttempts,
                      pc : {"new", "sleeping", "done", "cancelled"}])
    /\ Len(tasks) <= MaxTasks

Init ==
    /\ running = FALSE /\ cleanup = FALSE
    /\ peerState = [p \in Peers |-> "unknown"]
    /\ score = [p \in Peers |-> NewScore]
    /\ blacklist = [p \in Peers |-> "none"]
    /\ taskOf = [p \in Peers |-> 0]
    /\ tasks = <<>>

-----------------------------------------------------------------------------
(* PeerScore                                                               *)

\* PeerScore.update_connection_attempt (last_seen is set on success).
CountConnection(s, success) ==
    [s EXCEPT !.total = @ + 1,
              !.succ = IF success THEN @ + 1 ELSE @,
              !.seen = @ \/ success]

\* PeerScore.update_transfer_attempt.
CountTransfer(s, success) ==
    [s EXCEPT !.xtotal = @ + 1, !.xsucc = IF success THEN @ + 1 ELSE @]

\* calculate_overall_score() * 100 < pct, with the success rates 1.0 while
\* no attempt is counted, latency score 1.0 and uptime 1.0:
\* 0.3 * succ/total + 0.3 * xsucc/xtotal + 0.2 + 0.2, cleared of denominators.
ScoreBelow(s, pct) ==
    LET ct == IF s.total = 0 THEN 1 ELSE s.total
        cs == IF s.total = 0 THEN 1 ELSE s.succ
        xt == IF s.xtotal = 0 THEN 1 ELSE s.xtotal
        xs == IF s.xtotal = 0 THEN 1 ELSE s.xsucc
    IN  100 * (3 * cs * xt + 3 * xs * ct + 4 * ct * xt) < pct * 10 * ct * xt

\* PeerScore.should_blacklist: last_seen starts at 0.0, so a peer never
\* seen counts as offline for more than 24 h.
ShouldBlacklist(s) ==
    \/ s.total >= 10 /\ 10 * s.succ < s.total
    \/ s.xtotal >= 5 /\ 5 * s.xsucc < s.xtotal
    \/ ~s.seen

\* The check at the end of update_peer_state.  When it holds,
\* _blacklist_peer records the entry and calls
\* update_peer_state(BLACKLISTED), which meets the same check and calls
\* _blacklist_peer again, until RecursionError: the entry is active, the
\* state is BLACKLISTED, and cancel_reconnection is never reached.
BlacklistTriggered(s) == ShouldBlacklist(s) /\ ScoreBelow(s, BlacklistThresholdPct)

\* is_blacklisted deletes an entry older than blacklist_duration.
Expire(b) == IF b = "expired" THEN "none" ELSE b

-----------------------------------------------------------------------------
(* PeerResilienceManager                                                   *)

\* update_peer_state(peer_id, state) on the score s: a success counts when
\* the old state is CONNECTING or DISCONNECTED, FAILED always counts as a
\* failure, then the blacklist check (see BlacklistTriggered).
UpdatePeerState(p, st, s) ==
    LET s2 == IF st = "connected" /\ peerState[p] \in {"connecting", "disconnected"}
              THEN CountConnection(s, TRUE)
              ELSE IF st = "failed" THEN CountConnection(s, FALSE) ELSE s
    IN  /\ score' = [score EXCEPT ![p] = s2]
        /\ IF BlacklistTriggered(s2)
           THEN /\ peerState' = [peerState EXCEPT ![p] = "blacklisted"]
                /\ blacklist' = [blacklist EXCEPT ![p] = "active"]
           ELSE /\ peerState' = [peerState EXCEPT ![p] = st]
                /\ UNCHANGED blacklist

\* task.cancel() on the task with id i, if there is one and it has not ended.
CancelTask(ts, i) ==
    IF i # 0 /\ ts[i].pc \in {"new", "sleeping"}
    THEN [ts EXCEPT ![i].pc = "cancelled"] ELSE ts

\* start()
Start ==
    /\ ~running
    /\ running' = TRUE /\ cleanup' = TRUE
    /\ UNCHANGED <<peerState, score, blacklist, taskOf, tasks>>

\* stop(): cancel every registered task, clear the map, cancel the cleanup task.
Stop ==
    /\ running
    /\ running' = FALSE /\ cleanup' = FALSE
    /\ tasks' = [t \in DOMAIN tasks |->
                    IF \E p \in Peers : taskOf[p] = t
                    THEN CancelTask(tasks, t)[t] ELSE tasks[t]]
    /\ taskOf' = [p \in Peers |-> 0]
    /\ UNCHANGED <<peerState, score, blacklist>>

\* record_connection_attempt(peer_id, success): the score counts the
\* attempt, then update_peer_state(CONNECTED or FAILED) may count it again.
RecordConnectionAttempt(p, success) ==
    /\ score[p].total + 2 <= MaxCount
    /\ UpdatePeerState(p, IF success THEN "connected" ELSE "failed",
                       CountConnection(score[p], success))
    /\ UNCHANGED <<running, cleanup, taskOf, tasks>>

\* record_transfer_attempt(peer_id, success): no blacklist check.
RecordTransferAttempt(p, success) ==
    /\ score[p].xtotal < MaxCount
    /\ score' = [score EXCEPT ![p] = CountTransfer(@, success)]
    /\ UNCHANGED <<running, cleanup, peerState, blacklist, taskOf, tasks>>

\* update_peer_state called by the connection manager.
UpdatePeerStateCall(p, st) ==
    /\ score[p].total < MaxCount
    /\ UpdatePeerState(p, st, score[p])
    /\ UNCHANGED <<running, cleanup, taskOf, tasks>>

\* Mutant of ScheduleReconnection: the registered task is replaced, not cancelled.
ScheduleReconnectionNoCancel(p) ==
    /\ blacklist[p] # "active"
    /\ Len(tasks) < MaxTasks
    /\ blacklist' = [blacklist EXCEPT ![p] = Expire(@)]
    /\ IF ScoreBelow(score[p], MinScoreForRetryPct)
       THEN UNCHANGED <<taskOf, tasks>>
       ELSE /\ tasks' = Append(tasks, [peer |-> p, attempt |-> 0, pc |-> "new"])
            /\ taskOf' = [taskOf EXCEPT ![p] = Len(tasks) + 1]
    /\ UNCHANGED <<running, cleanup, peerState, score>>

\* schedule_reconnection(peer_id, reason), with no should_reconnect
\* callback: skipped for a blacklisted peer or a score below
\* min_score_for_retry; otherwise the registered task is cancelled and a
\* new one registered in its place.
ScheduleReconnection(p) ==
    /\ blacklist[p] # "active"
    /\ Len(tasks) < MaxTasks
    /\ IF ScoreBelow(score[p], MinScoreForRetryPct)
       THEN /\ blacklist' = [blacklist EXCEPT ![p] = Expire(@)]
            /\ UNCHANGED <<taskOf, tasks>>
       ELSE /\ blacklist' = [blacklist EXCEPT ![p] = Expire(@)]
            /\ tasks' = Append(CancelTask(tasks, taskOf[p]),
                               [peer |-> p, attempt |-> 0, pc |-> "new"])
            /\ taskOf' = [taskOf EXCEPT ![p] = Len(tasks) + 1]
    /\ UNCHANGED <<running, cleanup, peerState, score>>

\* cancel_reconnection(peer_id)
CancelReconnection(p) ==
    /\ taskOf[p] # 0
    /\ tasks' = CancelTask(tasks, taskOf[p])
    /\ taskOf' = [taskOf EXCEPT ![p] = 0]
    /\ UNCHANGED <<running, cleanup, peerState, score, blacklist>>

\* The end of _reconnection_loop: `del self.reconnection_tasks[peer_id]`
\* when the peer has an entry, whichever task it names.
Finish(t, a) ==
    /\ tasks' = [tasks EXCEPT ![t].attempt = a, ![t].pc = "done"]
    /\ taskOf' = [taskOf EXCEPT ![tasks[t].peer] = 0]

\* Mutant of RunAttempt: `attempt += 1` left out of the loop body.
RunAttemptNoIncrement(t, bl) ==
    LET p == tasks[t].peer
        a == tasks[t].attempt
    IN  IF BlacklistTriggered(score[p])
        THEN /\ peerState' = [peerState EXCEPT ![p] = "blacklisted"]
             /\ blacklist' = [blacklist EXCEPT ![p] = "active"]
             /\ tasks' = [tasks EXCEPT ![t].pc = "done"]
             /\ UNCHANGED taskOf
        ELSE /\ peerState' = [peerState EXCEPT ![p] = "connecting"]
             /\ IF a < MaxAttempts /\ Expire(bl) # "active"
                THEN /\ tasks' = [tasks EXCEPT ![t].attempt = a, ![t].pc = "sleeping"]
                     /\ blacklist' = [blacklist EXCEPT ![p] = Expire(bl)]
                     /\ UNCHANGED taskOf
                ELSE /\ Finish(t, a)
                     /\ blacklist' = [blacklist EXCEPT ![p] = Expire(bl)]

\* Mutant of RunAttempt: the loop tests only the blacklist, not max_attempts.
RunAttemptUnbounded(t, bl) ==
    LET p == tasks[t].peer
        a == tasks[t].attempt + 1
    IN  IF BlacklistTriggered(score[p])
        THEN /\ peerState' = [peerState EXCEPT ![p] = "blacklisted"]
             /\ blacklist' = [blacklist EXCEPT ![p] = "active"]
             /\ tasks' = [tasks EXCEPT ![t].pc = "done"]
             /\ UNCHANGED taskOf
        ELSE /\ peerState' = [peerState EXCEPT ![p] = "connecting"]
             /\ IF Expire(bl) # "active"
                THEN /\ tasks' = [tasks EXCEPT ![t].attempt = a, ![t].pc = "sleeping"]
                     /\ blacklist' = [blacklist EXCEPT ![p] = Expire(bl)]
                     /\ UNCHANGED taskOf
                ELSE /\ Finish(t, a)
                     /\ UNCHANGED blacklist

\* One pass of the loop body from update_peer_state(CONNECTING) to the next
\* await: the attempt, attempt += 1, and the while test (is_blacklisted is
\* only called when attempt < max_attempts), then asyncio.sleep or the end.
\* bl is the peer's blacklist entry when the body starts.  RecursionError
\* in update_peer_state ends the task with nothing cleaned up.
RunAttempt(t, bl) ==
    LET p == tasks[t].peer
        a == tasks[t].attempt + 1
    IN  IF BlacklistTriggered(score[p])
        THEN /\ peerState' = [peerState EXCEPT ![p] = "blacklisted"]
             /\ blacklist' = [blacklist EXCEPT ![p] = "active"]
             /\ tasks' = [tasks EXCEPT ![t].pc = "done"]
             /\ UNCHANGED taskOf
        ELSE /\ peerState' = [peerState EXCEPT ![p] = "connecting"]
             /\ IF a < MaxAttempts /\ Expire(bl) # "active"
                THEN /\ tasks' = [tasks EXCEPT ![t].attempt = a, ![t].pc = "sleeping"]
                     /\ blacklist' = [blacklist EXCEPT ![p] = Expire(bl)]
                     /\ UNCHANGED taskOf
                ELSE /\ Finish(t, a)
                     /\ blacklist' = [blacklist EXCEPT ![p] =
                                        IF a < MaxAttempts THEN Expire(bl) ELSE bl]

\* _reconnection_loop starts: the first while test, then the first attempt
\* (no sleep before it), up to the first sleep.
TaskStart(t) ==
    LET p == tasks[t].peer IN
    /\ tasks[t].pc = "new"
    /\ IF Expire(blacklist[p]) = "active"
       THEN /\ Finish(t, 0)
            /\ UNCHANGED <<peerState, blacklist>>
       ELSE RunAttempt(t, Expire(blacklist[p]))
    /\ UNCHANGED <<running, cleanup, score>>

\* The backoff sleep ends (calculate_delay never returns inf below
\* max_attempts) and the loop body runs without testing the blacklist.
TaskWake(t) ==
    /\ tasks[t].pc = "sleeping"
    /\ RunAttempt(t, blacklist[tasks[t].peer])
    /\ UNCHANGED <<running, cleanup, score>>

\* One round of _cleanup_loop: drop the entries of finished tasks and the
\* expired blacklist entries.
CleanupTick ==
    /\ running /\ cleanup
    /\ taskOf' = [p \in Peers |->
                    IF taskOf[p] # 0 /\ ~Live(taskOf[p]) THEN 0 ELSE taskOf[p]]
    /\ blacklist' = [p \in Peers |-> Expire(blacklist[p])]
    /\ UNCHANGED <<running, cleanup, peerState, score, tasks>>

\* More than a day passes: every last_seen is older than 24 h and every
\* blacklist entry is older than blacklist_duration.
DayPasses ==
    /\ score' = [p \in Peers |-> [score[p] EXCEPT !.seen = FALSE]]
    /\ blacklist' = [p \in Peers |->
                        IF blacklist[p] = "active" THEN "expired" ELSE blacklist[p]]
    /\ UNCHANGED <<running, cleanup, peerState, taskOf, tasks>>

Next ==
    \/ Start \/ Stop \/ CleanupTick \/ DayPasses
    \/ \E p \in Peers :
          \/ ScheduleReconnection(p)
          \/ CancelReconnection(p)
          \/ \E success \in BOOLEAN : RecordConnectionAttempt(p, success)
          \/ \E success \in BOOLEAN : RecordTransferAttempt(p, success)
          \/ \E st \in {"connected", "disconnected", "failed"} : UpdatePeerStateCall(p, st)
    \/ \E t \in DOMAIN tasks : TaskStart(t) \/ TaskWake(t)

\* The event loop runs every ready task, and every backoff sleep ends.
Fairness ==
    \A t \in 1..MaxTasks :
        /\ WF_vars(t \in DOMAIN tasks /\ TaskStart(t))
        /\ WF_vars(t \in DOMAIN tasks /\ TaskWake(t))

Spec == Init /\ [][Next]_vars /\ Fairness

-----------------------------------------------------------------------------
(* Properties                                                              *)

\* Every task that has not ended is the one reconnection_tasks holds for its
\* peer: schedule_reconnection cancels the task it replaces, stop() and
\* cancel_reconnection cancel what they drop, the cleanup loop drops only
\* finished tasks, and a finishing task deletes its peer's entry; so no
\* reconnection loop runs unseen, whatever the order of these calls.
TasksTracked ==
    \A t \in DOMAIN tasks : Live(t) => taskOf[tasks[t].peer] = t

\* Every reconnection task eventually ends or is cancelled: the loop is
\* bounded by max_attempts.
TasksTerminate ==
    \A t \in 1..MaxTasks :
        (t <= Len(tasks) /\ Live(t)) ~> (t <= Len(tasks) /\ ~Live(t))

\* No reconnection attempt is made to a blacklisted peer: _blacklist_peer
\* cancels the peer's reconnection (spec 4.7: blacklisted peers are skipped).
NoAttemptWhileBlacklisted ==
    [][\A t \in DOMAIN tasks :
         tasks'[t].attempt > tasks[t].attempt => blacklist[tasks[t].peer] # "active"]_vars
=============================================================================
