------------------------------ MODULE Forwards ------------------------------
(***************************************************************************)
(* The port forwards of one SSH connection (src/src/ssh.ts): starting,     *)
(* stopping and reconfiguring them, the health monitor that reconnects     *)
(* them, the restoration at startup and the shutdown.                      *)
(*                                                                         *)
(* A forward is carried by a tunnel: a listener of the built-in SSH client *)
(* (`managed`, the map ssh2Forwards), which dies with the process, or a    *)
(* detached ssh child, known by the pid in its row, which does not.  The   *)
(* operations on one forward wait in its queue (forwardOperations); each   *)
(* await in an operation is a value of op[f].step.                         *)
(*                                                                         *)
(* A promise that settles resumes whoever awaits it before the next event  *)
(* is handled: nothing else happens while such a continuation is due or an *)
(* operation at the head of its queue has not begun (~Idle).               *)
(***************************************************************************)
EXTENDS Integers, Sequences, FiniteSets

CONSTANTS
  LastForward,  \* forwards are 1..LastForward, in the order of their ids
  Builtin,      \* carried by the built-in client; the others by an ssh child
  Listening,    \* modes local and socks: the local port is looked at first
  Autostart,    \* connection.autostart_forwards
  MaxRequests,  \* bound on the user's requests
  MaxTunnels,   \* bound on the tunnels ever opened
  MaxExits      \* bound on shutdowns and crashes

Forwards == 1..LastForward
Tunnels  == 1..MaxTunnels

ASSUME ForwardsAssumption ==
  /\ LastForward \in Nat \ {0} /\ MaxRequests \in Nat /\ MaxTunnels \in Nat /\ MaxExits \in Nat
  /\ Builtin \subseteq Forwards /\ Listening \subseteq Forwards /\ Autostart \in BOOLEAN

VARIABLES
  row,          \* connection_forwards; pid is 0 for NULL, config for the other columns
  restoreFile,  \* the restore state file lists the connection
  managed,      \* ssh2Forwards.get(f), 0 when it has no entry
  tunnel,       \* every tunnel opened so far
  opened,       \* how many there are
  ops,          \* the queue of operations of a forward
  op,           \* the operation at its head
  due,          \* callers whose awaited operation has settled
  keeper,       \* the startup task, later the health monitor
  batch,        \* a running startConnectionForwards
  server,       \* "down", "up", "closing" (waits for the monitor), "stopping"
  quit,         \* forwards whose stop the shutdown awaits
  sent, exits,  \* counters of the bounds
  lost          \* history: children younger than 900 ms when the process ended

store  == <<row, restoreFile, managed, tunnel, opened>>
queues == <<ops, op, due>>
tasks  == <<keeper, batch, server, quit, sent, exits, lost>>
fvars  == <<store, queues, tasks>>

Statuses == {"stopped", "running", "reconnecting", "failed"}
Steps    == {"idle", "closing", "probing", "freeing", "opening", "watching"}
Callers  == {"user", "delete", "keeper", "batch", "shutdown"}
Answers  == {"ok", "gone", "untrusted", "failed"}
Configs  == 0..MaxRequests

NoOp == [step |-> "idle", again |-> FALSE, clean |-> FALSE, config |-> 0, child |-> 0]
Order(kind, by, clean, config, before) ==
  [kind |-> kind, by |-> by, clean |-> clean, config |-> config, before |-> before]
Start(by, clean) == Order("start", by, clean, 0, 0)
Stop(by)         == Order("stop", by, FALSE, 0, 0)

Resting == [step |-> "idle", mode |-> "watch", rows |-> <<>>]
NoBatch == [step |-> "idle", by |-> "user", clean |-> FALSE, left |-> <<>>, stops |-> {}, failed |-> FALSE]

FInit ==
  /\ row = [f \in Forwards |-> [there |-> TRUE, status |-> "stopped", restore |-> FALSE, pid |-> 0, config |-> 0]]
  /\ restoreFile = FALSE
  /\ managed = [f \in Forwards |-> 0]
  /\ tunnel = [t \in Tunnels |-> [of |-> 1, config |-> 0, up |-> FALSE]]
  /\ opened = 0
  /\ ops = [f \in Forwards |-> <<>>]
  /\ op = [f \in Forwards |-> NoOp]
  /\ due = {}
  /\ keeper = Resting
  /\ batch = NoBatch
  /\ server = "up" /\ quit = {} /\ sent = 0 /\ exits = 0 /\ lost = {}

Up(f)      == {t \in 1..opened : tunnel[t].of = f /\ tunnel[t].up}
Alive(pid) == pid # 0 /\ tunnel[pid].up
Running(f) == managed[f] # 0 \/ Alive(row[f].pid)
InOrder(S) == LET n == Cardinality(S)
              IN  CHOOSE s \in [1..n -> S] : \A i, j \in 1..n : i < j => s[i] < s[j]
Rows == {f \in Forwards : row[f].there}

(* Mutant: stopping one forward takes the connection off the list. *)
OthersRunNot(f) == FALSE
(* connectionRunning, once f is stopped *)
OthersRun(f) == \E g \in Rows \ {f} : Running(g)

Idle ==
  /\ server # "down"
  /\ due = {}
  /\ keeper.step # "rows"
  /\ \A f \in Forwards : ops[f] # <<>> => op[f].step # "idle"

(* enqueueForwardOperation *)
Enqueue(f, r) == ops' = [ops EXCEPT ![f] = Append(@, r)]
EnqueueAll(fs, r) == ops' = [f \in Forwards |-> IF f \in fs THEN Append(ops[f], r) ELSE ops[f]]

(* UPDATE ... WHERE id=?, which finds no row when the forward was deleted. *)
SetRow(f, r) == row' = [row EXCEPT ![f] = IF @.there THEN r ELSE @]
Kill(ts) == tunnel' = [t \in Tunnels |-> [tunnel[t] EXCEPT !.up = @ /\ t \notin ts]]

-----------------------------------------------------------------------------
(* An operation: what it does between two awaits. *)

(* It settles: the next one may begin, and its caller goes on. *)
Settles(f, answer) ==
  LET r == Head(ops[f]) IN
  /\ ops' = [ops EXCEPT ![f] = Tail(@)]
  /\ op' = [op EXCEPT ![f] = NoOp]
  /\ due' = IF r.by = "user" THEN due ELSE due \cup {[to |-> r.by, f |-> f, answer |-> answer]}

GoesOn(f, o) == op' = [op EXCEPT ![f] = o] /\ UNCHANGED <<ops, due>>

(* preserveRestoreState *)
Preserves(r) == r.kind # "stop" \/ r.by \in {"batch", "shutdown"}

(* performStartForwardInternal, behind stopForwardRuntime. *)
Probes(f, again, clean, config) ==
  GoesOn(f, [NoOp EXCEPT !.step = IF f \in Listening THEN "probing" ELSE "opening",
                         !.again = again, !.clean = clean, !.config = config])

(* Mutant: the detached child is forgotten, not stopped. *)
ChildForgotten(f) == {}
(* stopPid(forward.pid) *)
Child(f) == {row[f].pid} \ {0}

(* stopForwardRuntime, behind managed.close(), and what follows it.  The     *)
(* rows of other forwards with the same pid do not exist.  An edit writes   *)
(* its configuration, or that throws and the old one is started again.      *)
Halt(f, wanted, killed) ==
  \E again \in {FALSE, Head(ops[f]).kind = "edit"} :
  LET r == Head(ops[f])
      config == IF again THEN row[f].config ELSE wanted
  IN
  /\ Kill(killed)
  /\ SetRow(f, [row[f] EXCEPT !.status = "stopped", !.pid = 0, !.restore = @ /\ Preserves(r),
                              !.config = IF r.kind = "edit" THEN config ELSE @])
  /\ restoreFile' = (restoreFile /\ (Preserves(r) \/ OthersRun(f)))
  /\ CASE r.kind = "stop" -> Settles(f, "ok")
       [] r.kind = "edit" /\ ~row[f].there -> Settles(f, "gone")
       [] OTHER -> Probes(f, again, r.clean, config)

WasRunning(f) == row[f].status \in {"running", "reconnecting"} \/ row[f].pid # 0

(* The first segment of an operation, up to its first await. *)
BeginOp(f) ==
  LET r == Head(ops[f])
      config == IF r.kind = "edit" THEN r.config ELSE row[f].config
  IN
  /\ server # "down" /\ ops[f] # <<>> /\ op[f].step = "idle"
  /\ CASE ~row[f].there -> Settles(f, "gone") /\ UNCHANGED store
       [] row[f].there /\ r.kind = "edit" /\ ~WasRunning(f) ->
            /\ \/ row' = [row EXCEPT ![f].config = config] /\ Settles(f, "ok")
               \/ row' = row /\ Settles(f, "failed")
            /\ UNCHANGED <<restoreFile, managed, tunnel, opened>>
       [] row[f].there /\ (r.kind = "edit" => WasRunning(f)) /\ managed[f] # 0 ->
            /\ managed' = [managed EXCEPT ![f] = 0]
            /\ GoesOn(f, [NoOp EXCEPT !.step = "closing", !.config = config, !.child = managed[f]])
            /\ UNCHANGED <<row, restoreFile, tunnel, opened>>
       [] OTHER -> Halt(f, config, Child(f)) /\ UNCHANGED <<managed, opened>>
  /\ UNCHANGED tasks

(* managed.close() has settled. *)
ManagedClosed(f) ==
  /\ Idle /\ op[f].step = "closing"
  /\ Halt(f, op[f].config, {op[f].child})
  /\ UNCHANGED <<managed, opened>> /\ UNCHANGED tasks

(* Mutant: the row keeps the configuration that does not start. *)
RestoredNot(r, old) == [r EXCEPT !.status = "stopped"]
(* restoreConfiguration, and the stop at the beginning of the next start. *)
Restored(r, old) == [r EXCEPT !.status = "stopped", !.config = old]

(* The start throws and leaves row r.  An edit puts the configuration back  *)
(* that its caller had read before it was queued, and starts once more.     *)
Throws(f, answer, r) ==
  LET e == Head(ops[f]) IN
  IF e.kind = "edit" /\ ~op[f].again /\ row[f].there
  THEN row' = [row EXCEPT ![f] = Restored(r, e.before)] /\ Probes(f, TRUE, FALSE, e.before)
  ELSE row' = [row EXCEPT ![f] = r] /\ Settles(f, answer)

FailedRow(f) == IF row[f].there THEN [row[f] EXCEPT !.status = "failed", !.pid = 0] ELSE row[f]

(* diagnosePortUsage: a tunnel left over occupies the port, and so may any  *)
(* other program.  Only ssh processes are cleaned up, if that was asked.    *)
PortFree(f) ==
  /\ Idle /\ op[f].step = "probing" /\ Up(f) = {}
  /\ GoesOn(f, [op[f] EXCEPT !.step = "opening"])
  /\ UNCHANGED store /\ UNCHANGED tasks
PortOccupied(f) ==
  /\ Idle /\ op[f].step = "probing"
  /\ Throws(f, "failed", row[f])
  /\ UNCHANGED <<restoreFile, managed, tunnel, opened>> /\ UNCHANGED tasks
PortCleaned(f) ==
  /\ Idle /\ op[f].step = "probing" /\ op[f].clean
  /\ f \notin Builtin /\ Up(f) # {}
  /\ Kill(Up(f))
  /\ GoesOn(f, [op[f] EXCEPT !.step = "freeing", !.clean = FALSE])
  /\ UNCHANGED <<row, restoreFile, managed, opened>> /\ UNCHANGED tasks
PortFreed(f) ==
  /\ Idle /\ op[f].step = "freeing"
  /\ GoesOn(f, [op[f] EXCEPT !.step = "probing"])
  /\ UNCHANGED store /\ UNCHANGED tasks

(* An unknown or changed host key. *)
Untrusted(f) ==
  /\ Idle /\ op[f].step = "opening"
  /\ Throws(f, "untrusted", row[f])
  /\ UNCHANGED <<restoreFile, managed, tunnel, opened>> /\ UNCHANGED tasks

Opens(f, t) ==
  /\ t = opened + 1 /\ t \in Tunnels
  /\ opened' = t
  /\ tunnel' = [tunnel EXCEPT ![t] = [of |-> f, config |-> op[f].config, up |-> TRUE]]

(* startPasswordForward, with the listener up or with an error. *)
OpenManaged(f) ==
  /\ Idle /\ op[f].step = "opening" /\ f \in Builtin
  /\ \E t \in Tunnels :
       /\ Opens(f, t)
       /\ managed' = [managed EXCEPT ![f] = t]
  /\ SetRow(f, [row[f] EXCEPT !.status = "running", !.pid = 0, !.restore = TRUE])
  /\ restoreFile' = TRUE
  /\ Settles(f, "ok")
  /\ UNCHANGED tasks
OpenFails(f) ==
  /\ Idle /\ op[f].step = "opening" /\ f \in Builtin
  /\ Throws(f, "failed", FailedRow(f))
  /\ UNCHANGED <<restoreFile, managed, tunnel, opened>> /\ UNCHANGED tasks

(* spawn, and 900 ms later a look at the child. *)
SpawnChild(f) ==
  /\ Idle /\ op[f].step = "opening" /\ f \notin Builtin
  /\ \E t \in Tunnels :
       /\ Opens(f, t)
       /\ GoesOn(f, [op[f] EXCEPT !.step = "watching", !.child = t])
  /\ UNCHANGED <<row, restoreFile, managed>> /\ UNCHANGED tasks
ChildRuns(f) ==
  /\ Idle /\ op[f].step = "watching" /\ tunnel[op[f].child].up
  /\ SetRow(f, [row[f] EXCEPT !.status = "running", !.pid = op[f].child, !.restore = TRUE])
  /\ restoreFile' = TRUE
  /\ Settles(f, "ok")
  /\ UNCHANGED <<managed, tunnel, opened>> /\ UNCHANGED tasks
ChildExited(f) ==
  /\ Idle /\ op[f].step = "watching" /\ ~tunnel[op[f].child].up
  /\ Throws(f, "failed", FailedRow(f))
  /\ UNCHANGED <<restoreFile, managed, tunnel, opened>> /\ UNCHANGED tasks

-----------------------------------------------------------------------------
(* Events of tunnels. *)

(* The remote side, the network or the user's system ends it. *)
TunnelDies(t) ==
  /\ Idle \/ server = "down"
  /\ t \in 1..opened /\ tunnel[t].up
  /\ Kill({t})
  /\ UNCHANGED <<row, restoreFile, managed, opened>> /\ UNCHANGED queues /\ UNCHANGED tasks

(* onClose comes when the listener is closed as well. *)
OnClose(f) ==
  /\ Idle /\ managed[f] # 0 /\ ~tunnel[managed[f]].up
  /\ managed' = [managed EXCEPT ![f] = 0]
  /\ row' = [row EXCEPT ![f] = FailedRow(f)]
  /\ UNCHANGED <<restoreFile, tunnel, opened>> /\ UNCHANGED queues /\ UNCHANGED tasks

(* While the listener is being opened, `managed` and the entry of the map   *)
(* are both undefined.                                                      *)
OnError(f) ==
  /\ Idle /\ row[f].status # "failed"
  /\ managed[f] # 0 \/ (f \in Builtin /\ op[f].step = "opening")
  /\ row' = [row EXCEPT ![f] = FailedRow(f)]
  /\ UNCHANGED <<restoreFile, managed, tunnel, opened>> /\ UNCHANGED queues /\ UNCHANGED tasks

-----------------------------------------------------------------------------
(* The user's requests. *)

UserAsks(f, r) ==
  /\ Idle /\ row[f].there /\ sent < MaxRequests
  /\ sent' = sent + 1
  /\ Enqueue(f, r)
  /\ UNCHANGED store /\ UNCHANGED <<op, due, keeper, batch, server, quit, exits, lost>>
UserStarts(f) == UserAsks(f, Start("user", FALSE))
UserStops(f) == UserAsks(f, Stop("user"))
UserEdits(f) == UserAsks(f, Order("edit", "user", FALSE, sent + 1, row[f].config))
UserDeletes(f) == UserAsks(f, Stop("delete"))

(* deleteForward goes on behind its stop, and behind the first segment of   *)
(* an operation that was queued next.                                       *)
RowDeleted(f, answer) ==
  /\ [to |-> "delete", f |-> f, answer |-> answer] \in due
  /\ due' = due \ {[to |-> "delete", f |-> f, answer |-> answer]}
  /\ row' = [row EXCEPT ![f].there = @ /\ answer # "ok"]
  /\ UNCHANGED <<restoreFile, managed, tunnel, opened, ops, op>> /\ UNCHANGED tasks

-----------------------------------------------------------------------------
(* startConnectionForwards: stop all, then start one after the other.  The   *)
(* model runs one at a time.                                                *)

BatchOf(by, clean) ==
  [NoBatch EXCEPT !.step = "stopping", !.by = by, !.clean = clean, !.left = InOrder(Rows), !.stops = Rows]
NoOther == batch.step = "idle" /\ \A f \in Forwards : \A i \in 1..Len(ops[f]) : ops[f][i].by # "batch"
StartsBatch(by, clean) ==
  /\ NoOther /\ Rows # {}
  /\ batch' = BatchOf(by, clean)
  /\ EnqueueAll(Rows, Stop("batch"))

UserStartsAll ==
  /\ Idle /\ sent < MaxRequests
  /\ sent' = sent + 1
  /\ StartsBatch("user", FALSE)
  /\ UNCHANGED store /\ UNCHANGED <<op, due, keeper, server, quit, exits, lost>>

(* It ends, by its last line or by a throw.  When its caller is the keeper, *)
(* that goes on: the monitor until its next tick, the startup task with the *)
(* single forwards or to its end.                                           *)
BatchEnds ==
  /\ batch' = NoBatch
  /\ keeper' = IF batch.by # "keeper" THEN keeper
               ELSE IF keeper.mode = "auto"
               THEN [Resting EXCEPT !.mode = "restore", !.step = "tick"] ELSE Resting
BatchAnswered(f, answer) ==
  LET gone == batch.stops \ {f} IN
  /\ [to |-> "batch", f |-> f, answer |-> answer] \in due
  /\ due' = due \ {[to |-> "batch", f |-> f, answer |-> answer]}
  /\ CASE batch.step = "idle" ->      \* it has thrown already
            UNCHANGED <<restoreFile, batch, keeper, ops>>
       [] batch.step = "stopping" /\ answer # "ok" ->
            BatchEnds /\ UNCHANGED <<restoreFile, ops>>
       [] batch.step = "stopping" /\ answer = "ok" /\ gone # {} ->
            batch' = [batch EXCEPT !.stops = gone] /\ UNCHANGED <<restoreFile, keeper, ops>>
       [] batch.step = "stopping" /\ answer = "ok" /\ gone = {} ->
            /\ batch' = [batch EXCEPT !.stops = gone, !.step = "starting"]
            /\ Enqueue(Head(batch.left), Start("batch", batch.clean))
            /\ UNCHANGED <<restoreFile, keeper>>
       [] batch.step = "starting" /\ answer = "untrusted" ->
            BatchEnds /\ UNCHANGED <<restoreFile, ops>>
       [] OTHER ->
            LET failed == batch.failed \/ answer # "ok"
                left == Tail(batch.left)
            IN  IF left # <<>>
                THEN /\ batch' = [batch EXCEPT !.left = left, !.failed = failed]
                     /\ Enqueue(Head(left), Start("batch", batch.clean))
                     /\ UNCHANGED <<restoreFile, keeper>>
                ELSE /\ restoreFile' = IF \E g \in Rows : Running(g) THEN TRUE ELSE restoreFile /\ ~failed
                     /\ BatchEnds /\ UNCHANGED ops
  /\ UNCHANGED <<row, managed, tunnel, opened, op, server, quit, sent, exits, lost>>

-----------------------------------------------------------------------------
(* The keeper: autostartConnections and restorePreviousForwards at startup, *)
(* then a tick of the health monitor every 30 seconds unless one is busy.   *)

Snapshot(fs) == [i \in 1..Cardinality(fs) |->
                   LET f == InOrder(fs)[i] IN [f |-> f, pid |-> row[f].pid, restore |-> row[f].restore]]
Wanted == {f \in Rows : row[f].restore}

AutostartBegins ==
  /\ Idle /\ server = "up" /\ keeper = [Resting EXCEPT !.mode = "auto", !.step = "tick"]
  /\ IF Autostart /\ Rows # {}
     THEN /\ StartsBatch("keeper", TRUE)
          /\ keeper' = [keeper EXCEPT !.step = "batch"]
     ELSE /\ keeper' = [keeper EXCEPT !.mode = "restore"]
          /\ UNCHANGED <<batch, ops>>
  /\ UNCHANGED store /\ UNCHANGED <<op, due, server, quit, sent, exits, lost>>

(* restore=1 rows, or else the connections of the restore state file. *)
RestoreBegins ==
  /\ Idle /\ keeper = [Resting EXCEPT !.mode = "restore", !.step = "tick"]
  /\ \/ /\ Wanted # {}
        /\ keeper' = [keeper EXCEPT !.step = "rows", !.rows = Snapshot(Wanted)]
        /\ UNCHANGED <<batch, ops>>
     \/ /\ Wanted = {} /\ restoreFile /\ Rows # {}
        /\ StartsBatch("keeper", TRUE)
        /\ keeper' = [keeper EXCEPT !.step = "batch"]
     \/ /\ Wanted = {} /\ (restoreFile => Rows = {})
        /\ keeper' = Resting
        /\ UNCHANGED <<batch, ops>>
  /\ UNCHANGED store /\ UNCHANGED <<op, due, server, quit, sent, exits, lost>>

MonitorTicks ==
  /\ Idle /\ server = "up" /\ keeper = Resting
  /\ keeper' = [Resting EXCEPT !.step = "rows", !.rows = Snapshot({f \in Rows : row[f].restore \/ row[f].status = "running"})]
  /\ UNCHANGED store /\ UNCHANGED queues /\ UNCHANGED <<batch, server, quit, sent, exits, lost>>

(* Mutant: a dead child passes for running. *)
NeedsReconnectBuiltin(h) == h.restore /\ managed[h.f] = 0 /\ h.pid = 0
(* Judged by the pid and the wish the row had when the tick began. *)
NeedsReconnect(h) == h.restore /\ ~(managed[h.f] # 0 \/ Alive(h.pid))

(* One row; the loop runs on until a row has to be awaited. *)
KeeperRow ==
  LET h == Head(keeper.rows) IN
  /\ keeper.step = "rows" /\ keeper.rows # <<>>
  /\ IF keeper.mode = "restore" \/ NeedsReconnect(h)
     THEN /\ Enqueue(h.f, Start("keeper", TRUE))
          /\ row' = IF keeper.mode = "restore" \/ ~row[h.f].there THEN row
                    ELSE [row EXCEPT ![h.f].status = "reconnecting"]
          /\ keeper' = [keeper EXCEPT !.step = "awaits"]
     ELSE /\ keeper' = [keeper EXCEPT !.rows = Tail(@)]
          /\ UNCHANGED <<row, ops>>
  /\ UNCHANGED <<restoreFile, managed, tunnel, opened, op, due, batch, server, quit, sent, exits, lost>>

(* The awaited start has settled; the monitor's catch marks the row failed. *)
KeeperAnswered(f, answer) ==
  /\ [to |-> "keeper", f |-> f, answer |-> answer] \in due
  /\ due' = due \ {[to |-> "keeper", f |-> f, answer |-> answer]}
  /\ row' = [row EXCEPT ![f] = IF keeper.mode = "watch" /\ answer # "ok" THEN FailedRow(f) ELSE @]
  /\ keeper' = [keeper EXCEPT !.step = "rows", !.rows = Tail(@)]
  /\ UNCHANGED <<restoreFile, managed, tunnel, opened, ops, op>>
  /\ UNCHANGED <<batch, server, quit, sent, exits, lost>>

(* All rows are done.  The monitor starts every forward of a connection in  *)
(* the restore file of which none is running.                               *)
KeeperRowsEnd ==
  /\ keeper.step = "rows" /\ keeper.rows = <<>>
  /\ IF keeper.mode = "watch" /\ restoreFile /\ Rows # {} /\ NoOther
          /\ ~\E f \in Rows : Running(f)
     THEN StartsBatch("keeper", FALSE) /\ keeper' = [keeper EXCEPT !.step = "batch"]
     ELSE keeper' = Resting /\ UNCHANGED <<batch, ops>>
  /\ UNCHANGED store /\ UNCHANGED <<op, due, server, quit, sent, exits, lost>>

-----------------------------------------------------------------------------
(* The end of the process. *)

(* stopForwardHealthMonitor waits for a tick, not for the startup task. *)
ShutdownBegins ==
  /\ Idle /\ server = "up" /\ exits < MaxExits
  /\ server' = "closing"
  /\ UNCHANGED store /\ UNCHANGED queues /\ UNCHANGED <<keeper, batch, quit, sent, exits, lost>>

(* stopAllForwards selects connections with a pid, a running row or an      *)
(* entry in the map.                                                        *)
StopsAll ==
  LET fs == IF \E f \in Rows : row[f].pid # 0 \/ row[f].status = "running" \/ managed[f] # 0
            THEN Rows ELSE {}
  IN
  /\ Idle /\ server = "closing" /\ (keeper.mode # "watch" \/ keeper.step = "idle")
  /\ server' = "stopping" /\ quit' = fs
  /\ EnqueueAll(fs, Stop("shutdown"))
  /\ UNCHANGED store /\ UNCHANGED <<op, due, keeper, batch, sent, exits, lost>>

StopAnswered(f, answer) ==
  /\ [to |-> "shutdown", f |-> f, answer |-> answer] \in due
  /\ due' = due \ {[to |-> "shutdown", f |-> f, answer |-> answer]}
  /\ quit' = IF answer = "ok" THEN quit \ {f} ELSE {}
  /\ UNCHANGED store /\ UNCHANGED <<ops, op, keeper, batch, server, sent, exits, lost>>

(* What the process held is gone; rows, the file and children stay. *)
ProcessEnds ==
  /\ server' = "down" /\ exits' = exits + 1 /\ quit' = {}
  /\ Kill({t \in Tunnels : tunnel[t].of \in Builtin})
  /\ managed' = [f \in Forwards |-> 0]
  /\ ops' = [f \in Forwards |-> <<>>]
  /\ op' = [f \in Forwards |-> NoOp]
  /\ due' = {}
  /\ lost' = lost \cup {op[f].child : f \in {g \in Forwards : op[g].step = "watching"}}
  /\ keeper' = Resting /\ batch' = NoBatch
  /\ UNCHANGED <<row, restoreFile, opened, sent>>

Exit == Idle /\ server = "stopping" /\ quit = {} /\ ProcessEnds
Crash == server # "down" /\ exits < MaxExits /\ ProcessEnds

(* The migration at startup: a built-in forward cannot be running. *)
Booted(f) ==
  IF row[f].there /\ row[f].pid = 0 /\ row[f].status = "running"
  THEN [row[f] EXCEPT !.status = "stopped"] ELSE row[f]
Boot ==
  /\ server = "down"
  /\ server' = "up"
  /\ row' = [f \in Forwards |-> Booted(f)]
  /\ keeper' = [Resting EXCEPT !.mode = "auto", !.step = "tick"]
  /\ UNCHANGED <<restoreFile, managed, tunnel, opened>> /\ UNCHANGED queues
  /\ UNCHANGED <<batch, quit, sent, exits, lost>>

-----------------------------------------------------------------------------
OpStep(f) ==
  \/ BeginOp(f) \/ ManagedClosed(f)
  \/ PortFree(f) \/ PortOccupied(f) \/ PortCleaned(f) \/ PortFreed(f)
  \/ Untrusted(f) \/ OpenManaged(f) \/ OpenFails(f)
  \/ SpawnChild(f) \/ ChildRuns(f) \/ ChildExited(f)
Answered(f) ==
  \E answer \in Answers :
    RowDeleted(f, answer) \/ BatchAnswered(f, answer) \/ KeeperAnswered(f, answer) \/ StopAnswered(f, answer)
KeeperStep ==
  \/ AutostartBegins \/ RestoreBegins \/ MonitorTicks \/ KeeperRow \/ KeeperRowsEnd
FUser == UserStartsAll \/ \E f \in Forwards : UserStarts(f) \/ UserStops(f) \/ UserEdits(f) \/ UserDeletes(f)
Process == ShutdownBegins \/ StopsAll \/ Exit \/ Crash \/ Boot

FNext ==
  \/ \E f \in Forwards : OpStep(f) \/ Answered(f) \/ OnClose(f) \/ OnError(f)
  \/ \E t \in Tunnels : TunnelDies(t)
  \/ KeeperStep \/ FUser \/ Process

FSafety == FInit /\ [][FNext]_fvars

(* Every await in an operation is bounded by a timer or by the socket's own *)
(* end, the monitor's interval goes on, and continuations run.              *)
FFairness ==
  /\ \A f \in Forwards : SF_fvars(OpStep(f)) /\ WF_fvars(Answered(f))
  /\ WF_fvars(KeeperStep)
FSpec == FSafety /\ FFairness

-----------------------------------------------------------------------------
(* Properties. *)

FTypeOK ==
  /\ row \in [Forwards -> [there : BOOLEAN, status : Statuses, restore : BOOLEAN, pid : 0..opened, config : Configs]]
  /\ managed \in [Forwards -> 0..opened] /\ opened \in 0..MaxTunnels
  /\ tunnel \in [Tunnels -> [of : Forwards, config : Configs, up : BOOLEAN]]
  /\ op \in [Forwards -> [step : Steps, again : BOOLEAN, clean : BOOLEAN, config : Configs, child : 0..opened]]
  /\ \A f \in Forwards :
       /\ ops[f] = <<>> => op[f] = NoOp
       /\ ops[f] \in Seq([kind : {"start", "stop", "edit"}, by : Callers, clean : BOOLEAN,
                          config : Configs, before : Configs])
  /\ due \subseteq [to : Callers \ {"user"}, f : Forwards, answer : Answers]
  /\ keeper.step \in {"idle", "tick", "rows", "awaits", "batch"} /\ keeper.mode \in {"auto", "restore", "watch"}
  /\ batch.step \in {"idle", "stopping", "starting"} /\ batch.stops \subseteq Forwards
  /\ server \in {"down", "up", "closing", "stopping"} /\ quit \subseteq Forwards
  /\ restoreFile \in BOOLEAN /\ sent \in 0..MaxRequests /\ exits \in 0..(2 * MaxExits)

(* No tunnel is left behind: whatever was queued, failed, rolled back or    *)
(* reconnected, a tunnel that is up is in the map, in its row, or in the    *)
(* hands of the operation that opens or closes it.  Excepted are forwards   *)
(* deleted while a start was queued and children the process's end overtook.*)
TunnelsKnown ==
  \A t \in Tunnels :
    LET f == tunnel[t].of IN
    t \in 1..opened /\ tunnel[t].up /\ row[f].there /\ t \notin lost
      => t \in {managed[f], row[f].pid, op[f].child}

(* A tunnel runs the configuration its row shows: an edit takes effect, is  *)
(* rolled back, or the forward is down.  (One that has reported an error    *)
(* and not closed yet is shown as failed, and an edit does not touch it.)   *)
TunnelRunsItsRow ==
  \A f \in Rows : op[f].step # "closing" =>
    /\ managed[f] # 0 /\ row[f].status # "failed" => tunnel[managed[f]].config = row[f].config
    /\ row[f].pid # 0 => tunnel[row[f].pid].config = row[f].config

(* What runs will be restored: a stop, a failure or a batch of another      *)
(* forward never takes a running one off the restore list.                  *)
RunningIsRestored == \A f \in Rows : Running(f) => row[f].restore /\ restoreFile

(* The monitor does not give up: a forward that is wanted and down is tried *)
(* again, and what was asked of a forward settles.                          *)
Tried(f) == Running(f) \/ ops[f] # <<>> \/ ~row[f].there \/ ~row[f].restore \/ server # "up"
RetriesGoOn ==
  \A f \in Forwards :
    /\ (row[f].restore ~> Tried(f))
    /\ (ops[f] # <<>> ~> ops[f] = <<>>)

(* Forwards are started and stopped independently: what starts by itself    *)
(* was running when it was last heard of, and was not stopped since.        *)
StartedByItself(f) ==
  /\ ops[f] # <<>>
  /\ Head(ops[f]).by = "keeper" \/ (Head(ops[f]).by = "batch" /\ batch.by = "keeper")
StopIsFinal ==
  [][\A f \in Rows : StartedByItself(f) /\ opened' > opened /\ op'[f] # op[f] => row[f].restore]_fvars

(* An edit that does not start brings the previous configuration back.      *)
EditsKnowPrevious ==
  \A f \in Rows :
    ops[f] # <<>> /\ Head(ops[f]).kind = "edit" /\ op[f].step = "idle" => Head(ops[f]).before = row[f].config

(* A tunnel belongs to a forward that exists. *)
NoTunnelWithoutRow == \A t \in 1..opened : tunnel[t].up => row[tunnel[t].of].there

(* A shutdown leaves no tunnel behind. *)
ShutdownStopsAll == [][server = "stopping" /\ server' = "down" => \A t \in Tunnels : ~tunnel'[t].up]_fvars
=============================================================================
