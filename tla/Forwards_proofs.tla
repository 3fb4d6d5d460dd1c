-------------------------- MODULE Forwards_proofs --------------------------
(***************************************************************************)
(* Proofs about the port forwards of a connection, for any number of       *)
(* forwards, requests, tunnels and exits: no tunnel is forgotten, a tunnel *)
(* runs the configuration its row shows, and what runs is on the restore   *)
(* list.                                                                   *)
(***************************************************************************)
EXTENDS Forwards, SequenceTheorems, TLAPS

RowRecords ==
  [there : BOOLEAN, status : Statuses, restore : BOOLEAN, pid : 0..opened, config : Configs]
OrderRecords ==
  [kind : {"start", "stop", "edit"}, by : Callers, clean : BOOLEAN, config : Configs, before : Configs]
OpRecords ==
  [step : Steps, again : BOOLEAN, clean : BOOLEAN, config : Configs, child : 0..opened]
TunnelRecords == [of : Forwards, config : Configs, up : BOOLEAN]
DueRecords == [to : Callers \ {"user"}, f : Forwards, answer : Answers]

StoreTyped ==
  /\ row \in [Forwards -> RowRecords]
  /\ restoreFile \in BOOLEAN
  /\ managed \in [Forwards -> 0..opened]
  /\ tunnel \in [Tunnels -> TunnelRecords]
  /\ opened \in 0..MaxTunnels
QueuesTyped ==
  /\ ops \in [Forwards -> Seq(OrderRecords)]
  /\ op \in [Forwards -> OpRecords]
  /\ \A f \in Forwards : ops[f] = <<>> => op[f] = NoOp
  /\ due \subseteq DueRecords
(* What the keeper and a batch go through needs no type: an order for what  *)
(* is not a forward is queued nowhere.                                      *)
KeeperTyped ==
  keeper \in [step : {"idle", "tick", "rows", "awaits", "batch"}, mode : {"auto", "restore", "watch"},
              rows : {keeper.rows}]
BatchTyped ==
  batch \in [step : {"idle", "stopping", "starting"}, by : {batch.by}, clean : BOOLEAN, left : {batch.left},
             stops : SUBSET Forwards, failed : BOOLEAN]
ServerTyped ==
  /\ server \in {"down", "up", "closing", "stopping"}
  /\ quit \subseteq Forwards
  /\ sent \in 0..MaxRequests
  /\ exits \in 0..MaxExits
  /\ server \in {"closing", "stopping"} => exits < MaxExits
TasksTyped == KeeperTyped /\ BatchTyped /\ ServerTyped
Types == StoreTyped /\ QueuesTyped /\ TasksTyped

(* The operations on one forward run one at a time, and only on a forward   *)
(* that is down.                                                            *)
Serial(f) ==
  /\ op[f].step = "idle" => op[f] = NoOp
  /\ op[f].step # "idle" => managed[f] = 0 /\ (row[f].there => row[f].pid = 0)
  /\ op[f].step \notin {"closing", "watching"} => op[f].child = 0
  /\ op[f].step = "watching" => op[f].child # 0
(* A forward is carried by the built-in client or by a child, never both.   *)
Carried(f) ==
  /\ f \in Builtin => row[f].pid = 0 /\ op[f].step # "watching"
  /\ f \notin Builtin => managed[f] = 0 /\ op[f].step # "closing"
(* A start runs with the configuration of the row, and so does its tunnel.  *)
Shown(f) ==
  row[f].there =>
    /\ op[f].step \in {"probing", "freeing", "opening", "watching"} => op[f].config = row[f].config
    /\ op[f].step = "closing" /\ Head(ops[f]).kind # "edit" => op[f].config = row[f].config
    /\ op[f].step = "watching" => tunnel[op[f].child].config = op[f].config
    /\ managed[f] # 0 => row[f].status \in {"running", "failed"}
    /\ managed[f] # 0 /\ row[f].status # "failed" => tunnel[managed[f]].config = row[f].config
    /\ row[f].pid # 0 => tunnel[row[f].pid].config = row[f].config
Listed(f) == row[f].there /\ Running(f) => row[f].restore /\ restoreFile
Known(f) ==
  \A t \in 1..opened :
    tunnel[t].of = f /\ tunnel[t].up /\ row[f].there /\ t \notin lost
      => t \in {managed[f], row[f].pid, op[f].child}
(* Who waits for a start that failed finds no child in the row.             *)
NoPid(f) == \A d \in due : d.f = f /\ d.answer # "ok" /\ row[f].there => row[f].pid = 0
Sound(f) == Serial(f) /\ Carried(f) /\ Shown(f) /\ Listed(f) /\ Known(f) /\ NoPid(f)
AllSound == \A f \in Forwards : Sound(f)
(* The map of built-in tunnels dies with the process.                       *)
Down == server = "down" => managed = [f \in Forwards |-> 0]

FInv == Types /\ AllSound /\ Down

-----------------------------------------------------------------------------
(* Types of the parts of a step. *)

LEMMA Constants ==
  /\ LastForward \in Nat \ {0} /\ MaxRequests \in Nat /\ MaxTunnels \in Nat /\ MaxExits \in Nat
  /\ Builtin \subseteq Forwards /\ Listening \subseteq Forwards /\ Autostart \in BOOLEAN
  /\ 0 \in Configs /\ 1 \in Forwards
BY ForwardsAssumption DEF Configs, Forwards

LEMMA NoOpTyped == opened \in Nat => NoOp \in OpRecords
BY Constants DEF NoOp, OpRecords, Steps

LEMMA InitInv == FInit => FInv
<1> SUFFICES ASSUME FInit PROVE FInv
  OBVIOUS
<1>1. StoreTyped
  <2>1. opened = 0 /\ 0 \in 0..opened
    BY DEF FInit
  <2>2. [there |-> TRUE, status |-> "stopped", restore |-> FALSE, pid |-> 0, config |-> 0] \in RowRecords
    BY <2>1, Constants DEF RowRecords, Statuses
  <2>3. [of |-> 1, config |-> 0, up |-> FALSE] \in TunnelRecords
    BY Constants DEF TunnelRecords
  <2>4. row \in [Forwards -> RowRecords] /\ tunnel \in [Tunnels -> TunnelRecords]
    BY <2>2, <2>3, Zenon DEF FInit
  <2>5. managed \in [Forwards -> 0..opened]
    BY <2>1, Zenon DEF FInit
  <2>6. restoreFile \in BOOLEAN
    BY Zenon DEF FInit
  <2>7. opened \in 0..MaxTunnels
    BY <2>1, Constants
  <2> QED
    BY <2>4, <2>5, <2>6, <2>7 DEF StoreTyped
<1>2. QueuesTyped
  BY Constants, NoOpTyped DEF FInit, QueuesTyped
<1>3. TasksTyped
  BY Constants DEF FInit, TasksTyped, KeeperTyped, BatchTyped, ServerTyped, Resting, NoBatch
<1>4. ASSUME NEW f \in Forwards PROVE Sound(f)
  BY <1>4, Constants DEF FInit, Sound, Serial, Carried, Shown, Listed, Running, Alive, Known, NoPid, NoOp
<1>5. Down
  BY DEF FInit, Down
<1> QED
  BY <1>1, <1>2, <1>3, <1>4, <1>5 DEF FInv, Types, AllSound

(* More tunnels leave every number of a tunnel one. *)
LEMMA RecordsGrow ==
  ASSUME opened \in Nat, opened' \in Nat, opened <= opened'
  PROVE  RowRecords \subseteq RowRecords' /\ OpRecords \subseteq OpRecords' /\ 0..opened \subseteq 0..opened'
BY DEF RowRecords, OpRecords, Configs

LEMMA OrdersTyped ==
  /\ \A by \in Callers : Stop(by) \in OrderRecords
  /\ \A by \in Callers : \A clean \in BOOLEAN : Start(by, clean) \in OrderRecords
  /\ sent < MaxRequests /\ sent \in 0..MaxRequests =>
       \A config \in Configs : Order("edit", "user", FALSE, sent + 1, config) \in OrderRecords
BY Constants DEF Stop, Start, Order, OrderRecords, Configs, Callers

(* The order an operation works on. *)
LEMMA HeadTyped ==
  ASSUME QueuesTyped, NEW f \in Forwards, op[f].step # "idle" \/ ops[f] # <<>>
  PROVE  ops[f] # <<>> /\ Head(ops[f]) \in OrderRecords
<1>1. ops[f] # <<>>
  BY DEF QueuesTyped, NoOp
<1>2. ops[f] \in Seq(OrderRecords)
  BY DEF QueuesTyped
<1> QED
  BY <1>1, <1>2

LEMMA SettlesTyped ==
  ASSUME QueuesTyped, NEW f \in Forwards, NEW answer \in Answers, ops[f] # <<>>, Settles(f, answer),
         opened \in Nat, opened' \in Nat, opened <= opened'
  PROVE  QueuesTyped'
<1>1. ops' \in [Forwards -> Seq(OrderRecords)]
  BY DEF QueuesTyped, Settles
<1>2. op' \in [Forwards -> OpRecords'] /\ op'[f] = NoOp
  BY RecordsGrow, NoOpTyped DEF QueuesTyped, Settles
<1>3. ASSUME NEW g \in Forwards, ops'[g] = <<>> PROVE op'[g] = NoOp
  <2>1. CASE g = f
    BY <2>1, <1>2
  <2>2. CASE g # f
    BY <2>2, <1>3 DEF QueuesTyped, Settles
  <2> QED
    BY <2>1, <2>2
<1>4. due' \subseteq DueRecords
  <2>1. Head(ops[f]) \in OrderRecords
    BY HeadTyped
  <2>2. Head(ops[f]).by # "user" => [to |-> Head(ops[f]).by, f |-> f, answer |-> answer] \in DueRecords
    BY <2>1 DEF DueRecords, OrderRecords
  <2> QED
    BY <2>2 DEF QueuesTyped, Settles
<1>5. OrderRecords' = OrderRecords /\ DueRecords' = DueRecords
  BY DEF OrderRecords, DueRecords
<1> QED
  BY <1>1, <1>2, <1>3, <1>4, <1>5 DEF QueuesTyped

LEMMA GoesOnTyped ==
  ASSUME QueuesTyped, NEW f \in Forwards, NEW o, o \in OpRecords', ops[f] # <<>>, GoesOn(f, o),
         opened \in Nat, opened' \in Nat, opened <= opened'
  PROVE  QueuesTyped'
<1>1. op' \in [Forwards -> OpRecords']
  BY RecordsGrow DEF QueuesTyped, GoesOn
<1>2. ASSUME NEW g \in Forwards, ops'[g] = <<>> PROVE op'[g] = NoOp
  BY <1>2 DEF QueuesTyped, GoesOn
<1> QED
  BY <1>1, <1>2 DEF QueuesTyped, GoesOn, OrderRecords, DueRecords

(* Orders are appended: the operations that run go on. *)
LEMMA EnqueueTyped ==
  ASSUME QueuesTyped, NEW f, NEW r \in OrderRecords, Enqueue(f, r), UNCHANGED <<op, opened>>, due' \subseteq due
  PROVE  /\ QueuesTyped'
         /\ \A g \in Forwards : ops[g] # <<>> => ops'[g] # <<>> /\ Head(ops'[g]) = Head(ops[g])
<1>1. ASSUME NEW g \in Forwards
      PROVE  /\ ops'[g] \in Seq(OrderRecords)
             /\ ops[g] # <<>> => ops'[g] # <<>> /\ Head(ops'[g]) = Head(ops[g])
             /\ ops'[g] = <<>> => ops[g] = <<>>
  <2>1. ops[g] \in Seq(OrderRecords)
    BY DEF QueuesTyped
  <2>2. ops'[g] = ops[g] \/ ops'[g] = Append(ops[g], r)
    BY DEF QueuesTyped, Enqueue
  <2>3. Append(ops[g], r) \in Seq(OrderRecords) /\ Append(ops[g], r) # <<>>
    BY <2>1, AppendProperties
  <2>4. ops[g] # <<>> => Head(Append(ops[g], r)) = Head(ops[g])
    BY <2>1, AppendProperties, HeadTailProperties
  <2> QED
    BY <2>1, <2>2, <2>3, <2>4, Zenon
<1>2. ops' \in [Forwards -> Seq(OrderRecords)]
  BY <1>1 DEF QueuesTyped, Enqueue
<1> QED
  BY <1>1, <1>2 DEF QueuesTyped, OrderRecords, DueRecords, OpRecords

LEMMA EnqueueAllTyped ==
  ASSUME QueuesTyped, NEW fs, NEW r \in OrderRecords, EnqueueAll(fs, r), UNCHANGED <<op, opened>>, due' \subseteq due
  PROVE  /\ QueuesTyped'
         /\ \A g \in Forwards : ops[g] # <<>> => ops'[g] # <<>> /\ Head(ops'[g]) = Head(ops[g])
<1>1. ASSUME NEW g \in Forwards
      PROVE  /\ ops'[g] \in Seq(OrderRecords)
             /\ ops[g] # <<>> => ops'[g] # <<>> /\ Head(ops'[g]) = Head(ops[g])
             /\ ops'[g] = <<>> => ops[g] = <<>>
  <2>1. ops[g] \in Seq(OrderRecords)
    BY DEF QueuesTyped
  <2>2. ops'[g] = ops[g] \/ ops'[g] = Append(ops[g], r)
    BY DEF QueuesTyped, EnqueueAll
  <2>3. Append(ops[g], r) \in Seq(OrderRecords) /\ Append(ops[g], r) # <<>>
    BY <2>1, AppendProperties
  <2>4. ops[g] # <<>> => Head(Append(ops[g], r)) = Head(ops[g])
    BY <2>1, AppendProperties, HeadTailProperties
  <2> QED
    BY <2>1, <2>2, <2>3, <2>4, Zenon
<1>2. ops' \in [Forwards -> Seq(OrderRecords)]
  BY <1>1, Zenon DEF EnqueueAll
<1> QED
  BY <1>1, <1>2 DEF QueuesTyped, OrderRecords, DueRecords, OpRecords

-----------------------------------------------------------------------------
(* What a step may do to a forward that is not the one it works on. *)

TunnelsAge ==
  /\ opened <= opened'
  /\ \A t \in 1..opened :
       tunnel'[t].of = tunnel[t].of /\ tunnel'[t].config = tunnel[t].config /\ (tunnel'[t].up => tunnel[t].up)
Untouched(g) ==
  /\ row'[g] = row[g] /\ managed'[g] = managed[g] /\ op'[g] = op[g]
  /\ op[g].step # "idle" => Head(ops'[g]) = Head(ops[g])
  /\ \A t \in 1..opened' : t > opened => tunnel'[t].of # g
  /\ \A d \in due' : d.f = g /\ d.answer # "ok" => d \in due
  /\ row[g].there /\ Running(g) /\ restoreFile => restoreFile'

LEMMA UntouchedStaysSound ==
  ASSUME Types, StoreTyped', NEW g \in Forwards, Sound(g), TunnelsAge, lost \subseteq lost', Untouched(g)
  PROVE  Sound(g)'
<1>1. opened \in Nat /\ opened' \in Nat /\ opened <= opened'
  BY DEF Types, StoreTyped, TunnelsAge
<1>2. row[g] \in RowRecords /\ managed[g] \in 0..opened /\ op[g] \in OpRecords
  BY DEF Types, StoreTyped, QueuesTyped
<1>3. row[g].pid \in 0..opened /\ op[g].child \in 0..opened
  BY <1>2 DEF RowRecords, OpRecords
<1>4. /\ managed[g] # 0 => tunnel'[managed[g]].config = tunnel[managed[g]].config
      /\ row[g].pid # 0 => tunnel'[row[g].pid].config = tunnel[row[g].pid].config
      /\ row[g].pid # 0 /\ tunnel'[row[g].pid].up => tunnel[row[g].pid].up
      /\ op[g].child # 0 => tunnel'[op[g].child].config = tunnel[op[g].child].config
  BY <1>1, <1>2, <1>3 DEF TunnelsAge
<1>5. Serial(g)' /\ Carried(g)'
  BY DEF Sound, Serial, Carried, Untouched
<1>6. Shown(g)'
  BY <1>4, Zenon DEF Sound, Serial, Shown, Untouched
<1>7. Listed(g)'
  BY <1>4 DEF Sound, Listed, Untouched, Running, Alive
<1>8. Known(g)'
  <2> SUFFICES ASSUME NEW t \in 1..opened', tunnel'[t].of = g, tunnel'[t].up, row'[g].there, t \notin lost'
               PROVE  t \in {managed'[g], row'[g].pid, op'[g].child}
    BY DEF Known
  <2>1. t \in 1..opened
    BY <1>1 DEF Untouched
  <2> QED
    BY <2>1 DEF Sound, Known, Untouched, TunnelsAge
<1>9. NoPid(g)'
  BY DEF Sound, NoPid, Untouched
<1> QED
  BY <1>5, <1>6, <1>7, <1>8, <1>9 DEF Sound

LEMMA SameTunnelsAge ==
  ASSUME StoreTyped, UNCHANGED <<tunnel, opened>>
  PROVE  TunnelsAge
BY DEF TunnelsAge, StoreTyped

LEMMA KilledAge ==
  ASSUME StoreTyped, NEW ts, Kill(ts), opened' = opened
  PROVE  /\ TunnelsAge
         /\ tunnel' \in [Tunnels -> TunnelRecords]
         /\ \A t \in 1..opened : t \in ts => ~tunnel'[t].up
<1>1. 1..opened \subseteq Tunnels
  BY Constants DEF StoreTyped, Tunnels
<1>2. ASSUME NEW t \in Tunnels
      PROVE  /\ tunnel'[t] = [tunnel[t] EXCEPT !.up = @ /\ t \notin ts]
             /\ tunnel[t] \in TunnelRecords
  BY DEF Kill, StoreTyped
<1>3. ASSUME NEW t \in Tunnels
      PROVE  /\ tunnel'[t].of = tunnel[t].of /\ tunnel'[t].config = tunnel[t].config
             /\ tunnel'[t] \in TunnelRecords
             /\ tunnel'[t].up => tunnel[t].up /\ t \notin ts
  BY <1>2, <1>3 DEF TunnelRecords
<1>4. tunnel' \in [Tunnels -> TunnelRecords]
  BY <1>3, Zenon DEF Kill
<1>5. opened <= opened'
  BY DEF StoreTyped
<1> QED
  BY <1>1, <1>3, <1>4, <1>5, Zenon DEF TunnelsAge

LEMMA OpensAge ==
  ASSUME StoreTyped, QueuesTyped, NEW f \in Forwards, NEW t, Opens(f, t)
  PROVE  /\ TunnelsAge
         /\ tunnel' \in [Tunnels -> TunnelRecords]
         /\ opened' = opened + 1 /\ opened' \in 0..MaxTunnels /\ t = opened'
         /\ tunnel'[t].of = f /\ tunnel'[t].config = op[f].config /\ tunnel'[t].up
         /\ \A g \in Forwards : g # f => \A u \in 1..opened' : u > opened => tunnel'[u].of # g
<1>1. opened \in Nat /\ opened' = opened + 1 /\ t = opened' /\ t \in Tunnels /\ 1..opened \subseteq Tunnels
  BY Constants DEF StoreTyped, Opens, Tunnels
<1>2. [of |-> f, config |-> op[f].config, up |-> TRUE] \in TunnelRecords
  BY DEF QueuesTyped, OpRecords, TunnelRecords
<1>3. tunnel' = [tunnel EXCEPT ![t] = [of |-> f, config |-> op[f].config, up |-> TRUE]]
  BY DEF Opens
<1>4. tunnel' \in [Tunnels -> TunnelRecords]
  BY <1>2, <1>3 DEF StoreTyped
<1>5. /\ tunnel'[t] = [of |-> f, config |-> op[f].config, up |-> TRUE]
      /\ \A u \in 1..opened : tunnel'[u] = tunnel[u]
  BY <1>1, <1>3 DEF StoreTyped
<1>6. \A u \in 1..opened' : u > opened => u = t
  BY <1>1
<1>7. opened' \in 0..MaxTunnels
  BY <1>1, Constants DEF Tunnels
<1>8. TunnelsAge
  BY <1>1, <1>5 DEF TunnelsAge
<1> QED
  BY <1>1, <1>4, <1>5, <1>6, <1>7, <1>8

-----------------------------------------------------------------------------
(* What a step may do to the forward it works on. *)

StepOf(f) ==
  /\ StoreTyped' /\ QueuesTyped' /\ TunnelsAge /\ Sound(f)'
  /\ \A g \in Forwards : g # f => Untouched(g)

(* A forward none of whose tunnels is up: nothing runs but its operation.   *)
NoneUp(f) == row[f].there => \A t \in 1..opened : tunnel[t].of = f /\ tunnel[t].up => t \in lost
AtRest(f) ==
  /\ row[f].there => row[f].pid = 0
  /\ f \in Builtin => row[f].pid = 0
  /\ managed[f] = 0
  /\ NoneUp(f)
OpRests(f) ==
  /\ op[f] = NoOp \/ op[f].step \in {"probing", "freeing", "opening"}
  /\ op[f].child = 0
  /\ op[f].step # "idle" /\ row[f].there => op[f].config = row[f].config

LEMMA RestIsSound ==
  ASSUME NEW f \in Forwards, AtRest(f)', OpRests(f)'
  PROVE  Sound(f)'
<1>1. op'[f].step \notin {"closing", "watching"} /\ (op'[f].step = "idle" => op'[f] = NoOp)
  BY DEF OpRests, NoOp
<1>2. Serial(f)' /\ Carried(f)'
  BY <1>1 DEF Serial, Carried, AtRest, OpRests
<1>3. Shown(f)' /\ NoPid(f)'
  BY <1>1 DEF Shown, NoPid, AtRest, OpRests
<1>4. Listed(f)'
  BY DEF Listed, Running, Alive, AtRest
<1>5. Known(f)'
  BY DEF Known, AtRest, NoneUp
<1> QED
  BY <1>2, <1>3, <1>4, <1>5 DEF Sound

(* An operation that neither opens nor closes a tunnel holds none, and its  *)
(* forward is at rest.                                                      *)
LEMMA BusyIsAtRest ==
  ASSUME Types, NEW f \in Forwards, Sound(f), op[f].step \in {"probing", "freeing", "opening"}
  PROVE  AtRest(f) /\ OpRests(f)
<1>1. op[f].child = 0 /\ managed[f] = 0 /\ (row[f].there => row[f].pid = 0)
  BY DEF Sound, Serial
<1>3. 0 \notin 1..opened
  OBVIOUS
<1>4. NoneUp(f)
  BY <1>1, <1>3 DEF NoneUp, Sound, Known
<1> QED
  BY <1>1, <1>4 DEF AtRest, OpRests, Sound, Carried, Shown

LEMMA RowSet ==
  ASSUME StoreTyped, NEW f \in Forwards, NEW r, row' = [row EXCEPT ![f] = r], r \in RowRecords',
         opened \in Nat, opened' \in Nat, opened <= opened'
  PROVE  row' \in [Forwards -> RowRecords'] /\ row'[f] = r /\ \A g \in Forwards : g # f => row'[g] = row[g]
BY RecordsGrow DEF StoreTyped

(* What a step of the queue of f does to the other queues. *)
QueueOf(f) ==
  \A g \in Forwards : g # f =>
    ops'[g] = ops[g] /\ op'[g] = op[g] /\ \A d \in due' : d.f = g => d \in due

LEMMA SettlesEffect ==
  ASSUME QueuesTyped, NEW f \in Forwards, NEW answer, Settles(f, answer)
  PROVE  /\ op'[f] = NoOp /\ QueueOf(f)
         /\ \A d \in due' : d \in due \/ (d.f = f /\ d.answer = answer)
<1>1. op'[f] = NoOp
  BY DEF Settles, QueuesTyped
<1>2. \A d \in due' : d \in due \/ (d.f = f /\ d.answer = answer)
  BY DEF Settles
<1>3. \A g \in Forwards : g # f => ops'[g] = ops[g] /\ op'[g] = op[g]
  BY DEF Settles, QueuesTyped
<1> QED
  BY <1>1, <1>2, <1>3 DEF QueueOf

LEMMA GoesOnEffect ==
  ASSUME QueuesTyped, NEW f \in Forwards, NEW o, GoesOn(f, o)
  PROVE  op'[f] = o /\ QueueOf(f) /\ ops' = ops /\ due' = due
BY DEF GoesOn, QueueOf, QueuesTyped

LEMMA ProbesEffect ==
  ASSUME QueuesTyped, NEW f \in Forwards, NEW again \in BOOLEAN, NEW clean \in BOOLEAN, NEW config \in Configs,
         Probes(f, again, clean, config), ops[f] # <<>>, opened \in Nat, opened' = opened
  PROVE  /\ QueuesTyped'
         /\ op'[f].step \in {"probing", "opening"} /\ op'[f].child = 0 /\ op'[f].config = config
         /\ QueueOf(f)
<1> DEFINE s == IF f \in Listening THEN "probing" ELSE "opening"
           o == [NoOp EXCEPT !.step = s, !.again = again, !.clean = clean, !.config = config]
<1>1. GoesOn(f, o)
  BY DEF Probes
<1>2. s \in {"probing", "opening"}
  OBVIOUS
<1>3. o \in OpRecords /\ o.step \in {"probing", "opening"} /\ o.child = 0 /\ o.config = config
  <2> HIDE DEF s
  <2>1. o.step \in {"probing", "opening"} /\ o.child = 0 /\ o.config = config
    BY <1>2 DEF NoOp
  <2>2. o \in OpRecords
    BY <1>2, NoOpTyped DEF OpRecords, Steps
  <2> QED
    BY <2>1, <2>2
<1> HIDE DEF o
<1>4. o \in OpRecords'
  BY <1>3 DEF OpRecords
<1>5. QueuesTyped'
  BY <1>1, <1>4, GoesOnTyped
<1> QED
  BY <1>1, <1>3, <1>5, GoesOnEffect

(* A start that throws, of a forward at rest, leaves it at rest. *)
LEMMA ThrowsIsSound ==
  ASSUME Types, NEW f \in Forwards, NEW answer \in Answers, NEW r \in RowRecords, Throws(f, answer, r),
         op[f].step # "idle", AtRest(f), r.there = row[f].there, r.there => r.pid = 0, f \in Builtin => r.pid = 0,
         UNCHANGED <<restoreFile, managed, tunnel, opened>>, UNCHANGED tasks
  PROVE  StepOf(f)
<1> DEFINE e == Head(ops[f])
<1>1. ops[f] # <<>> /\ e \in OrderRecords
  BY HeadTyped DEF Types
<1>2. opened \in Nat /\ opened' = opened /\ RowRecords' = RowRecords
  BY DEF Types, StoreTyped, RowRecords
<1>3. \E x \in RowRecords :
        /\ row' = [row EXCEPT ![f] = x] /\ x.there = r.there /\ (x.there => x.pid = 0) /\ (f \in Builtin => x.pid = 0)
        /\ QueuesTyped' /\ QueueOf(f) /\ op'[f].child = 0
        /\ \/ op'[f] = NoOp
           \/ op'[f].step \in {"probing", "opening"} /\ op'[f].config = x.config
  <2>1. CASE e.kind = "edit" /\ ~op[f].again /\ row[f].there
    <3> DEFINE x == Restored(r, e.before)
    <3>1. e.before \in Configs
      BY <1>1 DEF OrderRecords
    <3>2. x \in RowRecords /\ x.there = r.there /\ x.pid = r.pid /\ x.config = e.before
      <4> HIDE DEF e
      <4> QED
        BY <3>1 DEF Restored, RowRecords, Statuses
    <3>3. row' = [row EXCEPT ![f] = x] /\ Probes(f, TRUE, FALSE, e.before)
      BY <2>1 DEF Throws
    <3> HIDE DEF x, e
    <3>4. /\ QueuesTyped'
          /\ op'[f].step \in {"probing", "opening"} /\ op'[f].child = 0 /\ op'[f].config = e.before
          /\ QueueOf(f)
      BY <1>1, <1>2, <3>1, <3>3, ProbesEffect DEF Types
    <3>5. x.there => x.pid = 0
      BY <3>2, Zenon
    <3>6. f \in Builtin => x.pid = 0
      BY <3>2, Zenon
    <3> QED
      BY <3>2, <3>3, <3>4, <3>5, <3>6, Zenon
  <2>2. CASE ~(e.kind = "edit" /\ ~op[f].again /\ row[f].there)
    <3>1. row' = [row EXCEPT ![f] = r] /\ Settles(f, answer)
      BY <2>2 DEF Throws
    <3>2. op'[f] = NoOp /\ QueueOf(f)
      BY <3>1, SettlesEffect DEF Types
    <3>3. QueuesTyped'
      BY <3>1, <1>1, <1>2, SettlesTyped DEF Types
    <3>4. op'[f].child = 0
      BY <3>2 DEF NoOp
    <3> HIDE DEF e
    <3> QED
      BY <3>1, <3>2, <3>3, <3>4, Zenon
  <2> QED
    BY <2>1, <2>2
<1>4. PICK x \in RowRecords :
        /\ row' = [row EXCEPT ![f] = x] /\ x.there = r.there /\ (x.there => x.pid = 0) /\ (f \in Builtin => x.pid = 0)
        /\ QueuesTyped' /\ QueueOf(f) /\ op'[f].child = 0
        /\ \/ op'[f] = NoOp
           \/ op'[f].step \in {"probing", "opening"} /\ op'[f].config = x.config
  BY <1>3
<1>5. row' \in [Forwards -> RowRecords'] /\ row'[f] = x /\ \A g \in Forwards : g # f => row'[g] = row[g]
  <2>1. x \in RowRecords'
    BY <1>2
  <2>2. row' = [row EXCEPT ![f] = x]
    BY <1>4
  <2>3. opened <= opened'
    BY <1>2
  <2> QED
    BY <1>2, <2>1, <2>2, <2>3, RowSet, Zenon DEF Types
<1>6. StoreTyped'
  BY <1>2, <1>5 DEF Types, StoreTyped, TunnelRecords
<1>7. AtRest(f)'
  BY <1>2, <1>4, <1>5 DEF AtRest, NoneUp, tasks
<1>8. OpRests(f)'
  BY <1>4, <1>5 DEF OpRests, NoOp
<1>9. TunnelsAge
  BY SameTunnelsAge DEF Types
<1>10. ASSUME NEW g \in Forwards, g # f PROVE Untouched(g)
  BY <1>2, <1>4, <1>5, <1>10 DEF Untouched, QueueOf, Running
<1>11. Sound(f)'
  BY <1>7, <1>8, RestIsSound
<1> QED
  BY <1>4, <1>6, <1>9, <1>10, <1>11 DEF StepOf

(* The row a stop leaves. *)
Stopped(f, config) ==
  LET r == Head(ops[f])
  IN  [row[f] EXCEPT !.status = "stopped", !.pid = 0, !.restore = @ /\ Preserves(r),
                     !.config = IF r.kind = "edit" THEN config ELSE @]

LEMMA StoppedTyped ==
  ASSUME Types, NEW f \in Forwards, NEW config \in Configs
  PROVE  /\ Stopped(f, config) \in RowRecords /\ Stopped(f, config).pid = 0
         /\ Stopped(f, config).there = row[f].there
         /\ Stopped(f, config).config = IF Head(ops[f]).kind = "edit" THEN config ELSE row[f].config
<1> DEFINE b == row[f].restore /\ Preserves(Head(ops[f]))
           c == IF Head(ops[f]).kind = "edit" THEN config ELSE row[f].config
<1>1. row[f] \in RowRecords /\ 0 \in 0..opened
  BY DEF Types, StoreTyped
<1>2. b \in BOOLEAN
  OBVIOUS
<1>3. c \in Configs
  BY <1>1 DEF RowRecords
<1>4. Stopped(f, config) = [row[f] EXCEPT !.status = "stopped", !.pid = 0, !.restore = b, !.config = c]
  BY DEF Stopped
<1> DEFINE q == row[f]
           s == Stopped(f, config)
<1>5. q \in RowRecords /\ s = [q EXCEPT !.status = "stopped", !.pid = 0, !.restore = b, !.config = c]
  BY <1>1, <1>4
<1> HIDE DEF b, c, q, s
<1>6. s \in RowRecords /\ s.pid = 0 /\ s.there = q.there /\ s.config = c
  BY <1>1, <1>2, <1>3, <1>5 DEF RowRecords, Statuses
<1> QED
  BY <1>6 DEF c, q, s

Halted(f, again, config, killed) ==
  LET r == Head(ops[f]) IN
  /\ Kill(killed)
  /\ SetRow(f, Stopped(f, config))
  /\ restoreFile' = (restoreFile /\ (Preserves(r) \/ OthersRun(f)))
  /\ CASE r.kind = "stop" -> Settles(f, "ok")
       [] r.kind = "edit" /\ ~row[f].there -> Settles(f, "gone")
       [] OTHER -> Probes(f, again, r.clean, config)
HaltsWith(f, again, wanted, killed) ==
  Halted(f, again, IF again THEN row[f].config ELSE wanted, killed)

(* A stop, and what a start or an edit goes on with. *)
LEMMA HaltIsSound ==
  ASSUME Types, NEW f \in Forwards, Sound(f), NEW wanted \in Configs, NEW killed, Halt(f, wanted, killed),
         ops[f] # <<>>, op[f].step \in {"idle", "closing"}, managed[f] = 0,
         row[f].there => {row[f].pid, op[f].child} \ {0} \subseteq killed,
         row[f].there /\ Head(ops[f]).kind # "edit" => wanted = row[f].config,
         UNCHANGED <<managed, opened>>, UNCHANGED tasks
  PROVE  StepOf(f)
<1>0. PICK again \in {FALSE, Head(ops[f]).kind = "edit"} : HaltsWith(f, again, wanted, killed)
  BY DEF Halt, HaltsWith, Halted, Stopped
<1> DEFINE config == IF again THEN row[f].config ELSE wanted
<1>a. /\ again \in BOOLEAN /\ config \in Configs
      /\ row[f].there /\ Head(ops[f]).kind # "edit" => config = row[f].config
  BY DEF Types, StoreTyped, RowRecords
<1>b. Halted(f, again, config, killed)
  BY <1>0 DEF HaltsWith, Halted
<1> HIDE DEF config
<1> DEFINE r == Head(ops[f])
           x == IF row[f].there THEN Stopped(f, config) ELSE row[f]
<1>1. opened \in Nat /\ opened' = opened /\ RowRecords' = RowRecords /\ row[f] \in RowRecords
  BY DEF Types, StoreTyped, RowRecords
<1>2. r \in OrderRecords
  BY HeadTyped DEF Types
<1>3. /\ x \in RowRecords /\ x.there = row[f].there /\ (x.there => x.pid = 0) /\ (f \in Builtin => x.pid = 0)
      /\ x.there => x.config = IF r.kind = "edit" THEN config ELSE row[f].config
  BY <1>1, <1>a, StoppedTyped DEF Sound, Carried
<1>4. row' = [row EXCEPT ![f] = x]
  BY <1>b DEF Halted, SetRow
<1>5. Kill(killed) /\ restoreFile' = (restoreFile /\ (Preserves(r) \/ OthersRun(f)))
  BY <1>b DEF Halted
<1>6. \/ \E answer \in Answers : Settles(f, answer)
      \/ /\ Probes(f, again, r.clean, config)
         /\ row[f].there => config = IF r.kind = "edit" THEN config ELSE row[f].config
  <2>1. "ok" \in Answers /\ "gone" \in Answers
    BY DEF Answers
  <2> QED
    BY <1>a, <1>b, <2>1 DEF Halted
<1> HIDE DEF x
<1>7. row' \in [Forwards -> RowRecords'] /\ row'[f] = x /\ \A g \in Forwards : g # f => row'[g] = row[g]
  <2>1. x \in RowRecords' /\ opened <= opened'
    BY <1>1, <1>3
  <2> QED
    BY <1>1, <1>4, <2>1, RowSet, Zenon DEF Types
<1>8. /\ TunnelsAge
      /\ tunnel' \in [Tunnels -> TunnelRecords]
      /\ \A t \in 1..opened : t \in killed => ~tunnel'[t].up
  BY <1>1, <1>5, KilledAge DEF Types
<1>9. StoreTyped'
  <2>1. restoreFile' \in BOOLEAN
    BY <1>5
  <2> QED
    BY <1>1, <1>7, <1>8, <2>1 DEF Types, StoreTyped, TunnelRecords
<1>10. /\ QueuesTyped' /\ QueueOf(f)
       /\ op'[f].child = 0
       /\ \/ op'[f] = NoOp
          \/ op'[f].step \in {"probing", "opening"} /\ (row[f].there => op'[f].config = x.config)
  <2>1. ASSUME NEW answer \in Answers, Settles(f, answer)
        PROVE  QueuesTyped' /\ QueueOf(f) /\ op'[f] = NoOp
    <3>1. opened <= opened'
      BY <1>1
    <3>2. QueuesTyped'
      BY <1>1, <2>1, <3>1, SettlesTyped DEF Types
    <3> QED
      BY <2>1, <3>2, SettlesEffect DEF Types
  <2>2. CASE Probes(f, again, r.clean, config)
             /\ (row[f].there => config = IF r.kind = "edit" THEN config ELSE row[f].config)
    <3>1. r.clean \in BOOLEAN
      BY <1>2 DEF OrderRecords
    <3> HIDE DEF r
    <3>2. /\ QueuesTyped'
          /\ op'[f].step \in {"probing", "opening"} /\ op'[f].child = 0 /\ op'[f].config = config
          /\ QueueOf(f)
      BY <1>1, <1>a, <2>2, <3>1, ProbesEffect DEF Types
    <3> QED
      BY <1>3, <2>2, <3>2
  <2>3. NoOp.child = 0
    BY DEF NoOp
  <2> HIDE DEF r
  <2> QED
    BY <1>6, <2>1, <2>2, <2>3
<1>11. AtRest(f)'
  <2>1. NoneUp(f)'
    <3> SUFFICES ASSUME row'[f].there, NEW t \in 1..opened, tunnel'[t].of = f, tunnel'[t].up, t \notin lost
                 PROVE  FALSE
      BY <1>1 DEF NoneUp, tasks
    <3>1. tunnel[t].of = f /\ tunnel[t].up /\ row[f].there
      BY <1>3, <1>7, <1>8 DEF TunnelsAge
    <3>2. t \in {managed[f], row[f].pid, op[f].child} /\ t # 0
      BY <3>1 DEF Sound, Known
    <3>3. t \in killed
      BY <3>1, <3>2
    <3> QED
      BY <3>3, <1>8
  <2> QED
    BY <1>3, <1>7, <2>1 DEF AtRest
<1>12. OpRests(f)'
  BY <1>3, <1>7, <1>10 DEF OpRests, NoOp
<1>13. Sound(f)'
  BY <1>11, <1>12, RestIsSound
<1>14. ASSUME NEW g \in Forwards, g # f PROVE Untouched(g)
  <2>1. row[g].there /\ Running(g) /\ restoreFile => restoreFile'
    BY <1>5, <1>14 DEF OthersRun, Rows
  <2> QED
    BY <1>1, <1>7, <1>10, <1>14, <2>1 DEF Untouched, QueueOf
<1> QED
  BY <1>8, <1>9, <1>10, <1>13, <1>14 DEF StepOf

(* A step that moves a start on and leaves the store alone. *)
LEMMA MovesOn ==
  ASSUME Types, NEW f \in Forwards, Sound(f), op[f].step \in {"probing", "freeing", "opening"},
         NEW o \in OpRecords, o.step \in {"probing", "freeing", "opening"}, o.child = 0, o.config = op[f].config,
         GoesOn(f, o), UNCHANGED <<row, restoreFile, managed, opened>>, UNCHANGED tasks,
         TunnelsAge, tunnel' \in [Tunnels -> TunnelRecords]
  PROVE  StepOf(f)
<1>1. opened \in Nat /\ opened' = opened /\ opened <= opened' /\ RowRecords' = RowRecords /\ o \in OpRecords'
  BY DEF Types, StoreTyped, RowRecords, OpRecords
<1>2. ops[f] # <<>>
  BY HeadTyped DEF Types
<1>3. QueuesTyped'
  BY <1>1, <1>2, GoesOnTyped, Zenon DEF Types
<1>4. op'[f] = o /\ QueueOf(f)
  BY GoesOnEffect DEF Types
<1>5. StoreTyped'
  BY <1>1 DEF Types, StoreTyped, TunnelRecords
<1>6. AtRest(f) /\ OpRests(f)
  BY BusyIsAtRest
<1>7. AtRest(f)'
  BY <1>1, <1>6 DEF AtRest, NoneUp, TunnelsAge, tasks
<1>8. OpRests(f)'
  BY <1>4, <1>6 DEF OpRests, NoOp
<1>9. ASSUME NEW g \in Forwards, g # f PROVE Untouched(g)
  BY <1>1, <1>4, <1>9 DEF Untouched, QueueOf
<1>10. Sound(f)'
  BY <1>7, <1>8, RestIsSound
<1> QED
  BY <1>3, <1>5, <1>9, <1>10 DEF StepOf

-----------------------------------------------------------------------------
(* The steps of an operation. *)

LEMMA FailedRowTyped ==
  ASSUME Types, NEW f \in Forwards
  PROVE  /\ FailedRow(f) \in RowRecords /\ FailedRow(f).there = row[f].there
         /\ FailedRow(f).there => FailedRow(f).pid = 0 /\ FailedRow(f).status = "failed"
         /\ row[f].pid = 0 => FailedRow(f).pid = 0
         /\ FailedRow(f).config = row[f].config /\ FailedRow(f).restore = row[f].restore
<1>1. row[f] \in RowRecords /\ 0 \in 0..opened
  BY DEF Types, StoreTyped
<1> QED
  BY <1>1 DEF FailedRow, RowRecords, Statuses

LEMMA BeginIsSound ==
  ASSUME Types, NEW f \in Forwards, Sound(f), BeginOp(f)
  PROVE  StepOf(f)
<1> DEFINE r == Head(ops[f])
           config == IF r.kind = "edit" THEN r.config ELSE row[f].config
<1>1. ops[f] # <<>> /\ op[f].step = "idle" /\ op[f] = NoOp /\ op[f].child = 0 /\ UNCHANGED tasks
  BY DEF BeginOp, Sound, Serial, NoOp
<1>2. r \in OrderRecords
  BY <1>1, HeadTyped DEF Types
<1>3. /\ opened \in Nat /\ row[f] \in RowRecords /\ managed[f] \in 0..opened /\ 0 \in 0..opened
      /\ row \in [Forwards -> RowRecords] /\ managed \in [Forwards -> 0..opened]
  BY DEF Types, StoreTyped
<1>4. config \in Configs
  <2> HIDE DEF r
  <2> QED
    BY <1>2, <1>3 DEF OrderRecords, RowRecords
<1>5. \/ ~row[f].there /\ Settles(f, "gone") /\ UNCHANGED store
      \/ /\ row[f].there /\ r.kind = "edit" /\ ~WasRunning(f)
         /\ \/ row' = [row EXCEPT ![f].config = config] /\ Settles(f, "ok")
            \/ row' = row /\ Settles(f, "failed")
         /\ UNCHANGED <<restoreFile, managed, tunnel, opened>>
      \/ /\ row[f].there /\ managed[f] # 0
         /\ managed' = [managed EXCEPT ![f] = 0]
         /\ GoesOn(f, [NoOp EXCEPT !.step = "closing", !.config = config, !.child = managed[f]])
         /\ UNCHANGED <<row, restoreFile, tunnel, opened>>
      \/ row[f].there /\ managed[f] = 0 /\ Halt(f, config, Child(f)) /\ UNCHANGED <<managed, opened>>
  BY DEF BeginOp
<1>6. row[f].there /\ r.kind # "edit" => config = row[f].config
  OBVIOUS
<1> HIDE DEF config
<1>7. CASE ~row[f].there /\ Settles(f, "gone") /\ UNCHANGED store
  <2>1. StoreTyped' /\ opened' = opened /\ opened <= opened' /\ TunnelsAge
    BY <1>3, <1>7, SameTunnelsAge DEF Types, StoreTyped, store, RowRecords, TunnelRecords
  <2>2. "gone" \in Answers
    BY DEF Answers
  <2>3. QueuesTyped'
    BY <1>1, <1>3, <1>7, <2>1, <2>2, SettlesTyped DEF Types
  <2>4. op'[f] = NoOp /\ QueueOf(f)
    BY <1>7, SettlesEffect DEF Types
  <2>5. Sound(f)'
    BY <1>1, <1>7, <2>4 DEF Sound, Serial, Carried, Shown, Listed, Known, NoPid, store
  <2>6. ASSUME NEW g \in Forwards, g # f PROVE Untouched(g)
    BY <1>3, <1>7, <2>4, <2>6 DEF Untouched, QueueOf, store
  <2> QED
    BY <2>1, <2>3, <2>5, <2>6 DEF StepOf
<1>8. CASE /\ row[f].there /\ r.kind = "edit" /\ ~WasRunning(f)
           /\ \/ row' = [row EXCEPT ![f].config = config] /\ Settles(f, "ok")
              \/ row' = row /\ Settles(f, "failed")
           /\ UNCHANGED <<restoreFile, managed, tunnel, opened>>
  <2>a. PICK answer \in Answers : Settles(f, answer)
    BY <1>8 DEF Answers
  <2> DEFINE x == IF row' = row THEN row[f] ELSE [row[f] EXCEPT !.config = config]
  <2>1. /\ x \in RowRecords /\ x.there = row[f].there /\ x.status = row[f].status
        /\ x.pid = row[f].pid /\ x.restore = row[f].restore
    BY <1>3, <1>4 DEF RowRecords
  <2>2. row' = [row EXCEPT ![f] = x]
    BY <1>3, <1>8
  <2> HIDE DEF x
  <2>3. opened' = opened /\ opened <= opened' /\ TunnelsAge /\ x \in RowRecords'
    BY <1>3, <1>8, <2>1, SameTunnelsAge DEF Types, RowRecords
  <2>4. row' \in [Forwards -> RowRecords'] /\ row'[f] = x /\ \A g \in Forwards : g # f => row'[g] = row[g]
    BY <1>3, <2>2, <2>3, RowSet DEF Types
  <2>5. StoreTyped'
    BY <1>8, <2>3, <2>4 DEF Types, StoreTyped, TunnelRecords
  <2>7. QueuesTyped'
    BY <1>1, <1>3, <2>3, <2>a, SettlesTyped DEF Types
  <2>8. op'[f] = NoOp /\ QueueOf(f)
    BY <2>a, SettlesEffect DEF Types
  <2>9. row[f].pid = 0 /\ (managed[f] # 0 => row[f].status = "failed")
    BY <1>8 DEF WasRunning, Sound, Shown
  <2>10. op'[f].step = "idle"
    BY <2>8 DEF NoOp
  <2>11. Sound(f)'
    BY <1>1, <1>8, <2>1, <2>3, <2>4, <2>8, <2>9, <2>10
       DEF Sound, Serial, Carried, Shown, Listed, Known, NoPid, Running, Alive, tasks
  <2>12. ASSUME NEW g \in Forwards, g # f PROVE Untouched(g)
    BY <1>3, <1>8, <2>3, <2>4, <2>8, <2>12 DEF Untouched, QueueOf
  <2> QED
    BY <2>3, <2>5, <2>7, <2>11, <2>12 DEF StepOf
<1>9. CASE /\ row[f].there /\ managed[f] # 0
           /\ managed' = [managed EXCEPT ![f] = 0]
           /\ GoesOn(f, [NoOp EXCEPT !.step = "closing", !.config = config, !.child = managed[f]])
           /\ UNCHANGED <<row, restoreFile, tunnel, opened>>
  <2> DEFINE o == [NoOp EXCEPT !.step = "closing", !.config = config, !.child = managed[f]]
  <2>1. o \in OpRecords
    BY <1>3, <1>4, NoOpTyped DEF OpRecords, Steps
  <2>2. o.step = "closing" /\ o.config = config /\ o.child = managed[f]
    BY DEF NoOp
  <2>3. GoesOn(f, o)
    BY <1>9
  <2> HIDE DEF o
  <2>4. opened' = opened /\ opened <= opened' /\ TunnelsAge /\ o \in OpRecords'
    BY <1>3, <1>9, <2>1, SameTunnelsAge DEF Types, OpRecords
  <2>5. QueuesTyped'
    BY <1>1, <1>3, <2>3, <2>4, GoesOnTyped DEF Types
  <2>6. op'[f] = o /\ QueueOf(f) /\ ops' = ops
    BY <2>3, GoesOnEffect DEF Types
  <2>7. /\ managed' \in [Forwards -> 0..opened] /\ managed'[f] = 0
        /\ \A g \in Forwards : g # f => managed'[g] = managed[g]
    BY <1>3, <1>9
  <2>8. StoreTyped'
    BY <1>9, <2>4, <2>7 DEF Types, StoreTyped, TunnelRecords, RowRecords
  <2>9. f \in Builtin /\ row[f].pid = 0
    BY <1>9 DEF Sound, Carried
  <2>10. Sound(f)'
    BY <1>1, <1>6, <1>9, <2>2, <2>4, <2>6, <2>7, <2>9
       DEF Sound, Serial, Carried, Shown, Listed, Known, NoPid, Running, Alive, tasks
  <2>11. ASSUME NEW g \in Forwards, g # f PROVE Untouched(g)
    BY <1>3, <1>9, <2>4, <2>6, <2>7, <2>11 DEF Untouched, QueueOf
  <2> QED
    BY <2>4, <2>5, <2>8, <2>10, <2>11 DEF StepOf
<1>10. CASE row[f].there /\ managed[f] = 0 /\ Halt(f, config, Child(f)) /\ UNCHANGED <<managed, opened>>
  <2>1. {row[f].pid, op[f].child} \ {0} \subseteq Child(f)
    BY <1>1 DEF Child
  <2> QED
    BY <1>1, <1>4, <1>6, <1>10, <2>1, HaltIsSound
<1> QED
  BY <1>5, <1>7, <1>8, <1>9, <1>10

LEMMA ManagedClosedIsSound ==
  ASSUME Types, NEW f \in Forwards, Sound(f), ManagedClosed(f)
  PROVE  StepOf(f)
<1>1. /\ op[f].step = "closing" /\ managed[f] = 0 /\ (row[f].there => row[f].pid = 0)
      /\ Halt(f, op[f].config, {op[f].child}) /\ UNCHANGED <<managed, opened>> /\ UNCHANGED tasks
  BY DEF ManagedClosed, Sound, Serial
<1>2. ops[f] # <<>>
  BY <1>1, HeadTyped DEF Types
<1>3. op[f].config \in Configs
  BY DEF Types, QueuesTyped, OpRecords
<1>4. row[f].there /\ Head(ops[f]).kind # "edit" => op[f].config = row[f].config
  BY <1>1 DEF Sound, Shown
<1>5. row[f].there => {row[f].pid, op[f].child} \ {0} \subseteq {op[f].child}
  BY <1>1
<1> QED
  BY <1>1, <1>2, <1>3, <1>4, <1>5, HaltIsSound

LEMMA PortIsSound ==
  ASSUME Types, NEW f \in Forwards, Sound(f), PortFree(f) \/ PortCleaned(f) \/ PortFreed(f)
  PROVE  StepOf(f)
<1>1. op[f] \in OpRecords /\ tunnel \in [Tunnels -> TunnelRecords] /\ StoreTyped
  BY DEF Types, QueuesTyped, StoreTyped
<1>2. op[f].step \in {"probing", "freeing"} => op[f].child = 0
  BY DEF Sound, Serial
<1>3. CASE PortFree(f)
  <2> DEFINE o == [op[f] EXCEPT !.step = "opening"]
  <2>1. o \in OpRecords /\ o.step = "opening" /\ o.child = op[f].child /\ o.config = op[f].config
    BY <1>1 DEF OpRecords, Steps
  <2>2. GoesOn(f, o) /\ UNCHANGED store /\ UNCHANGED tasks /\ op[f].step = "probing"
    BY <1>3 DEF PortFree
  <2> HIDE DEF o
  <2>3. TunnelsAge /\ tunnel' \in [Tunnels -> TunnelRecords] /\ UNCHANGED <<row, restoreFile, managed, opened>>
    BY <1>1, <2>2, SameTunnelsAge DEF store
  <2> QED
    BY <1>2, <2>1, <2>2, <2>3, MovesOn
<1>4. CASE PortCleaned(f)
  <2> DEFINE o == [op[f] EXCEPT !.step = "freeing", !.clean = FALSE]
  <2>1. o \in OpRecords /\ o.step = "freeing" /\ o.child = op[f].child /\ o.config = op[f].config
    BY <1>1 DEF OpRecords, Steps
  <2>2. /\ GoesOn(f, o) /\ Kill(Up(f)) /\ UNCHANGED <<row, restoreFile, managed, opened>> /\ UNCHANGED tasks
        /\ op[f].step = "probing"
    BY <1>4 DEF PortCleaned
  <2> HIDE DEF o
  <2>3. TunnelsAge /\ tunnel' \in [Tunnels -> TunnelRecords]
    BY <1>1, <2>2, KilledAge
  <2> QED
    BY <1>2, <2>1, <2>2, <2>3, MovesOn
<1>5. CASE PortFreed(f)
  <2> DEFINE o == [op[f] EXCEPT !.step = "probing"]
  <2>1. o \in OpRecords /\ o.step = "probing" /\ o.child = op[f].child /\ o.config = op[f].config
    BY <1>1 DEF OpRecords, Steps
  <2>2. GoesOn(f, o) /\ UNCHANGED store /\ UNCHANGED tasks /\ op[f].step = "freeing"
    BY <1>5 DEF PortFreed
  <2> HIDE DEF o
  <2>3. TunnelsAge /\ tunnel' \in [Tunnels -> TunnelRecords] /\ UNCHANGED <<row, restoreFile, managed, opened>>
    BY <1>1, <2>2, SameTunnelsAge DEF store
  <2> QED
    BY <1>2, <2>1, <2>2, <2>3, MovesOn
<1> QED
  BY <1>3, <1>4, <1>5

(* A start that does not come up. *)
LEMMA StartFailsIsSound ==
  ASSUME Types, NEW f \in Forwards, Sound(f),
         PortOccupied(f) \/ Untrusted(f) \/ OpenFails(f) \/ ChildExited(f)
  PROVE  StepOf(f)
<1>1. row[f] \in RowRecords
  BY DEF Types, StoreTyped
<1>2. "failed" \in Answers /\ "untrusted" \in Answers
  BY DEF Answers
<1>3. (row[f].there /\ op[f].step # "idle" => row[f].pid = 0) /\ (f \in Builtin => row[f].pid = 0)
  BY DEF Sound, Serial, Carried
<1>4. CASE PortOccupied(f) \/ Untrusted(f)
  <2>1. PICK answer \in Answers :
          /\ Throws(f, answer, row[f]) /\ op[f].step \in {"probing", "opening"}
          /\ UNCHANGED <<restoreFile, managed, tunnel, opened>> /\ UNCHANGED tasks
    BY <1>2, <1>4 DEF PortOccupied, Untrusted
  <2>2. AtRest(f)
    BY <2>1, BusyIsAtRest
  <2>3. op[f].step # "idle"
    BY <2>1
  <2> QED
    BY <1>1, <1>3, <2>1, <2>2, <2>3, ThrowsIsSound
<1>5. CASE OpenFails(f) \/ ChildExited(f)
  <2>1. /\ Throws(f, "failed", FailedRow(f)) /\ op[f].step # "idle"
        /\ UNCHANGED <<restoreFile, managed, tunnel, opened>> /\ UNCHANGED tasks
    BY <1>5 DEF OpenFails, ChildExited
  <2>2. AtRest(f)
    <3>1. CASE OpenFails(f)
      BY <3>1, BusyIsAtRest DEF OpenFails
    <3>2. CASE ChildExited(f)
      <4>1. /\ op[f].step = "watching" /\ ~tunnel[op[f].child].up
            /\ managed[f] = 0 /\ (row[f].there => row[f].pid = 0)
        BY <3>2 DEF ChildExited, Sound, Serial
      <4>2. NoneUp(f)
        <5> SUFFICES ASSUME row[f].there, NEW t \in 1..opened, tunnel[t].of = f, tunnel[t].up, t \notin lost
                     PROVE  FALSE
          BY DEF NoneUp
        <5>1. t \in {managed[f], row[f].pid, op[f].child} /\ t # 0
          BY DEF Sound, Known
        <5> QED
          BY <4>1, <5>1
      <4> QED
        BY <1>3, <4>1, <4>2 DEF AtRest
    <3> QED
      BY <1>5, <3>1, <3>2
  <2> DEFINE x == FailedRow(f)
  <2>3. x \in RowRecords /\ x.there = row[f].there /\ (x.there => x.pid = 0) /\ (f \in Builtin => x.pid = 0)
    BY <1>3, FailedRowTyped
  <2>4. Throws(f, "failed", x)
    BY <2>1
  <2> HIDE DEF x
  <2> QED
    BY <1>2, <2>1, <2>2, <2>3, <2>4, ThrowsIsSound
<1> QED
  BY <1>4, <1>5

LEMMA OpenManagedIsSound ==
  ASSUME Types, NEW f \in Forwards, Sound(f), OpenManaged(f)
  PROVE  StepOf(f)
<1>1. /\ op[f].step = "opening" /\ f \in Builtin /\ restoreFile' = TRUE /\ Settles(f, "ok") /\ UNCHANGED tasks
      /\ \E t \in Tunnels : Opens(f, t) /\ managed' = [managed EXCEPT ![f] = t]
  BY DEF OpenManaged
<1>2. PICK t \in Tunnels : Opens(f, t) /\ managed' = [managed EXCEPT ![f] = t]
  BY <1>1
<1>3. /\ TunnelsAge
      /\ tunnel' \in [Tunnels -> TunnelRecords]
      /\ opened' = opened + 1 /\ opened' \in 0..MaxTunnels /\ t = opened'
      /\ tunnel'[t].of = f /\ tunnel'[t].config = op[f].config /\ tunnel'[t].up
      /\ \A g \in Forwards : g # f => \A u \in 1..opened' : u > opened => tunnel'[u].of # g
  BY <1>2, OpensAge DEF Types
<1>4. opened \in Nat /\ opened' \in Nat /\ opened <= opened' /\ t \in 0..opened' /\ t # 0
      /\ \A u \in 1..opened' : u \in 1..opened \/ u = t
  BY <1>3 DEF Types, StoreTyped
<1>5. AtRest(f) /\ OpRests(f) /\ row[f].pid = 0
  BY <1>1, BusyIsAtRest DEF Sound, Carried
<1> DEFINE x == [row[f] EXCEPT !.status = "running", !.pid = 0, !.restore = TRUE]
           y == IF row[f].there THEN x ELSE row[f]
<1>6. /\ x \in RowRecords' /\ x.there = row[f].there /\ x.status = "running"
      /\ x.pid = 0 /\ x.restore = TRUE /\ x.config = row[f].config
  <2>1. row[f] \in RowRecords' /\ 0 \in 0..opened'
    BY <1>4, RecordsGrow DEF Types, StoreTyped
  <2> QED
    BY <2>1 DEF RowRecords, Statuses
<1>7. row' = [row EXCEPT ![f] = y]
  BY DEF OpenManaged, SetRow
<1> HIDE DEF x
<1>8. /\ y \in RowRecords' /\ y.there = row[f].there /\ y.pid = 0 /\ y.config = row[f].config
      /\ y.there => y.status = "running" /\ y.restore
  <2>1. row[f] \in RowRecords'
    BY <1>4, RecordsGrow DEF Types, StoreTyped
  <2> QED
    BY <1>5, <1>6, <2>1
<1> HIDE DEF y
<1>9. row' \in [Forwards -> RowRecords'] /\ row'[f] = y /\ \A g \in Forwards : g # f => row'[g] = row[g]
  BY <1>4, <1>7, <1>8, RowSet DEF Types
<1>10. /\ managed' \in [Forwards -> 0..opened'] /\ managed'[f] = t
       /\ \A g \in Forwards : g # f => managed'[g] = managed[g]
  <2>1. managed \in [Forwards -> 0..opened']
    BY <1>4, RecordsGrow DEF Types, StoreTyped
  <2> QED
    BY <1>2, <1>4, <2>1
<1>11. StoreTyped'
  BY <1>1, <1>3, <1>9, <1>10 DEF StoreTyped, TunnelRecords
<1>12. QueuesTyped'
  <2>1. ops[f] # <<>> /\ "ok" \in Answers
    BY <1>1, HeadTyped DEF Types, Answers
  <2> QED
    BY <1>1, <1>4, <2>1, SettlesTyped DEF Types
<1>13. op'[f] = NoOp /\ NoOp.step = "idle" /\ NoOp.child = 0 /\ QueueOf(f)
  BY <1>1, SettlesEffect DEF Types, NoOp
<1>14. Sound(f)'
  <2>1. Serial(f)' /\ Carried(f)'
    BY <1>1, <1>8, <1>9, <1>13 DEF Serial, Carried
  <2>2. Shown(f)'
    BY <1>1, <1>3, <1>5, <1>8, <1>9, <1>10, <1>13 DEF Shown, OpRests
  <2>3. Listed(f)' /\ NoPid(f)'
    BY <1>1, <1>8, <1>9 DEF Listed, NoPid
  <2>4. Known(f)'
    BY <1>3, <1>4, <1>5, <1>8, <1>9, <1>10, <1>1 DEF Known, AtRest, NoneUp, TunnelsAge, tasks
  <2> QED
    BY <2>1, <2>2, <2>3, <2>4 DEF Sound
<1>15. ASSUME NEW g \in Forwards, g # f PROVE Untouched(g)
  BY <1>1, <1>3, <1>9, <1>10, <1>13, <1>15 DEF Untouched, QueueOf
<1> QED
  BY <1>3, <1>11, <1>12, <1>14, <1>15 DEF StepOf

LEMMA SpawnIsSound ==
  ASSUME Types, NEW f \in Forwards, Sound(f), SpawnChild(f)
  PROVE  StepOf(f)
<1>1. /\ op[f].step = "opening" /\ f \notin Builtin /\ UNCHANGED <<row, restoreFile, managed>> /\ UNCHANGED tasks
      /\ \E t \in Tunnels : Opens(f, t) /\ GoesOn(f, [op[f] EXCEPT !.step = "watching", !.child = t])
  BY DEF SpawnChild
<1>2. PICK t \in Tunnels : Opens(f, t) /\ GoesOn(f, [op[f] EXCEPT !.step = "watching", !.child = t])
  BY <1>1
<1>3. /\ TunnelsAge
      /\ tunnel' \in [Tunnels -> TunnelRecords]
      /\ opened' = opened + 1 /\ opened' \in 0..MaxTunnels /\ t = opened'
      /\ tunnel'[t].of = f /\ tunnel'[t].config = op[f].config /\ tunnel'[t].up
      /\ \A g \in Forwards : g # f => \A u \in 1..opened' : u > opened => tunnel'[u].of # g
  BY <1>2, OpensAge DEF Types
<1>4. opened \in Nat /\ opened' \in Nat /\ opened <= opened' /\ t \in 0..opened' /\ t # 0
      /\ \A u \in 1..opened' : u \in 1..opened \/ u = t
  BY <1>3 DEF Types, StoreTyped
<1>5. AtRest(f) /\ OpRests(f)
  BY <1>1, BusyIsAtRest
<1> DEFINE o == [op[f] EXCEPT !.step = "watching", !.child = t]
<1>6. /\ o \in OpRecords' /\ o.step = "watching" /\ o.child = t /\ o.config = op[f].config
  <2>1. op[f] \in OpRecords'
    BY <1>4, RecordsGrow DEF Types, QueuesTyped
  <2> QED
    BY <1>4, <2>1 DEF OpRecords, Steps
<1>7. GoesOn(f, o)
  BY <1>2
<1> HIDE DEF o
<1>8. StoreTyped'
  BY <1>1, <1>3, <1>4, RecordsGrow DEF Types, StoreTyped, TunnelRecords
<1>9. QueuesTyped'
  <2>1. ops[f] # <<>>
    BY <1>1, HeadTyped DEF Types
  <2> QED
    BY <1>4, <1>6, <1>7, <2>1, GoesOnTyped DEF Types
<1>10. op'[f] = o /\ QueueOf(f) /\ due' = due
  BY <1>7, GoesOnEffect DEF Types
<1>11. Sound(f)'
  <2>1. Serial(f)' /\ Carried(f)'
    BY <1>1, <1>4, <1>5, <1>6, <1>10 DEF Serial, Carried, AtRest
  <2>2. Shown(f)'
    BY <1>1, <1>3, <1>5, <1>6, <1>10 DEF Shown, OpRests, AtRest
  <2>3. Listed(f)' /\ NoPid(f)'
    BY <1>1, <1>5 DEF Listed, NoPid, AtRest, Running, Alive
  <2>4. Known(f)'
    BY <1>1, <1>3, <1>4, <1>5, <1>6, <1>10 DEF Known, AtRest, NoneUp, TunnelsAge, tasks
  <2> QED
    BY <2>1, <2>2, <2>3, <2>4 DEF Sound
<1>12. ASSUME NEW g \in Forwards, g # f PROVE Untouched(g)
  BY <1>1, <1>3, <1>10, <1>12 DEF Untouched, QueueOf
<1> QED
  BY <1>3, <1>8, <1>9, <1>11, <1>12 DEF StepOf

LEMMA ChildRunsIsSound ==
  ASSUME Types, NEW f \in Forwards, Sound(f), ChildRuns(f)
  PROVE  StepOf(f)
<1>1. /\ op[f].step = "watching" /\ tunnel[op[f].child].up /\ restoreFile' = TRUE /\ Settles(f, "ok")
      /\ UNCHANGED <<managed, tunnel, opened>> /\ UNCHANGED tasks
  BY DEF ChildRuns
<1>2. op[f].child \in 0..opened /\ opened \in Nat /\ opened' = opened /\ opened <= opened'
  BY <1>1 DEF Types, StoreTyped, QueuesTyped, OpRecords
<1>3. f \notin Builtin /\ managed[f] = 0 /\ op[f].child # 0 /\ (row[f].there => row[f].pid = 0)
  BY <1>1 DEF Sound, Serial, Carried
<1> DEFINE x == [row[f] EXCEPT !.status = "running", !.pid = op[f].child, !.restore = TRUE]
           y == IF row[f].there THEN x ELSE row[f]
<1>4. /\ x \in RowRecords' /\ x.there = row[f].there /\ x.status = "running"
      /\ x.pid = op[f].child /\ x.restore = TRUE /\ x.config = row[f].config
  <2>1. row[f] \in RowRecords' /\ op[f].child \in 0..opened'
    BY <1>2, RecordsGrow DEF Types, StoreTyped
  <2> QED
    BY <2>1 DEF RowRecords, Statuses
<1>5. row' = [row EXCEPT ![f] = y]
  BY DEF ChildRuns, SetRow
<1> HIDE DEF x
<1>6. /\ y \in RowRecords' /\ y.there = row[f].there
      /\ y.there => y.status = "running" /\ y.restore /\ y.pid = op[f].child /\ y.config = row[f].config
  <2>1. row[f] \in RowRecords'
    BY <1>2, RecordsGrow DEF Types, StoreTyped
  <2> QED
    BY <1>4, <2>1
<1> HIDE DEF y
<1>7. row' \in [Forwards -> RowRecords'] /\ row'[f] = y /\ \A g \in Forwards : g # f => row'[g] = row[g]
  BY <1>2, <1>5, <1>6, RowSet DEF Types
<1>8. StoreTyped'
  BY <1>1, <1>2, <1>7 DEF Types, StoreTyped, TunnelRecords
<1>9. QueuesTyped'
  <2>1. ops[f] # <<>> /\ "ok" \in Answers
    BY <1>1, HeadTyped DEF Types, Answers
  <2> QED
    BY <1>1, <1>2, <2>1, SettlesTyped DEF Types
<1>10. /\ op'[f] = NoOp /\ NoOp.step = "idle" /\ NoOp.child = 0 /\ QueueOf(f)
       /\ \A d \in due' : d \in due \/ d.answer = "ok"
  BY <1>1, SettlesEffect DEF Types, NoOp
<1>11. TunnelsAge
  BY <1>1, SameTunnelsAge DEF Types
<1>12. Sound(f)'
  <2>1. Serial(f)' /\ Carried(f)'
    BY <1>1, <1>3, <1>10 DEF Serial, Carried
  <2>2. Shown(f)'
    BY <1>1, <1>3, <1>6, <1>7, <1>10 DEF Shown, Sound
  <2>3. Listed(f)'
    BY <1>1, <1>6, <1>7 DEF Listed
  <2>4. Known(f)'
    BY <1>1, <1>2, <1>3, <1>6, <1>7 DEF Known, Sound, tasks
  <2>5. NoPid(f)'
    BY <1>1, <1>6, <1>7, <1>10 DEF NoPid, ChildRuns, Idle
  <2> QED
    BY <2>1, <2>2, <2>3, <2>4, <2>5 DEF Sound
<1>13. ASSUME NEW g \in Forwards, g # f PROVE Untouched(g)
  BY <1>1, <1>2, <1>7, <1>10, <1>13 DEF Untouched, QueueOf
<1> QED
  BY <1>8, <1>9, <1>11, <1>12, <1>13 DEF StepOf

-----------------------------------------------------------------------------
(* Batches and the keeper. *)

LEMMA BatchesTyped ==
  ASSUME BatchTyped
  PROVE  /\ batch' = batch => BatchTyped'
         /\ batch' = NoBatch => BatchTyped'
         /\ \A by, left : \A clean \in BOOLEAN : \A stops \in SUBSET Forwards :
              batch' = [NoBatch EXCEPT !.step = "stopping", !.by = by, !.clean = clean, !.left = left, !.stops = stops]
                => BatchTyped'
         /\ \A stops \in SUBSET Forwards : batch' = [batch EXCEPT !.stops = stops] => BatchTyped'
         /\ \A stops \in SUBSET Forwards :
              batch' = [batch EXCEPT !.stops = stops, !.step = "starting"] => BatchTyped'
         /\ \A left : \A failed \in BOOLEAN : batch' = [batch EXCEPT !.left = left, !.failed = failed] => BatchTyped'
<1>1. (batch' = batch => BatchTyped') /\ (batch' = NoBatch => BatchTyped')
  <2>1. batch' = batch => BatchTyped'
    BY DEF BatchTyped
  <2>2. ASSUME batch' = NoBatch PROVE BatchTyped'
    <3>1. NoBatch \in [step : {"idle", "stopping", "starting"}, by : {NoBatch.by}, clean : BOOLEAN, left : {NoBatch.left},
                        stops : SUBSET Forwards, failed : BOOLEAN]
      BY DEF NoBatch
    <3> QED
      BY <2>2, <3>1 DEF BatchTyped
  <2> QED
    BY <2>1, <2>2
<1>2. ASSUME NEW by, NEW left, NEW clean \in BOOLEAN, NEW stops \in SUBSET Forwards,
             batch' = [NoBatch EXCEPT !.step = "stopping", !.by = by, !.clean = clean, !.left = left, !.stops = stops]
      PROVE  BatchTyped'
  BY <1>2 DEF BatchTyped, NoBatch
<1>3. ASSUME NEW stops \in SUBSET Forwards
      PROVE  /\ batch' = [batch EXCEPT !.stops = stops] => BatchTyped'
             /\ batch' = [batch EXCEPT !.stops = stops, !.step = "starting"] => BatchTyped'
  BY DEF BatchTyped
<1>4. ASSUME NEW left, NEW failed \in BOOLEAN, batch' = [batch EXCEPT !.left = left, !.failed = failed]
      PROVE  BatchTyped'
  BY <1>4 DEF BatchTyped
<1> QED
  BY <1>1, <1>2, <1>3, <1>4

LEMMA KeepersTyped ==
  ASSUME KeeperTyped
  PROVE  /\ keeper' = keeper \/ keeper' = Resting => KeeperTyped'
         /\ \A step \in {"tick", "rows", "awaits", "batch"} : \A mode \in {"auto", "restore", "watch"} : \A rows :
              \/ keeper' = [keeper EXCEPT !.step = step]
              \/ keeper' = [keeper EXCEPT !.mode = mode]
              \/ keeper' = [keeper EXCEPT !.rows = rows]
              \/ keeper' = [keeper EXCEPT !.step = step, !.rows = rows]
              \/ keeper' = [Resting EXCEPT !.step = step, !.rows = rows]
              \/ keeper' = [Resting EXCEPT !.mode = mode, !.step = step]
              => KeeperTyped'
<1>1. keeper' = keeper \/ keeper' = Resting => KeeperTyped'
  BY DEF KeeperTyped, Resting
<1>2. ASSUME NEW step \in {"tick", "rows", "awaits", "batch"}, NEW mode \in {"auto", "restore", "watch"}, NEW rows
      PROVE  /\ keeper' = [keeper EXCEPT !.step = step] => KeeperTyped'
             /\ keeper' = [keeper EXCEPT !.mode = mode] => KeeperTyped'
             /\ keeper' = [keeper EXCEPT !.rows = rows] => KeeperTyped'
             /\ keeper' = [keeper EXCEPT !.step = step, !.rows = rows] => KeeperTyped'
  BY DEF KeeperTyped
<1>3. ASSUME NEW step \in {"tick", "rows", "awaits", "batch"}, NEW mode \in {"auto", "restore", "watch"}, NEW rows
      PROVE  /\ keeper' = [Resting EXCEPT !.step = step, !.rows = rows] => KeeperTyped'
             /\ keeper' = [Resting EXCEPT !.mode = mode, !.step = step] => KeeperTyped'
  BY DEF KeeperTyped, Resting
<1> QED
  BY <1>1, <1>2, <1>3, Zenon

LEMMA StartsBatchTyped ==
  ASSUME Types, NEW by \in Callers, NEW clean \in BOOLEAN, StartsBatch(by, clean), UNCHANGED <<op, opened>>, due' \subseteq due
  PROVE  /\ BatchTyped' /\ QueuesTyped'
         /\ \A g \in Forwards : ops[g] # <<>> => ops'[g] # <<>> /\ Head(ops'[g]) = Head(ops[g])
<1>1. batch' = [NoBatch EXCEPT !.step = "stopping", !.by = by, !.clean = clean, !.left = InOrder(Rows), !.stops = Rows]
  BY DEF StartsBatch, BatchOf
<1>2. Rows \in SUBSET Forwards
  BY DEF Rows
<1>3. BatchTyped
  BY DEF Types, TasksTyped
<1>4. BatchTyped'
  <2> DEFINE left == InOrder(Rows)
             stops == Rows
  <2>1. batch' = [NoBatch EXCEPT !.step = "stopping", !.by = by, !.clean = clean, !.left = left, !.stops = stops]
    BY <1>1
  <2>2. stops \in SUBSET Forwards
    BY <1>2
  <2> HIDE DEF left, stops
  <2> QED
    BY <1>3, <2>1, <2>2, BatchesTyped
<1>5. Stop("batch") \in OrderRecords
  BY OrdersTyped DEF Callers
<1>6. EnqueueAll(Rows, Stop("batch"))
  BY DEF StartsBatch
<1> DEFINE fs == Rows
           r == Stop("batch")
<1>7. r \in OrderRecords /\ EnqueueAll(fs, r)
  BY <1>5, <1>6
<1> HIDE DEF fs, r
<1> QED
  BY <1>4, <1>7, EnqueueAllTyped DEF Types

(* The orders that wait have grown, answers have been taken; the forwards   *)
(* are as they were.                                                        *)
Quiet ==
  /\ QueuesTyped'
  /\ \A g \in Forwards : ops[g] # <<>> => ops'[g] # <<>> /\ Head(ops'[g]) = Head(ops[g])
  /\ due' \subseteq due
  /\ UNCHANGED <<row, managed, tunnel, opened, op, lost>>
  /\ restoreFile' \in BOOLEAN
  /\ restoreFile /\ (\E f \in Rows : Running(f)) => restoreFile'

LEMMA QuietIsSound ==
  ASSUME Types, AllSound, Quiet
  PROVE  StoreTyped' /\ AllSound'
<1>1. StoreTyped'
  BY DEF Quiet, Types, StoreTyped, RowRecords, TunnelRecords
<1>2. TunnelsAge /\ lost \subseteq lost'
  BY SameTunnelsAge DEF Quiet, Types
<1>3. ASSUME NEW g \in Forwards PROVE Untouched(g)
  <2>1. op[g].step # "idle" => Head(ops'[g]) = Head(ops[g])
    BY HeadTyped DEF Quiet, Types
  <2>2. row[g].there /\ Running(g) /\ restoreFile => restoreFile'
    BY DEF Quiet, Rows
  <2>3. opened \in Nat
    BY DEF Types, StoreTyped
  <2> QED
    BY <2>1, <2>2, <2>3 DEF Untouched, Quiet
<1> QED
  BY <1>1, <1>2, <1>3, UntouchedStaysSound DEF AllSound

LEMMA UnqueuedTyped ==
  ASSUME QueuesTyped, UNCHANGED <<ops, op, opened>>, due' \subseteq due
  PROVE  QueuesTyped'
BY DEF QueuesTyped, OrderRecords, OpRecords, DueRecords

LEMMA ServerStaysTyped ==
  ASSUME ServerTyped, UNCHANGED <<server, quit, sent, exits>>
  PROVE  ServerTyped'
BY DEF ServerTyped

(* The user's requests. *)
LEMMA UserIsSound ==
  ASSUME Types, AllSound, FUser
  PROVE  Types' /\ AllSound' /\ UNCHANGED <<server, managed>>
<1>1. ASSUME sent < MaxRequests, sent' = sent + 1, UNCHANGED <<server, quit, exits>>
      PROVE  ServerTyped'
  BY <1>1, Constants DEF Types, TasksTyped, ServerTyped
<1>2. ASSUME NEW f \in Forwards, NEW r \in OrderRecords, UserAsks(f, r)
      PROVE  Types' /\ AllSound' /\ UNCHANGED <<server, managed>>
  <2>1. /\ sent < MaxRequests /\ sent' = sent + 1 /\ Enqueue(f, r) /\ UNCHANGED store
        /\ UNCHANGED <<op, due, keeper, batch, server, quit, exits, lost>>
    BY <1>2 DEF UserAsks
  <2>2. /\ QueuesTyped'
        /\ \A g \in Forwards : ops[g] # <<>> => ops'[g] # <<>> /\ Head(ops'[g]) = Head(ops[g])
    BY <2>1, EnqueueTyped DEF Types, store
  <2>3. Quiet
    BY <2>1, <2>2 DEF Quiet, store, Types, StoreTyped
  <2>4. TasksTyped'
    BY <1>1, <2>1, BatchesTyped, KeepersTyped DEF Types, TasksTyped
  <2> QED
    BY <2>1, <2>2, <2>3, <2>4, QuietIsSound DEF Types, store
<1>3. ASSUME NEW f \in Forwards, UserStarts(f) \/ UserStops(f) \/ UserEdits(f) \/ UserDeletes(f)
      PROVE  \E r \in OrderRecords : UserAsks(f, r)
  <2>1. /\ Start("user", FALSE) \in OrderRecords /\ Stop("user") \in OrderRecords /\ Stop("delete") \in OrderRecords
    BY OrdersTyped DEF Callers
  <2>2. ASSUME UserEdits(f) PROVE Order("edit", "user", FALSE, sent + 1, row[f].config) \in OrderRecords
    <3>1. sent < MaxRequests
      BY <2>2 DEF UserEdits, UserAsks
    <3>2. sent \in 0..MaxRequests /\ row[f].config \in Configs
      BY DEF Types, StoreTyped, RowRecords, TasksTyped, ServerTyped
    <3> QED
      BY <3>1, <3>2, OrdersTyped
  <2> QED
    BY <1>3, <2>1, <2>2 DEF UserStarts, UserStops, UserEdits, UserDeletes
<1>4. CASE UserStartsAll
  <2>1. /\ sent < MaxRequests /\ sent' = sent + 1 /\ StartsBatch("user", FALSE) /\ UNCHANGED store
        /\ UNCHANGED <<op, due, keeper, server, quit, exits, lost>>
    BY <1>4 DEF UserStartsAll
  <2>2. /\ BatchTyped' /\ QueuesTyped'
        /\ \A g \in Forwards : ops[g] # <<>> => ops'[g] # <<>> /\ Head(ops'[g]) = Head(ops[g])
    BY <2>1, StartsBatchTyped DEF store, Callers
  <2>3. Quiet
    BY <2>1, <2>2 DEF Quiet, store, Types, StoreTyped
  <2>4. TasksTyped'
    BY <1>1, <2>1, <2>2, KeepersTyped DEF Types, TasksTyped
  <2> QED
    BY <2>1, <2>2, <2>3, <2>4, QuietIsSound DEF Types, store
<1> QED
  BY <1>2, <1>3, <1>4 DEF FUser

(* The beginnings and the end of the keeper's rounds. *)
LEMMA KeeperIsSound ==
  ASSUME Types, AllSound, AutostartBegins \/ RestoreBegins \/ MonitorTicks \/ KeeperRowsEnd
  PROVE  Types' /\ AllSound' /\ UNCHANGED <<server, managed>>
<1>1. UNCHANGED store /\ UNCHANGED <<op, due, server, quit, sent, exits, lost>>
  BY DEF AutostartBegins, RestoreBegins, MonitorTicks, KeeperRowsEnd, queues
<1>2. \/ /\ \E clean \in BOOLEAN : StartsBatch("keeper", clean)
         /\ keeper' = [keeper EXCEPT !.step = "batch"]
      \/ /\ UNCHANGED <<batch, ops>>
         /\ \/ keeper' = [keeper EXCEPT !.mode = "restore"]
            \/ keeper' = Resting
            \/ \E rows : \/ keeper' = [keeper EXCEPT !.step = "rows", !.rows = rows]
                         \/ keeper' = [Resting EXCEPT !.step = "rows", !.rows = rows]
  <2>1. CASE AutostartBegins
    BY <2>1, Zenon DEF AutostartBegins
  <2>2. CASE RestoreBegins
    BY <2>2, Zenon DEF RestoreBegins
  <2>3. CASE MonitorTicks
    BY <2>3, Zenon DEF MonitorTicks, queues
  <2>4. CASE KeeperRowsEnd
    BY <2>4, Zenon DEF KeeperRowsEnd
  <2> QED
    BY <2>1, <2>2, <2>3, <2>4
<1>3. KeeperTyped'
  <2>1. KeeperTyped
    BY DEF Types, TasksTyped
  <2> QED
    BY <1>2, <2>1, KeepersTyped
<1>4. /\ BatchTyped' /\ QueuesTyped'
      /\ \A g \in Forwards : ops[g] # <<>> => ops'[g] # <<>> /\ Head(ops'[g]) = Head(ops[g])
  <2>1. CASE \E clean \in BOOLEAN : StartsBatch("keeper", clean)
    BY <1>1, <2>1, StartsBatchTyped DEF store, Callers
  <2>2. CASE UNCHANGED <<batch, ops>>
    BY <1>1, <2>2, UnqueuedTyped, BatchesTyped DEF store, Types, TasksTyped
  <2> QED
    BY <1>2, <2>1, <2>2
<1>5. Quiet
  BY <1>1, <1>4 DEF Quiet, store, Types, StoreTyped
<1>6. TasksTyped'
  BY <1>1, <1>3, <1>4, ServerStaysTyped DEF Types, TasksTyped
<1> QED
  BY <1>1, <1>4, <1>5, <1>6, QuietIsSound DEF Types, store

(* An answer for the batch. *)
LEMMA BatchAnsweredIsSound ==
  ASSUME Types, AllSound, NEW f \in Forwards, NEW answer \in Answers, BatchAnswered(f, answer)
  PROVE  Types' /\ AllSound' /\ UNCHANGED <<server, managed>>
<1> DEFINE gone == batch.stops \ {f}
           failed == batch.failed \/ answer # "ok"
           left == Tail(batch.left)
<1>1. /\ UNCHANGED <<row, managed, tunnel, opened, op, server, quit, sent, exits, lost>>
      /\ due' = due \ {[to |-> "batch", f |-> f, answer |-> answer]}
  BY DEF BatchAnswered
<1>2. BatchTyped /\ gone \in SUBSET Forwards /\ failed \in BOOLEAN /\ batch.clean \in BOOLEAN
  BY DEF Types, TasksTyped, BatchTyped
<1>3. /\ ops' = ops \/ \E g : Enqueue(g, Start("batch", batch.clean))
      /\ restoreFile' = restoreFile
           \/ restoreFile' = IF \E g \in Rows : Running(g) THEN TRUE ELSE restoreFile /\ ~failed
      /\ \/ BatchEnds
         \/ /\ keeper' = keeper
            /\ \/ batch' = batch
               \/ batch' = [batch EXCEPT !.stops = gone]
               \/ batch' = [batch EXCEPT !.stops = gone, !.step = "starting"]
               \/ batch' = [batch EXCEPT !.left = left, !.failed = failed]
  <2>1. CASE batch.step = "idle"
    BY <2>1 DEF BatchAnswered
  <2>2. CASE batch.step = "stopping" /\ answer # "ok"
    BY <2>2 DEF BatchAnswered
  <2>3. CASE batch.step = "stopping" /\ answer = "ok" /\ gone # {}
    BY <2>3 DEF BatchAnswered
  <2>4. CASE batch.step = "stopping" /\ answer = "ok" /\ gone = {}
    BY <2>4 DEF BatchAnswered
  <2>5. CASE batch.step = "starting" /\ answer = "untrusted"
    BY <2>5 DEF BatchAnswered
  <2>6. CASE batch.step = "starting" /\ answer # "untrusted"
    BY <2>6 DEF BatchAnswered
  <2> QED
    BY <2>1, <2>2, <2>3, <2>4, <2>5, <2>6 DEF Types, TasksTyped, BatchTyped
<1>4. Start("batch", batch.clean) \in OrderRecords
  BY <1>2, OrdersTyped DEF Callers
<1>5. /\ QueuesTyped'
      /\ \A g \in Forwards : ops[g] # <<>> => ops'[g] # <<>> /\ Head(ops'[g]) = Head(ops[g])
  <2>1. due' \subseteq due
    BY <1>1
  <2>2. CASE ops' = ops
    BY <1>1, <2>1, <2>2, UnqueuedTyped DEF Types
  <2>3. CASE \E g : Enqueue(g, Start("batch", batch.clean))
    <3> DEFINE r == Start("batch", batch.clean)
    <3>1. PICK g : Enqueue(g, r)
      BY <2>3
    <3>2. r \in OrderRecords
      BY <1>4
    <3> HIDE DEF r
    <3> QED
      BY <1>1, <2>1, <3>1, <3>2, EnqueueTyped DEF Types
  <2> QED
    BY <1>3, <2>2, <2>3
<1>6. restoreFile' \in BOOLEAN /\ (restoreFile /\ (\E g \in Rows : Running(g)) => restoreFile')
  <2> DEFINE some == \E g \in Rows : Running(g)
  <2>1. restoreFile' = restoreFile \/ restoreFile' = IF some THEN TRUE ELSE restoreFile /\ ~failed
    BY <1>3
  <2>2. restoreFile \in BOOLEAN
    BY DEF Types, StoreTyped
  <2> HIDE DEF some, failed
  <2>3. CASE restoreFile' = restoreFile
    BY <2>2, <2>3, Zenon
  <2>4. CASE restoreFile' = IF some THEN TRUE ELSE restoreFile /\ ~failed
    <3>1. CASE some
      BY <2>4, <3>1, Zenon
    <3>2. CASE ~some
      <4>1. restoreFile' = (restoreFile /\ ~failed)
        BY <2>4, <3>2, Zenon
      <4>2. restoreFile' \in BOOLEAN
        BY <4>1
      <4> QED
        BY <4>2, <3>2, Zenon DEF some
    <3> QED
      BY <3>1, <3>2
  <2> QED
    BY <2>1, <2>3, <2>4, Zenon DEF some
<1>7. Quiet
  BY <1>1, <1>5, <1>6 DEF Quiet
<1>8. BatchTyped'
  <2> HIDE DEF gone, failed, left
  <2> QED
    BY <1>2, <1>3, BatchesTyped DEF BatchEnds
<1>9. KeeperTyped'
  <2>1. \/ keeper' = keeper \/ keeper' = Resting
        \/ keeper' = [Resting EXCEPT !.mode = "restore", !.step = "tick"]
    BY <1>3, Zenon DEF BatchEnds
  <2>2. KeeperTyped
    BY DEF Types, TasksTyped
  <2> QED
    BY <2>1, <2>2, KeepersTyped
<1>10. TasksTyped'
  BY <1>1, <1>8, <1>9, ServerStaysTyped DEF Types, TasksTyped
<1> QED
  BY <1>1, <1>5, <1>7, <1>10, QuietIsSound DEF Types

LEMMA StopAnsweredIsSound ==
  ASSUME Types, AllSound, NEW f \in Forwards, NEW answer \in Answers, StopAnswered(f, answer)
  PROVE  Types' /\ AllSound' /\ UNCHANGED <<server, managed>>
<1>1. /\ due' \subseteq due /\ quit' \subseteq quit /\ UNCHANGED store
      /\ UNCHANGED <<ops, op, keeper, batch, server, sent, exits, lost>>
  BY DEF StopAnswered
<1>2. QueuesTyped'
  BY <1>1, UnqueuedTyped DEF Types, store
<1>3. Quiet
  BY <1>1, <1>2 DEF Quiet, store, Types, StoreTyped
<1>4. TasksTyped'
  BY <1>1, BatchesTyped, KeepersTyped DEF Types, TasksTyped, ServerTyped
<1> QED
  BY <1>1, <1>2, <1>3, <1>4, QuietIsSound DEF Types, store

LEMMA ShutdownIsSound ==
  ASSUME Types, AllSound, ShutdownBegins \/ StopsAll
  PROVE  Types' /\ AllSound' /\ server' # "down"
<1>1. CASE ShutdownBegins
  <2>1. /\ server' = "closing" /\ exits < MaxExits /\ UNCHANGED store /\ UNCHANGED <<ops, op, due>>
        /\ UNCHANGED <<keeper, batch, quit, sent, exits, lost>>
    BY <1>1 DEF ShutdownBegins, queues
  <2>2. QueuesTyped'
    BY <2>1, UnqueuedTyped DEF Types, store
  <2>3. Quiet
    BY <2>1, <2>2 DEF Quiet, store, Types, StoreTyped
  <2>4. TasksTyped'
    BY <2>1, BatchesTyped, KeepersTyped DEF Types, TasksTyped, ServerTyped
  <2> QED
    BY <2>1, <2>2, <2>3, <2>4, QuietIsSound DEF Types
<1>2. CASE StopsAll
  <2>1. PICK fs \in SUBSET Forwards :
          /\ server = "closing" /\ server' = "stopping" /\ quit' = fs /\ EnqueueAll(fs, Stop("shutdown"))
          /\ UNCHANGED store /\ UNCHANGED <<op, due, keeper, batch, sent, exits, lost>>
    <3>1. Rows \in SUBSET Forwards /\ {} \in SUBSET Forwards
      BY DEF Rows
    <3> QED
      BY <1>2, <3>1 DEF StopsAll
  <2> DEFINE r == Stop("shutdown")
  <2>2. r \in OrderRecords /\ EnqueueAll(fs, r)
    BY <2>1, OrdersTyped DEF Callers
  <2> HIDE DEF r
  <2>3. /\ QueuesTyped'
        /\ \A g \in Forwards : ops[g] # <<>> => ops'[g] # <<>> /\ Head(ops'[g]) = Head(ops[g])
    BY <2>1, <2>2, EnqueueAllTyped DEF Types, store
  <2>4. Quiet
    BY <2>1, <2>3 DEF Quiet, store, Types, StoreTyped
  <2>5. TasksTyped'
    BY <2>1, BatchesTyped, KeepersTyped DEF Types, TasksTyped, ServerTyped
  <2> QED
    BY <2>1, <2>3, <2>4, <2>5, QuietIsSound DEF Types
<1> QED
  BY <1>1, <1>2

-----------------------------------------------------------------------------
(* Rows that others than an operation write. *)

(* What else holds when row f becomes x. *)
RowOnly(f) ==
  /\ UNCHANGED <<tunnel, opened, op, restoreFile, lost>>
  /\ \A g \in Forwards : ops[g] # <<>> => ops'[g] # <<>> /\ Head(ops'[g]) = Head(ops[g])
  /\ due' \subseteq due
  /\ managed' \in [Forwards -> 0..opened] /\ \A g \in Forwards : g # f => managed'[g] = managed[g]

LEMMA RowOnlyIsSound ==
  ASSUME Types, AllSound, NEW f \in Forwards, NEW x \in RowRecords, row' = [row EXCEPT ![f] = x], RowOnly(f),
         row'[f] = x => Sound(f)'
  PROVE  StoreTyped' /\ AllSound'
<1>1. opened \in Nat /\ opened' = opened /\ opened <= opened' /\ RowRecords' = RowRecords
  BY DEF Types, StoreTyped, RowOnly, RowRecords
<1>2. row' \in [Forwards -> RowRecords'] /\ row'[f] = x /\ \A g \in Forwards : g # f => row'[g] = row[g]
  <2>1. x \in RowRecords'
    BY <1>1
  <2> QED
    BY <1>1, <2>1, RowSet, Zenon DEF Types
<1>3. StoreTyped'
  BY <1>1, <1>2 DEF Types, StoreTyped, RowOnly, TunnelRecords
<1>4. TunnelsAge /\ lost \subseteq lost'
  BY <1>1, SameTunnelsAge DEF RowOnly, Types
<1>5. ASSUME NEW g \in Forwards, g # f PROVE Sound(g)'
  <2>1. op[g].step # "idle" => Head(ops'[g]) = Head(ops[g])
    BY HeadTyped DEF RowOnly, Types
  <2>2. Untouched(g)
    BY <1>1, <1>2, <1>5, <2>1 DEF Untouched, RowOnly
  <2> QED
    BY <1>3, <1>4, <2>2, UntouchedStaysSound DEF AllSound
<1> QED
  BY <1>2, <1>3, <1>5 DEF AllSound

(* The row is marked failed: a forward with no child in its row, and one    *)
(* whose listener is still there or has just gone.                          *)
LEMMA FailsIsSound ==
  ASSUME Types, AllSound, NEW f \in Forwards, row' = [row EXCEPT ![f] = FailedRow(f)], RowOnly(f),
         row[f].there => row[f].pid = 0,
         managed'[f] = managed[f] \/ (managed'[f] = 0 /\ managed[f] # 0 /\ ~tunnel[managed[f]].up)
  PROVE  StoreTyped' /\ AllSound'
<1> DEFINE x == FailedRow(f)
<1>1. /\ x \in RowRecords /\ x.there = row[f].there
      /\ x.there => x.pid = 0 /\ x.status = "failed"
      /\ row[f].pid = 0 => x.pid = 0
      /\ x.config = row[f].config /\ x.restore = row[f].restore
  BY FailedRowTyped
<1>2. row' = [row EXCEPT ![f] = x]
  OBVIOUS
<1> HIDE DEF x
<1>3. ASSUME row'[f] = x PROVE Sound(f)'
  <2>1. Sound(f) /\ opened' = opened /\ tunnel' = tunnel /\ op'[f] = op[f] /\ restoreFile' = restoreFile /\ lost' = lost
    BY DEF AllSound, RowOnly
  <2>2. op[f].step # "idle" => Head(ops'[f]) = Head(ops[f])
    BY HeadTyped DEF RowOnly, Types
  <2>3. Serial(f)' /\ Carried(f)'
    BY <1>1, <1>3, <2>1 DEF Sound, Serial, Carried
  <2>4. Shown(f)'
    BY <1>1, <1>3, <2>1, <2>2 DEF Sound, Shown
  <2>5. Listed(f)'
    BY <1>1, <1>3, <2>1 DEF Sound, Listed, Running, Alive
  <2>6. Known(f)'
    BY <1>1, <1>3, <2>1 DEF Sound, Known
  <2>7. NoPid(f)'
    BY <1>1, <1>3 DEF NoPid
  <2> QED
    BY <2>3, <2>4, <2>5, <2>6, <2>7 DEF Sound
<1> QED
  BY <1>1, <1>2, <1>3, RowOnlyIsSound

LEMMA ListenerIsSound ==
  ASSUME Types, AllSound, NEW f \in Forwards, OnClose(f) \/ OnError(f)
  PROVE  Types' /\ AllSound' /\ (managed' = managed \/ server' # "down")
<1>1. /\ managed[f] # 0 \/ f \in Builtin
      /\ server # "down" /\ UNCHANGED <<restoreFile, tunnel, opened, ops, op, due>>
      /\ row' = [row EXCEPT ![f] = FailedRow(f)] /\ UNCHANGED tasks
      /\ \/ managed' = managed
         \/ managed' = [managed EXCEPT ![f] = 0] /\ managed[f] # 0 /\ ~tunnel[managed[f]].up
  BY DEF OnClose, OnError, queues, Idle
<1>2. row[f].pid = 0
  BY <1>1 DEF AllSound, Sound, Carried
<1>3. /\ managed' \in [Forwards -> 0..opened] /\ \A g \in Forwards : g # f => managed'[g] = managed[g]
      /\ managed'[f] = managed[f] \/ (managed'[f] = 0 /\ managed[f] # 0 /\ ~tunnel[managed[f]].up)
  BY <1>1 DEF Types, StoreTyped
<1>4. RowOnly(f)
  BY <1>1, <1>3 DEF RowOnly, tasks
<1>5. QueuesTyped'
  BY <1>1, UnqueuedTyped DEF Types
<1>6. TasksTyped'
  BY <1>1, BatchesTyped, KeepersTyped, ServerStaysTyped DEF Types, TasksTyped, tasks
<1> QED
  BY <1>1, <1>2, <1>3, <1>4, <1>5, <1>6, FailsIsSound DEF Types, tasks

LEMMA KeeperAnsweredIsSound ==
  ASSUME Types, AllSound, NEW f \in Forwards, NEW answer \in Answers, KeeperAnswered(f, answer)
  PROVE  Types' /\ AllSound' /\ UNCHANGED <<server, managed>>
<1> DEFINE d == [to |-> "keeper", f |-> f, answer |-> answer]
           fails == keeper.mode = "watch" /\ answer # "ok"
<1>1. /\ d \in due /\ due' \subseteq due
      /\ row' = [row EXCEPT ![f] = IF fails THEN FailedRow(f) ELSE row[f]]
      /\ UNCHANGED <<restoreFile, managed, tunnel, opened, ops, op>>
      /\ UNCHANGED <<batch, server, quit, sent, exits, lost>>
  BY DEF KeeperAnswered
<1>2. RowOnly(f)
  BY <1>1 DEF RowOnly, Types, StoreTyped
<1>3. StoreTyped' /\ AllSound'
  <2>1. CASE fails
    <3>1. row' = [row EXCEPT ![f] = FailedRow(f)]
      BY <1>1, <2>1
    <3>2. row[f].there => row[f].pid = 0
      BY <1>1, <2>1 DEF AllSound, Sound, NoPid
    <3> QED
      BY <1>1, <1>2, <3>1, <3>2, FailsIsSound
  <2>2. CASE ~fails
    <3>1. row' = row
      BY <1>1, <2>2 DEF Types, StoreTyped
    <3>2. QueuesTyped'
      BY <1>1, UnqueuedTyped DEF Types
    <3>3. Quiet
      BY <1>1, <3>1, <3>2 DEF Quiet, Types, StoreTyped
    <3> QED
      BY <3>3, QuietIsSound
  <2> QED
    BY <2>1, <2>2
<1>4. QueuesTyped'
  BY <1>1, UnqueuedTyped DEF Types
<1>5. KeeperTyped'
  <2> DEFINE rows == Tail(keeper.rows)
  <2>1. keeper' = [keeper EXCEPT !.step = "rows", !.rows = rows]
    BY DEF KeeperAnswered
  <2> HIDE DEF rows
  <2> QED
    BY <2>1, KeepersTyped DEF Types, TasksTyped
<1>6. TasksTyped'
  BY <1>1, <1>5, BatchesTyped, ServerStaysTyped DEF Types, TasksTyped
<1> QED
  BY <1>1, <1>3, <1>4, <1>6 DEF Types

LEMMA DeletedIsSound ==
  ASSUME Types, AllSound, NEW f \in Forwards, NEW answer \in Answers, RowDeleted(f, answer)
  PROVE  Types' /\ AllSound' /\ UNCHANGED <<server, managed>>
<1> DEFINE b == row[f].there /\ answer # "ok"
           x == [row[f] EXCEPT !.there = b]
<1>1. /\ due' \subseteq due /\ UNCHANGED <<restoreFile, managed, tunnel, opened, ops, op>> /\ UNCHANGED tasks
      /\ row' = [row EXCEPT ![f] = x]
  BY DEF RowDeleted
<1>2. row[f] \in RowRecords
  BY DEF Types, StoreTyped
<1>3. b \in BOOLEAN /\ (b => row[f].there)
  OBVIOUS
<1> HIDE DEF b
<1>4. /\ x \in RowRecords /\ x.there = b /\ x.pid = row[f].pid /\ x.status = row[f].status
      /\ x.config = row[f].config /\ x.restore = row[f].restore
  BY <1>2, <1>3 DEF RowRecords
<1> HIDE DEF x
<1>5. RowOnly(f)
  BY <1>1 DEF RowOnly, Types, StoreTyped, tasks
<1>6. ASSUME row'[f] = x PROVE Sound(f)'
  BY <1>1, <1>3, <1>4, <1>6
     DEF AllSound, Sound, Serial, Carried, Shown, Listed, Known, NoPid, Running, Alive, tasks
<1>7. StoreTyped' /\ AllSound'
  BY <1>1, <1>4, <1>5, <1>6, RowOnlyIsSound
<1>8. QueuesTyped'
  BY <1>1, UnqueuedTyped DEF Types
<1>9. TasksTyped'
  BY <1>1, BatchesTyped, KeepersTyped, ServerStaysTyped DEF Types, TasksTyped, tasks
<1> QED
  BY <1>1, <1>7, <1>8, <1>9 DEF Types, tasks

(* The monitor shows a forward it starts again as reconnecting. *)
LEMMA KeeperRowIsSound ==
  ASSUME Types, AllSound, KeeperRow
  PROVE  Types' /\ AllSound' /\ UNCHANGED <<server, managed>>
<1> DEFINE f == Head(keeper.rows).f
           r == Start("keeper", TRUE)
           left == Tail(keeper.rows)
<1>1. UNCHANGED <<restoreFile, managed, tunnel, opened, op, due, batch, server, quit, sent, exits, lost>>
  BY DEF KeeperRow
<1>2. \/ /\ Enqueue(f, r) /\ keeper' = [keeper EXCEPT !.step = "awaits"]
         /\ \/ row' = row
            \/ managed[f] = 0 /\ row[f].there /\ row' = [row EXCEPT ![f].status = "reconnecting"]
      \/ keeper' = [keeper EXCEPT !.rows = left] /\ UNCHANGED <<row, ops>>
  <2>1. CASE keeper.mode = "restore" \/ NeedsReconnect(Head(keeper.rows))
    BY <2>1 DEF KeeperRow, NeedsReconnect
  <2>2. CASE ~(keeper.mode = "restore" \/ NeedsReconnect(Head(keeper.rows)))
    BY <2>2 DEF KeeperRow
  <2> QED
    BY <2>1, <2>2
<1>3. r \in OrderRecords
  BY OrdersTyped DEF Callers
<1> HIDE DEF f, r, left
<1>4. KeeperTyped /\ KeeperTyped'
  BY <1>2, KeepersTyped DEF Types, TasksTyped
<1>5. TasksTyped'
  BY <1>1, <1>4, BatchesTyped, ServerStaysTyped DEF Types, TasksTyped
<1>6. /\ QueuesTyped'
      /\ \A g \in Forwards : ops[g] # <<>> => ops'[g] # <<>> /\ Head(ops'[g]) = Head(ops[g])
  <2>1. CASE ops' = ops
    BY <1>1, <2>1, UnqueuedTyped DEF Types
  <2>2. CASE Enqueue(f, r)
    BY <1>1, <1>3, <2>2, EnqueueTyped DEF Types
  <2> QED
    BY <1>2, <2>1, <2>2
<1>7. CASE row' = row
  <2>1. Quiet
    BY <1>1, <1>6, <1>7 DEF Quiet, Types, StoreTyped
  <2> QED
    BY <1>1, <1>5, <1>6, <2>1, QuietIsSound DEF Types
<1>8. CASE f \in Forwards /\ managed[f] = 0 /\ row[f].there /\ row' = [row EXCEPT ![f].status = "reconnecting"]
  <2> DEFINE q == row[f]
             x == [q EXCEPT !.status = "reconnecting"]
  <2>1. q \in RowRecords
    BY <1>8 DEF Types, StoreTyped
  <2> HIDE DEF q
  <2>2. /\ x \in RowRecords /\ x.there = q.there /\ x.pid = q.pid /\ x.status = "reconnecting"
        /\ x.config = q.config /\ x.restore = q.restore
    BY <2>1 DEF RowRecords, Statuses
  <2>3. row' = [row EXCEPT ![f] = x]
    BY <1>8 DEF q
  <2> HIDE DEF x
  <2>4. PICK h \in Forwards : h = f
    BY <1>8
  <2>5. RowOnly(h)
    BY <1>1, <1>6 DEF RowOnly, Types, StoreTyped
  <2>6. ASSUME row'[h] = x PROVE Sound(h)'
    <3>1. Sound(h) /\ managed[h] = 0 /\ q = row[h]
      BY <1>8, <2>4 DEF AllSound, q
    <3>2. op[h].step # "idle" => Head(ops'[h]) = Head(ops[h])
      BY <1>6, HeadTyped DEF Types
    <3> QED
      BY <1>1, <2>2, <2>6, <3>1, <3>2 DEF Sound, Serial, Carried, Shown, Listed, Known, NoPid, Running, Alive
  <2>7. StoreTyped' /\ AllSound'
    BY <2>2, <2>3, <2>4, <2>5, <2>6, RowOnlyIsSound
  <2> QED
    BY <1>1, <1>5, <1>6, <2>7 DEF Types
<1>9. CASE f \notin Forwards /\ row' = [row EXCEPT ![f].status = "reconnecting"]
  <2>1. row' = row
    BY <1>9 DEF Types, StoreTyped
  <2> QED
    BY <1>7, <2>1
<1> QED
  BY <1>2, <1>7, <1>8, <1>9

LEMMA TunnelDiesIsSound ==
  ASSUME Types, AllSound, NEW t \in Tunnels, TunnelDies(t)
  PROVE  Types' /\ AllSound' /\ UNCHANGED <<server, managed>>
<1>1. /\ Kill({t}) /\ UNCHANGED <<row, restoreFile, managed, opened, ops, op, due>> /\ UNCHANGED tasks
  BY DEF TunnelDies, queues
<1>2. TunnelsAge /\ tunnel' \in [Tunnels -> TunnelRecords]
  BY <1>1, KilledAge DEF Types
<1>3. StoreTyped' /\ QueuesTyped'
  BY <1>1, <1>2, UnqueuedTyped DEF Types, StoreTyped, RowRecords, TunnelRecords
<1>4. TasksTyped'
  BY <1>1, BatchesTyped, KeepersTyped, ServerStaysTyped DEF Types, TasksTyped, tasks
<1>5. ASSUME NEW g \in Forwards PROVE Untouched(g)
  BY <1>1 DEF Untouched, Types, StoreTyped
<1>6. AllSound'
  BY <1>1, <1>2, <1>3, <1>5, UntouchedStaysSound DEF AllSound, tasks
<1> QED
  BY <1>1, <1>3, <1>4, <1>6 DEF Types, tasks

-----------------------------------------------------------------------------
(* The end and the beginning of the process. *)

LEMMA EndIsSound ==
  ASSUME Types, AllSound, Exit \/ Crash
  PROVE  FInv'
<1>1. /\ server' = "down" /\ exits' = exits + 1 /\ quit' = {} /\ Kill({t \in Tunnels : tunnel[t].of \in Builtin})
      /\ managed' = [f \in Forwards |-> 0] /\ ops' = [f \in Forwards |-> <<>>] /\ op' = [f \in Forwards |-> NoOp]
      /\ due' = {}
      /\ lost' = lost \cup {op[f].child : f \in {g \in Forwards : op[g].step = "watching"}}
      /\ keeper' = Resting /\ batch' = NoBatch /\ UNCHANGED <<row, restoreFile, opened, sent>>
  BY DEF Exit, Crash, ProcessEnds
<1>2. exits < MaxExits
  BY DEF Exit, Crash, Types, TasksTyped, ServerTyped
<1>3. /\ TunnelsAge
      /\ tunnel' \in [Tunnels -> TunnelRecords]
      /\ \A t \in 1..opened : t \in {u \in Tunnels : tunnel[u].of \in Builtin} => ~tunnel'[t].up
  BY <1>1, KilledAge DEF Types
<1>4. opened \in Nat /\ opened' = opened /\ 1..opened \subseteq Tunnels
  BY <1>1, Constants DEF Types, StoreTyped, Tunnels
<1>5. StoreTyped'
  <2>1. managed' \in [Forwards -> 0..opened]
    BY <1>1, <1>4
  <2> QED
    BY <1>1, <1>3, <2>1 DEF Types, StoreTyped, RowRecords, TunnelRecords
<1>6. QueuesTyped'
  <2>1. NoOp \in OpRecords
    BY <1>4, NoOpTyped
  <2>2. NoOp \in OpRecords'
    BY <1>4, <2>1 DEF OpRecords
  <2>3. ops' \in [Forwards -> Seq(OrderRecords')] /\ op' \in [Forwards -> OpRecords']
    BY <1>1, <2>2
  <2> QED
    BY <1>1, <2>3 DEF QueuesTyped
<1>7. TasksTyped'
  <2>1. ServerTyped'
    BY <1>1, <1>2, Constants DEF Types, TasksTyped, ServerTyped
  <2> QED
    BY <1>1, <2>1, BatchesTyped, KeepersTyped DEF Types, TasksTyped
<1>8. ASSUME NEW f \in Forwards PROVE Sound(f)'
  <2>1. /\ managed'[f] = 0 /\ op'[f] = NoOp /\ NoOp.step = "idle" /\ NoOp.child = 0 /\ row'[f] = row[f] /\ Sound(f)
    BY <1>1 DEF NoOp, AllSound
  <2>2. row[f].pid \in 0..opened
    BY DEF Types, StoreTyped, RowRecords
  <2>3. row[f].pid # 0 => tunnel'[row[f].pid].config = tunnel[row[f].pid].config
                          /\ (tunnel'[row[f].pid].up => tunnel[row[f].pid].up)
    BY <1>3, <1>4, <2>2 DEF TunnelsAge
  <2>4. Serial(f)' /\ Carried(f)'
    BY <2>1 DEF Serial, Carried, Sound
  <2>5. Shown(f)'
    BY <2>1, <2>3 DEF Shown, Sound
  <2>6. Listed(f)' /\ NoPid(f)'
    BY <1>1, <2>1, <2>3 DEF Listed, NoPid, Running, Alive, Sound
  <2>7. Known(f)'
    <3> SUFFICES ASSUME NEW t \in 1..opened, tunnel'[t].of = f, tunnel'[t].up, row'[f].there, t \notin lost'
                 PROVE  t = row[f].pid
      BY <1>4, <2>1 DEF Known
    <3>1. t # 0 /\ t \in Tunnels /\ tunnel[t].of = f /\ tunnel[t].up /\ row[f].there /\ t \notin lost
      BY <1>1, <1>3, <1>4, <2>1 DEF TunnelsAge
    <3>2. f \notin Builtin
      BY <1>3, <3>1
    <3>3. t \in {managed[f], row[f].pid, op[f].child} /\ managed[f] = 0
      BY <2>1, <3>1, <3>2 DEF Sound, Known, Carried
    <3>4. op[f].child # 0 => op[f].step = "watching"
      BY <2>1, <3>2 DEF Sound, Serial, Carried
    <3> QED
      BY <1>1, <3>1, <3>3, <3>4
  <2> QED
    BY <2>4, <2>5, <2>6, <2>7 DEF Sound
<1> QED
  BY <1>1, <1>5, <1>6, <1>7, <1>8 DEF FInv, Types, AllSound, Down

LEMMA BootIsSound ==
  ASSUME FInv, Boot
  PROVE  FInv'
<1>1. /\ server = "down" /\ server' = "up" /\ row' = [f \in Forwards |-> Booted(f)]
      /\ keeper' = [Resting EXCEPT !.mode = "auto", !.step = "tick"]
      /\ UNCHANGED <<restoreFile, managed, tunnel, opened, ops, op, due, batch, quit, sent, exits, lost>>
  BY DEF Boot, queues
<1>2. Types /\ AllSound /\ managed = [f \in Forwards |-> 0]
  BY <1>1 DEF FInv, Down
<1>3. ASSUME NEW f \in Forwards
      PROVE  /\ row'[f] \in RowRecords /\ row'[f].there = row[f].there /\ row'[f].pid = row[f].pid
             /\ row'[f].config = row[f].config /\ row'[f].restore = row[f].restore
  <2>1. row[f] \in RowRecords
    BY <1>2 DEF Types, StoreTyped
  <2>2. row'[f] = Booted(f)
    BY <1>1
  <2>3. row'[f] = row[f] \/ row'[f] = [row[f] EXCEPT !.status = "stopped"]
    BY <2>2 DEF Booted
  <2> QED
    BY <2>1, <2>3 DEF RowRecords, Statuses
<1>4. StoreTyped'
  <2>1. row' \in [Forwards -> RowRecords]
    BY <1>1, <1>3
  <2> QED
    BY <1>1, <1>2, <2>1 DEF Types, StoreTyped, RowRecords, TunnelRecords
<1>5. QueuesTyped'
  BY <1>1, <1>2, UnqueuedTyped DEF Types
<1>6. TasksTyped'
  <2>1. ServerTyped'
    BY <1>1, <1>2 DEF Types, TasksTyped, ServerTyped
  <2> QED
    BY <1>1, <1>2, <2>1, BatchesTyped, KeepersTyped DEF Types, TasksTyped
<1>7. ASSUME NEW f \in Forwards PROVE Sound(f)'
  <2>1. Sound(f) /\ managed[f] = 0
    BY <1>2 DEF AllSound
  <2> QED
    BY <1>1, <1>3, <2>1 DEF Sound, Serial, Carried, Shown, Listed, Known, NoPid, Running, Alive
<1> QED
  BY <1>1, <1>4, <1>5, <1>6, <1>7 DEF FInv, Types, AllSound, Down
-----------------------------------------------------------------------------
(* All steps together. *)

LEMMA OpStepIsSound ==
  ASSUME Types, AllSound, NEW f \in Forwards, OpStep(f)
  PROVE  Types' /\ AllSound' /\ server' # "down"
<1>1. Sound(f)
  BY DEF AllSound
<1>2. StepOf(f)
  BY <1>1, BeginIsSound, ManagedClosedIsSound, PortIsSound, StartFailsIsSound, OpenManagedIsSound, SpawnIsSound,
     ChildRunsIsSound DEF OpStep
<1>3. UNCHANGED tasks /\ server # "down"
  BY DEF OpStep, BeginOp, ManagedClosed, PortFree, PortOccupied, PortCleaned, PortFreed, Untrusted, OpenManaged,
         OpenFails, SpawnChild, ChildRuns, ChildExited, Idle
<1>4. TasksTyped'
  BY <1>3, BatchesTyped, KeepersTyped, ServerStaysTyped DEF Types, TasksTyped, tasks
<1>5. \A g \in Forwards : Sound(g)'
  BY <1>2, <1>3, UntouchedStaysSound DEF StepOf, AllSound, tasks
<1> QED
  BY <1>2, <1>3, <1>4, <1>5 DEF Types, AllSound, StepOf, tasks

LEMMA StutterIsSound ==
  ASSUME FInv, UNCHANGED fvars
  PROVE  FInv'
<1>1. /\ UNCHANGED <<row, restoreFile, managed, tunnel, opened, ops, op, due, keeper, batch, server, quit, sent, exits, lost>>
      /\ Types /\ AllSound
  BY DEF fvars, store, queues, tasks, FInv
<1>2. QueuesTyped'
  BY <1>1, UnqueuedTyped DEF Types
<1>3. TasksTyped'
  BY <1>1, BatchesTyped, KeepersTyped, ServerStaysTyped DEF Types, TasksTyped
<1>4. Quiet
  BY <1>1, <1>2 DEF Quiet, Types, StoreTyped
<1> QED
  BY <1>1, <1>2, <1>3, <1>4, QuietIsSound DEF FInv, Types, Down

LEMMA NextInv == FInv /\ [FNext]_fvars => FInv'
<1> SUFFICES ASSUME FInv, [FNext]_fvars PROVE FInv'
  OBVIOUS
<1> USE DEF FInv
<1>1. ASSUME NEW f \in Forwards, OpStep(f) PROVE FInv'
  BY <1>1, OpStepIsSound DEF Down
<1>2. ASSUME NEW f \in Forwards, Answered(f) PROVE FInv'
  <2>1. PICK answer \in Answers :
          RowDeleted(f, answer) \/ BatchAnswered(f, answer) \/ KeeperAnswered(f, answer) \/ StopAnswered(f, answer)
    BY <1>2 DEF Answered
  <2>2. Types' /\ AllSound' /\ UNCHANGED <<server, managed>>
    BY <2>1, DeletedIsSound, BatchAnsweredIsSound, KeeperAnsweredIsSound, StopAnsweredIsSound
  <2> QED
    BY <2>2 DEF Down
<1>3. ASSUME NEW f \in Forwards, OnClose(f) \/ OnError(f) PROVE FInv'
  <2>1. UNCHANGED server
    BY <1>3 DEF OnClose, OnError, tasks
  <2> QED
    BY <1>3, <2>1, ListenerIsSound DEF Down
<1>4. ASSUME NEW t \in Tunnels, TunnelDies(t) PROVE FInv'
  BY <1>4, TunnelDiesIsSound DEF Down
<1>5. CASE KeeperStep
  BY <1>5, KeeperIsSound, KeeperRowIsSound DEF KeeperStep, Down
<1>6. CASE FUser
  BY <1>6, UserIsSound DEF Down
<1>7. CASE Process
  <2>1. CASE ShutdownBegins \/ StopsAll
    BY <2>1, ShutdownIsSound DEF Down
  <2>2. CASE Exit \/ Crash
    BY <2>2, EndIsSound
  <2>3. CASE Boot
    BY <2>3, BootIsSound
  <2> QED
    BY <1>7, <2>1, <2>2, <2>3 DEF Process
<1>8. CASE UNCHANGED fvars
  BY <1>8, StutterIsSound
<1> QED
  BY <1>1, <1>2, <1>3, <1>4, <1>5, <1>6, <1>7, <1>8 DEF FNext

(* Whatever is asked of the forwards, fails, dies or is restarted.          *)
THEOREM ForwardsInvariant == FSafety => []FInv
BY InitInv, NextInv, PTL DEF FSafety

(* The state of the forwards keeps its type. *)
THEOREM ForwardsTypeCorrect == FSafety => []FTypeOK
<1>1. FInv => FTypeOK
  <2> SUFFICES ASSUME FInv PROVE FTypeOK
    OBVIOUS
  <2>1. exits \in 0..(2 * MaxExits)
    BY Constants DEF FInv, Types, TasksTyped, ServerTyped
  <2>2. /\ keeper.step \in {"idle", "tick", "rows", "awaits", "batch"} /\ keeper.mode \in {"auto", "restore", "watch"}
        /\ batch.step \in {"idle", "stopping", "starting"} /\ batch.stops \subseteq Forwards
    BY DEF FInv, Types, TasksTyped, KeeperTyped, BatchTyped
  <2> QED
    BY <2>1, <2>2 DEF FTypeOK, FInv, Types, StoreTyped, QueuesTyped, TasksTyped, ServerTyped, RowRecords, OrderRecords,
                      OpRecords, TunnelRecords, DueRecords
<1> QED
  BY <1>1, ForwardsInvariant, PTL

(* No tunnel is left behind: one that is up is in the map of the built-in   *)
(* client, in its row, or in the hands of the operation that opens or       *)
(* closes it (stopForwardRuntime, performStartForwardInternal, onClose, the *)
(* monitor and the startup migration, in any order).                        *)
THEOREM NoTunnelIsForgotten == FSafety => []TunnelsKnown
<1>1. FInv => TunnelsKnown
  <2> SUFFICES ASSUME FInv, NEW t \in Tunnels, t \in 1..opened, tunnel[t].up, row[tunnel[t].of].there, t \notin lost
               PROVE  t \in {managed[tunnel[t].of], row[tunnel[t].of].pid, op[tunnel[t].of].child}
    BY Zenon DEF TunnelsKnown
  <2>1. tunnel[t].of \in Forwards
    BY DEF FInv, Types, StoreTyped, TunnelRecords
  <2> QED
    BY <2>1 DEF FInv, AllSound, Sound, Known
<1> QED
  BY <1>1, ForwardsInvariant, PTL

(* A tunnel runs the configuration its row shows: an edit takes effect, is  *)
(* rolled back (restoreConfiguration), or leaves the forward down.          *)
THEOREM RowsShowTheirTunnels == FSafety => []TunnelRunsItsRow
<1>1. FInv => TunnelRunsItsRow
  BY DEF FInv, AllSound, Sound, Shown, TunnelRunsItsRow, Rows
<1> QED
  BY <1>1, ForwardsInvariant, PTL

(* What runs will be restored after a restart: no stop, failure or batch of *)
(* other forwards takes a running one off the list.                         *)
THEOREM RunningOnesAreRestored == FSafety => []RunningIsRestored
<1>1. FInv => RunningIsRestored
  BY DEF FInv, AllSound, Sound, Listed, RunningIsRestored, Rows
<1> QED
  BY <1>1, ForwardsInvariant, PTL
=============================================================================
