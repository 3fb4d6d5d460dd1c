---------------------------- MODULE SftpSessions ----------------------------
(***************************************************************************)
(* The shared SSH client of one SFTP connection (src/src/sftp-session.ts): *)
(* every directory listing, file transfer and remote command of every tab  *)
(* goes through one session, kept in the `sessions` map.  Directory        *)
(* channels are pooled; other channels belong to whoever opened them.      *)
(*                                                                         *)
(* A new attempt to connect makes a new session record; an old one may     *)
(* still be dialling, and what it brings is thrown away.  A record's       *)
(* generation is bumped at most once after its creation, so `ended` stands *)
(* for "record.generation !== generation".                                 *)
(*                                                                         *)
(* Settled promises resume their waiters before the next event (~PIdle).   *)
(***************************************************************************)
EXTENDS Integers, FiniteSets

CONSTANTS
  Requests,     \* requests in flight
  MaxAsked,     \* bound on requests made
  MaxSessions,  \* bound on session records; there is no retry beyond it
  MaxChannels,  \* bound on channels at a time, at least MaxAsked
  MaxIdle       \* SFTP_DIRECTORY_CHANNEL_MAX_IDLE, 2 in the code

(* POST connect, readSftpDirectory (pooled), openSftpChannel, and           *)
(* spawnSftpSessionCommand                                                  *)
Kinds == {"connect", "read", "open", "exec"}
ASSUME PoolAssumption ==
  /\ MaxAsked \in Nat /\ MaxSessions \in Nat /\ MaxChannels \in Nat /\ MaxIdle \in Nat

Sessions == 1..MaxSessions
Channels == 1..MaxChannels

VARIABLES
  current,   \* sessions.get(id); 0 without an entry
  session,   \* the records made so far, and the SSH client of each
  channel,   \* entry: what the program keeps of it; open: it exists at the server
  request,   \* where a request waits
  made,      \* number of records made
  asked      \* number of requests made

pvars == <<current, session, channel, request, made, asked>>

NoSession == [status |-> "none", client |-> FALSE, ended |-> FALSE, outdated |-> FALSE, link |-> "none"]
NoChannel == [entry |-> "none", open |-> FALSE, of |-> 0]
NoRequest == [kind |-> "connect", pc |-> "none", of |-> 0, ch |-> 0, try |-> 0, killed |-> FALSE]

PInit ==
  /\ current = 0
  /\ session = [s \in Sessions |-> NoSession]
  /\ channel = [c \in Channels |-> NoChannel]
  /\ request = [q \in Requests |-> NoRequest]
  /\ made = 0 /\ asked = 0

PIdle == \A q \in Requests : request[q].pc \notin {"told", "refused"}

Usable(ss, s) == s # 0 /\ ss[s].status = "connected" /\ ss[s].client
Pooled == {"leased", "idle"}

(* closeSftpDirectoryChannels; a lease notices when it is given back. *)
WithoutPool(cs, s) ==
  [c \in Channels |-> IF cs[c].of = s /\ cs[c].entry = "leased" THEN [cs[c] EXCEPT !.entry = "closed", !.open = FALSE]
                      ELSE IF cs[c].of = s /\ cs[c].entry = "idle" THEN NoChannel ELSE cs[c]]

(* endSessionRecord *)
Ended(ss, s) ==
  IF s = 0 THEN ss
  ELSE [ss EXCEPT ![s] = [ss[s] EXCEPT !.ended = TRUE, !.client = FALSE,
                                       !.link = IF ss[s].client THEN "closing" ELSE ss[s].link]]

(* markDisconnected: the client is not ended, it has ended. *)
Disconnected(ss, s) == [ss EXCEPT ![s].status = "disconnected", ![s].client = FALSE]

-----------------------------------------------------------------------------
(* connectSftpSession, called by q when the records are ss and channels cs. *)
Connects(q, r, ss, cs) ==
  IF current # 0 /\ ~ss[current].outdated /\ Usable(ss, current)
  THEN /\ request' = [request EXCEPT ![q] = [r EXCEPT !.pc = "told"]]
       /\ session' = ss /\ channel' = cs
       /\ UNCHANGED <<current, made>>
  ELSE IF current # 0 /\ ~ss[current].outdated /\ ss[current].status = "connecting"
  THEN /\ request' = [request EXCEPT ![q] = [r EXCEPT !.pc = "waiting", !.of = current]]
       /\ session' = ss /\ channel' = cs
       /\ UNCHANGED <<current, made>>
  ELSE LET n == made + 1 IN
       /\ n \in Sessions
       /\ made' = n /\ current' = n
       /\ session' = [Ended(ss, current) EXCEPT ![n] = [NoSession EXCEPT !.status = "connecting", !.link = "dialing"]]
       /\ channel' = WithoutPool(cs, current)
       /\ request' = [request EXCEPT ![q] = [r EXCEPT !.pc = "waiting", !.of = n]]

Ask(q) ==
  /\ PIdle /\ request[q].pc = "none" /\ asked < MaxAsked
  /\ asked' = asked + 1
  /\ \E k \in Kinds : Connects(q, [NoRequest EXCEPT !.kind = k, !.try = 1], session, channel)

(* Resumes whoever awaits the connection of record s. *)
Tell(s, pc) ==
  request' = [q \in Requests |-> IF request[q].pc = "waiting" /\ request[q].of = s
                                 THEN [request[q] EXCEPT !.pc = pc] ELSE request[q]]

(* Mutant: only the map is looked at. *)
OvertakenByOther(s) == current # s
(* sessions.get(id) !== record || record.generation !== generation *)
Overtaken(s) == current # s \/ session[s].ended

Dialled(s) ==
  /\ PIdle /\ session[s].link = "dialing"
  /\ IF Overtaken(s)
     THEN /\ session' = [(IF current = s THEN Disconnected(session, s) ELSE session) EXCEPT ![s].link = "closing"]
          /\ Tell(s, "refused")
     ELSE /\ session' = [session EXCEPT ![s] = [@ EXCEPT !.status = "connected", !.client = TRUE, !.link = "open"]]
          /\ Tell(s, "told")
  /\ UNCHANGED <<current, channel, made, asked>>

DialFails(s) ==
  /\ PIdle /\ session[s].link = "dialing"
  /\ session' = [(IF current = s THEN Disconnected(session, s) ELSE session) EXCEPT ![s].link = "dead"]
  /\ Tell(s, "refused")
  /\ UNCHANGED <<current, channel, made, asked>>

-----------------------------------------------------------------------------
(* A request, between its awaits. *)

Ends(q) == request' = [request EXCEPT ![q] = NoRequest]
Fresh(c) == channel[c] = NoChannel /\ \A d \in 1..(c - 1) : channel[d] # NoChannel

(* Connected, or so it was told: take an idle channel or open one.          *)
LeaseIdle(q) ==
  /\ request[q].pc = "told" /\ request[q].kind = "read" /\ Usable(session, current)
  /\ \E c \in Channels :
       /\ channel[c].of = current /\ channel[c].entry = "idle"
       /\ channel' = [channel EXCEPT ![c].entry = "leased"]
       /\ request' = [request EXCEPT ![q].pc = "holding", ![q].ch = c]
  /\ UNCHANGED <<current, session, made, asked>>

OpenChannel(q) ==
  /\ request[q].pc = "told" /\ request[q].kind # "connect" /\ ~request[q].killed
  /\ Usable(session, current)
  /\ request[q].kind = "read" => \A c \in Channels : ~(channel[c].of = current /\ channel[c].entry = "idle")
  /\ \E c \in Channels :
       /\ Fresh(c)
       /\ channel' = [channel EXCEPT ![c] = [entry |-> "opening", open |-> FALSE, of |-> current]]
       /\ request' = [request EXCEPT ![q].pc = "opening", ![q].ch = c]
  /\ UNCHANGED <<current, session, made, asked>>

(* Somebody has reset the session in this very turn. *)
ToldTooLate(q) ==
  /\ request[q].pc = "told" /\ request[q].kind # "connect" /\ ~request[q].killed
  /\ ~Usable(session, current)
  /\ request' = [request EXCEPT ![q].pc = "refused"]
  /\ UNCHANGED <<current, session, channel, made, asked>>

(* An explicit connect is answered; a killed command returns. *)
ToldEnough(q) ==
  /\ request[q].pc = "told" /\ (request[q].kind = "connect" \/ request[q].killed)
  /\ Ends(q)
  /\ UNCHANGED <<current, session, channel, made, asked>>

(* !record.client || record.status !== "connected" *)
Resets == current # 0 /\ ~Usable(session, current)

(* The catch block: an idle wait is over for "connect" and "read"; the      *)
(* others reset a session that is not connected and try once more.          *)
Refused(q) ==
  LET r == request[q]
      ss == IF Resets THEN [Ended(session, current) EXCEPT ![current].status = "disconnected"] ELSE session
      cs == IF Resets THEN WithoutPool(channel, current) ELSE channel
  IN
  /\ r.pc = "refused"
  /\ IF request[q].kind \in {"connect", "read"}
     THEN Ends(q) /\ UNCHANGED <<current, session, channel, made>>
     ELSE IF r.try = 1 /\ ~r.killed /\ made < MaxSessions
     THEN Connects(q, [NoRequest EXCEPT !.kind = r.kind, !.try = 2], ss, cs)
     ELSE Ends(q) /\ session' = ss /\ channel' = cs /\ UNCHANGED <<current, made>>
  /\ UNCHANGED asked

(* Mutant: the late channel is left open. *)
LateKept(c) == [channel[c] EXCEPT !.entry = "none", !.open = TRUE]
(* settled || child.killed: the channel is ended. *)
LateEnded(c) == NoChannel

(* The channel is there.  A pooled one is registered only under the record  *)
(* that is still the current one.                                           *)
ChannelOpened(q) ==
  LET c == request[q].ch
      s == channel[c].of
  IN
  /\ PIdle /\ request[q].pc = "opening" /\ session[s].link \in {"open", "closing"}
  /\ IF request[q].killed
     THEN channel' = [channel EXCEPT ![c] = LateEnded(c)] /\ Ends(q)
     ELSE IF request[q].kind # "read"
     THEN /\ channel' = [channel EXCEPT ![c] = [@ EXCEPT !.entry = "given", !.open = TRUE]]
          /\ request' = [request EXCEPT ![q].pc = "holding"]
     ELSE IF current = s /\ session[s].status = "connected"
     THEN /\ channel' = [channel EXCEPT ![c] = [@ EXCEPT !.entry = "leased", !.open = TRUE]]
          /\ request' = [request EXCEPT ![q].pc = "holding"]
     ELSE channel' = [channel EXCEPT ![c] = NoChannel] /\ Ends(q)
  /\ UNCHANGED <<current, session, made, asked>>

(* The server refuses one more channel, on a healthy client. *)
ChannelRefused(q) ==
  /\ PIdle /\ request[q].pc = "opening"
  /\ channel' = [channel EXCEPT ![request[q].ch] = NoChannel]
  /\ request' = [request EXCEPT ![q].pc = "refused", ![q].ch = 0]
  /\ UNCHANGED <<current, session, made, asked>>

LateChannel(c) ==
  /\ PIdle /\ channel[c].entry = "late" /\ session[channel[c].of].link \in {"open", "closing"}
  /\ channel' = [channel EXCEPT ![c] = LateEnded(c)]
  /\ UNCHANGED <<current, session, request, made, asked>>

-----------------------------------------------------------------------------
(* The end of a request. *)

Idlers(s) == {c \in Channels : channel[c].of = s /\ channel[c].entry = "idle"}
(* idle.slice(MAX_IDLE): the entry given back is the newest, the oldest go. *)
HasRoom(s) == Cardinality(Idlers(s)) < MaxIdle

(* releaseSftpDirectoryChannel, and for the others their caller's end().    *)
GivenBack(c, reusable) ==
  LET s == channel[c].of IN
  IF channel[c].entry # "leased" \/ ~reusable \/ current # s \/ session[s].status # "connected"
  THEN channel' = [channel EXCEPT ![c] = NoChannel]
  ELSE IF HasRoom(s) \/ Idlers(s) = {}
  THEN channel' = [channel EXCEPT ![c] = IF HasRoom(s) THEN [@ EXCEPT !.entry = "idle"] ELSE NoChannel]
  ELSE \E d \in Idlers(s) : channel' = [channel EXCEPT ![c].entry = "idle", ![d] = NoChannel]

Finish(q) ==
  /\ PIdle /\ request[q].pc = "holding"
  /\ \E ok \in BOOLEAN :      \* a read that fails does not give back a usable channel
       /\ ok => channel[request[q].ch].open
       /\ GivenBack(request[q].ch, ok)
  /\ Ends(q)
  /\ UNCHANGED <<current, session, made, asked>>

(* signal.abort() or child.kill().  A killed command that awaits its        *)
(* connection or its channel runs on to the check that follows.             *)
Abort(q) ==
  LET r == request[q] IN
  /\ PIdle /\ r.kind # "connect"
  /\ \/ /\ r.kind = "exec" /\ r.pc \in {"waiting", "opening"} /\ ~r.killed
        /\ request' = [request EXCEPT ![q].killed = TRUE]
        /\ UNCHANGED channel
     \/ /\ r.kind # "exec" /\ r.pc = "waiting"
        /\ Ends(q)
        /\ UNCHANGED channel
     \/ /\ r.kind # "exec" /\ r.pc = "opening"
        /\ channel' = [channel EXCEPT ![r.ch].entry = "late"]
        /\ Ends(q)
     \/ /\ r.pc = "holding"
        /\ GivenBack(r.ch, FALSE)
        /\ Ends(q)
  /\ UNCHANGED <<current, session, made, asked>>

(* The idle timer. *)
IdleTimeout(c) ==
  /\ PIdle /\ channel[c].entry = "idle"
  /\ channel' = [channel EXCEPT ![c] = NoChannel]
  /\ UNCHANGED <<current, session, request, made, asked>>

-----------------------------------------------------------------------------
(* The SSH client and the server. *)

(* "end" or "error": the session is marked, the socket is still closing.    *)
ClientDrops(s) ==
  /\ PIdle /\ session[s].link = "open"
  /\ session' = [Disconnected(session, s) EXCEPT ![s].link = "closing"]
  /\ channel' = WithoutPool(channel, s)
  /\ UNCHANGED <<current, request, made, asked>>

(* "close": channels being opened are refused, the others are gone.         *)
ClientCloses(s) ==
  /\ PIdle /\ session[s].link = "closing"
  /\ session' = [(IF session[s].status = "connecting" THEN session ELSE Disconnected(session, s)) EXCEPT ![s].link = "dead"]
  /\ channel' = [c \in Channels |->
       IF channel[c].of # s THEN channel[c]
       ELSE IF channel[c].entry \in {"given", "leased", "closed"} THEN [channel[c] EXCEPT !.entry = "closed", !.open = FALSE]
       ELSE NoChannel]
  /\ request' = [q \in Requests |-> IF request[q].pc = "opening" /\ channel[request[q].ch].of = s
                                    THEN [request[q] EXCEPT !.pc = "refused", !.ch = 0] ELSE request[q]]
  /\ UNCHANGED <<current, made, asked>>

(* markSftpDirectoryChannelClosed *)
ChannelCloses(c) ==
  /\ PIdle /\ channel[c].open
  /\ channel' = [channel EXCEPT ![c] = IF @.entry = "idle" THEN NoChannel ELSE [@ EXCEPT !.entry = "closed", !.open = FALSE]]
  /\ UNCHANGED <<current, session, request, made, asked>>

-----------------------------------------------------------------------------
(* The user. *)

(* disconnectSftpSession *)
Disconnect ==
  /\ PIdle /\ current # 0 /\ ~session[current].ended
  /\ session' = [Ended(session, current) EXCEPT ![current].status = "disconnected"]
  /\ channel' = WithoutPool(channel, current)
  /\ UNCHANGED <<current, request, made, asked>>

(* closeAllSftpSessions *)
CloseAll ==
  /\ PIdle /\ current # 0
  /\ session' = Ended(session, current)
  /\ channel' = WithoutPool(channel, current)
  /\ current' = 0
  /\ UNCHANGED <<request, made, asked>>

(* The connection is edited: the fingerprint no longer fits. *)
EditConnection ==
  /\ PIdle /\ current # 0 /\ ~session[current].outdated
  /\ session' = [session EXCEPT ![current].outdated = TRUE]
  /\ UNCHANGED <<current, channel, request, made, asked>>

RequestStep(q) ==
  \/ LeaseIdle(q) \/ OpenChannel(q) \/ ToldTooLate(q) \/ ToldEnough(q) \/ Refused(q)
  \/ ChannelOpened(q) \/ ChannelRefused(q) \/ Finish(q)
ClientStep(s) == Dialled(s) \/ DialFails(s) \/ ClientCloses(s)

PNext ==
  \/ \E q \in Requests : Ask(q) \/ RequestStep(q) \/ Abort(q)
  \/ \E s \in Sessions : ClientStep(s) \/ ClientDrops(s)
  \/ \E c \in Channels : LateChannel(c) \/ IdleTimeout(c) \/ ChannelCloses(c)
  \/ Disconnect \/ CloseAll \/ EditConnection

PSafety == PInit /\ [][PNext]_pvars

(* Dialling has a timeout, a closing socket closes, reads and commands end. *)
PFairness ==
  /\ \A q \in Requests : SF_pvars(RequestStep(q))
  /\ \A s \in Sessions : SF_pvars(ClientStep(s))
PSpec == PSafety /\ PFairness

-----------------------------------------------------------------------------
(* Properties. *)

PTypeOK ==
  /\ current \in 0..made /\ made \in 0..MaxSessions /\ asked \in 0..MaxAsked
  /\ session \in [Sessions -> [status : {"none", "connecting", "connected", "disconnected"}, client : BOOLEAN,
                               ended : BOOLEAN, outdated : BOOLEAN, link : {"none", "dialing", "open", "closing", "dead"}]]
  /\ channel \in [Channels -> [entry : {"none", "opening", "late", "closed", "given"} \cup Pooled,
                               open : BOOLEAN, of : 0..made]]
  /\ request \in [Requests -> [kind : Kinds, pc : {"none", "waiting", "told", "refused", "opening", "holding"}, of : 0..made,
                               ch : 0..MaxChannels, try : 0..2, killed : BOOLEAN]]

(* An SSH client that stays open is the one the map leads to: whatever was  *)
(* disconnected, edited or replaced while it dialled is not kept.           *)
OneClient ==
  \A s \in Sessions : session[s].link = "open" => s = current /\ session[s].client /\ ~session[s].ended

(* No channel is lost: one that is open at the server is in somebody's      *)
(* hands or idle in the pool of the connected session.                      *)
NoLostChannel ==
  \A c \in Channels :
    /\ channel[c].open => channel[c].entry \in {"leased", "given", "idle"}
    /\ channel[c].entry = "idle" => Usable(session, channel[c].of) /\ channel[c].of = current
    /\ channel[c].entry \in {"leased", "given", "closed"} =>
         Cardinality({q \in Requests : request[q].pc \in {"opening", "holding"} /\ request[q].ch = c}) = 1
    /\ Cardinality(Idlers(channel[c].of)) <= MaxIdle

(* Every request is answered. *)
RequestsEnd == \A q \in Requests : request[q].pc # "none" ~> request[q].pc = "none"

(* Only a session that was already marked disconnected is reset.            *)
ResetsOnlyDisconnected ==
  [][\A q \in Requests, s \in Sessions :
       request[q].pc = "refused" /\ ~session[s].ended /\ session'[s].ended
         => session[s].status = "disconnected"]_pvars
=============================================================================
