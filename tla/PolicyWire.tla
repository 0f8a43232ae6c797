----------------------------- MODULE PolicyWire -----------------------------
(* policy/null_server.py with policy/wire.py, and policy/server.py's Policy    *)
(* behind the same handler: one process, a websocket server per port, a        *)
(* handler per connection, one policy per port for all its connections.  The   *)
(* client is an evaluator, which runs one rollout per connection and has one   *)
(* connection at a time: the official one waits without a limit and sends      *)
(* resets, tests/mock_evaluator.py has timeouts.  asyncio switches handlers    *)
(* only where they await, so a handler's step runs from one await to the next. *)
EXTENDS Integers, Sequences, FiniteSets

CONSTANTS
    Ports,       \* base_port .. base_port + num_servers - 1
    MaxConns,    \* bound: rollouts per port
    Steps,       \* observations of a rollout
    MaxResets,   \* bound: resets of a rollout
    Horizon,     \* steps of an inferred chunk
    Options,     \* [policy, key, metadata, fits]: which policy, --action-key,
                 \* send_metadata, whether --action-dim is the robot's
    MaxFaults    \* bound: timeouts, killed clients, undecodable frames, a taken port, SIGTERM

ASSUME WireConstants ==
    /\ MaxConns \in Nat /\ Steps \in Nat \ {0} /\ Horizon \in Nat \ {0}
    /\ MaxResets \in Nat /\ MaxFaults \in Nat
    /\ Options \subseteq [policy : {"null", "chunked"}, key : {"action", "actions"}, metadata : BOOLEAN, fits : BOOLEAN]

Conns == Ports \X (1 .. MaxConns)
Before(c, d) == c[1] = d[1] /\ c[2] < d[2]

VARIABLES
    opt, client,    \* the command line; per port: "official" or "mock"
    proc, listening,\* the server process: "up", "stopped" or "crashed"; ports being served
    up, down,       \* per connection: frames on the way to the server and to the client
    open,           \* per connection: neither end has closed it
    hpc,            \* its handler: "none", "begin", "run", "end"
    cpc,            \* its rollout: "none", "meta", "ready", "wait", "done", "failed"
    sent, resets,   \* observations and resets sent
    heard,          \* answers taken: [for, from], the observation answered and the one it was inferred from
    chunk,          \* per port: Policy._chunk
    mixed,          \* history: ports where an older connection's frame was handled after a newer one began
    faults

server == <<proc, listening>>
channel == <<up, down, open>>
rollout == <<cpc, sent, resets, heard>>
policy == <<chunk, mixed>>
setup == <<opt, client>>
vars == <<setup, server, channel, hpc, rollout, policy, faults>>

Each(x) == [c \in Conns |-> x]

Init ==
    /\ opt \in Options /\ client \in [Ports -> {"official", "mock"}]
    /\ proc = "up" /\ listening = {}
    /\ up = Each(<<>>) /\ down = Each(<<>>) /\ open = Each(FALSE)
    /\ hpc = Each("none") /\ cpc = Each("none") /\ sent = Each(0) /\ resets = Each(0)
    /\ heard = Each(<<>>)
    /\ chunk = [p \in Ports |-> <<>>] /\ mixed = {} /\ faults = 0

Fault == faults < MaxFaults /\ faults' = faults + 1
Send(ch, c, frame) == [ch EXCEPT ![c] = Append(@, frame)]
Hangup(c) == open' = [open EXCEPT ![c] = FALSE]
Over(c) == cpc[c] \in {"done", "failed"}

-----------------------------------------------------------------------------
(* The server process *)

Serve(p) ==
    /\ proc = "up" /\ p \notin listening /\ listening' = listening \union {p}
    /\ UNCHANGED <<setup, proc, channel, hpc, rollout, policy, faults>>

\* asyncio.wait returns at the first task to end; the others are cancelled.
AllCancelled(outcome) ==
    /\ proc = "up" /\ proc' = outcome /\ listening' = {} /\ Fault
    /\ open' = Each(FALSE) /\ hpc' = [c \in Conns |-> IF hpc[c] = "none" THEN "none" ELSE "end"]
    /\ UNCHANGED <<setup, up, down, rollout, policy>>

PortTaken(p) == p \notin listening /\ AllCancelled("crashed")
StopSignal == AllCancelled("stopped")

-----------------------------------------------------------------------------
(* A connection's handler *)

Meta == [kind |-> "metadata", key |-> "", for |-> 0, from |-> <<>>]
Obs(n) == [kind |-> "obs", n |-> n]
ResetFrame == [kind |-> "reset", n |-> 0]
Garbled == [kind |-> "garbled", n |-> 0]
Action(c, n, from) == [kind |-> "action", key |-> opt.key, for |-> n, from |-> from]

PolicyReset(p) == chunk' = [chunk EXCEPT ![p] = <<>>]

\* Mutant: a connection inherits the policy as the previous one left it.
HandlerKeeps(c) ==
    /\ hpc[c] = "begin" /\ hpc' = [hpc EXCEPT ![c] = "run"]
    /\ down' = IF opt.metadata /\ open[c] THEN Send(down, c, Meta) ELSE down
    /\ UNCHANGED <<setup, server, up, open, rollout, chunk, mixed, faults>>

HandlerBegins(c) ==
    /\ hpc[c] = "begin" /\ hpc' = [hpc EXCEPT ![c] = "run"]
    /\ PolicyReset(c[1])
    /\ down' = IF opt.metadata /\ open[c] THEN Send(down, c, Meta) ELSE down
    /\ UNCHANGED <<setup, server, up, open, rollout, mixed, faults>>

\* Policy.act holds a chunk and infers again only when it runs out.
Chunk(c, n) == IF chunk[c[1]] = <<>> THEN [k \in 1 .. Horizon |-> <<c, n>>] ELSE chunk[c[1]]

Act(c, n) ==
    IF opt.policy = "null" THEN chunk' = chunk
    ELSE chunk' = [chunk EXCEPT ![c[1]] = Tail(Chunk(c, n))]

Inferred(c, n) == IF opt.policy = "null" THEN <<c, n>> ELSE Head(Chunk(c, n))

Takes(c, frame) ==
    /\ hpc[c] = "run" /\ up[c] # <<>> /\ frame = Head(up[c])
    /\ up' = [up EXCEPT ![c] = Tail(@)]

\* A send on a closed connection raises and ends the handler.
HandlesObs(c) ==
    \E n \in 1 .. Steps :
        /\ Takes(c, Obs(n)) /\ Act(c, n)
        /\ down' = IF open[c] THEN Send(down, c, Action(c, n, Inferred(c, n))) ELSE down
        /\ hpc' = [hpc EXCEPT ![c] = IF open[c] THEN "run" ELSE "end"]
        /\ mixed' = mixed \union {d[1] : d \in {x \in Conns : Before(c, x) /\ hpc[x] = "run"}}
        /\ UNCHANGED <<setup, server, open, rollout, faults>>

\* Mutant: a reset is answered.
RepliesToReset(c) ==
    /\ Takes(c, ResetFrame) /\ PolicyReset(c[1])
    /\ down' = IF open[c] THEN Send(down, c, Action(c, 0, <<c, 0>>)) ELSE down
    /\ UNCHANGED <<setup, server, open, hpc, rollout, mixed, faults>>

HandlesReset(c) ==
    /\ Takes(c, ResetFrame) /\ PolicyReset(c[1])
    /\ UNCHANGED <<setup, server, down, open, hpc, rollout, mixed, faults>>

\* Mutant: the error is logged and the loop goes on.
SkipsGarbled(c) ==
    /\ Takes(c, Garbled)
    /\ UNCHANGED <<setup, server, down, open, hpc, rollout, policy, faults>>

\* unpack raises, the handler fails and the connection is closed.
HandlesGarbled(c) ==
    /\ Takes(c, Garbled) /\ hpc' = [hpc EXCEPT ![c] = "end"] /\ Hangup(c)
    /\ UNCHANGED <<setup, server, down, rollout, policy, faults>>

\* ConnectionClosed; whether frames that came before the close are still read is left open.
HandlerEnds(c) ==
    /\ hpc[c] = "run" /\ ~open[c] /\ hpc' = [hpc EXCEPT ![c] = "end"]
    /\ UNCHANGED <<setup, server, channel, rollout, policy, faults>>

Handler(c) == HandlerBegins(c) \/ HandlesObs(c) \/ HandlesReset(c) \/ HandlesGarbled(c) \/ HandlerEnds(c)

-----------------------------------------------------------------------------
(* The evaluator *)

Goto(c, pc) == cpc' = [cpc EXCEPT ![c] = pc]

\* /healthz answers 200, then the websocket is opened.
Connects(c) ==
    /\ cpc[c] = "none" /\ c[1] \in listening /\ \A d \in Conns : Before(d, c) => Over(d)
    /\ Goto(c, "meta") /\ open' = [open EXCEPT ![c] = TRUE] /\ hpc' = [hpc EXCEPT ![c] = "begin"]
    /\ UNCHANGED <<setup, server, up, down, sent, resets, heard, policy, faults>>

ReadsMetadata(c) ==
    /\ cpc[c] = "meta" /\ down[c] # <<>> /\ down' = [down EXCEPT ![c] = Tail(@)] /\ Goto(c, "ready")
    /\ UNCHANGED <<setup, server, up, open, hpc, sent, resets, heard, policy, faults>>

\* The mock takes half a second for a server that sends none.
MetadataTimeout(c) ==
    /\ cpc[c] = "meta" /\ client[c[1]] = "mock" /\ down[c] = <<>> /\ open[c] /\ Goto(c, "ready")
    /\ UNCHANGED <<setup, server, channel, hpc, sent, resets, heard, policy, faults>>

SendsReset(c) ==
    /\ cpc[c] = "ready" /\ open[c] /\ client[c[1]] = "official" /\ resets[c] < MaxResets
    /\ resets' = [resets EXCEPT ![c] = @ + 1] /\ up' = Send(up, c, ResetFrame)
    /\ UNCHANGED <<setup, server, down, open, hpc, cpc, sent, heard, policy, faults>>

Asks(c, frame) ==
    /\ cpc[c] = "ready" /\ open[c] /\ sent[c] < Steps /\ Goto(c, "wait")
    /\ sent' = [sent EXCEPT ![c] = @ + 1] /\ up' = Send(up, c, frame)
    /\ UNCHANGED <<setup, server, down, open, hpc, resets, heard, policy>>

SendsObs(c) == Asks(c, Obs(sent[c] + 1)) /\ UNCHANGED faults
SendsGarbled(c) == Asks(c, Garbled) /\ Fault

\* The official client knows one key, extract_action both.
Keys(p) == IF client[p] = "official" THEN {"action"} ELSE {"action", "actions"}
ActionIn(frame, p) == frame.kind = "action" /\ frame.key \in Keys(p) /\ opt.fits

TakesAction(c) ==
    /\ cpc[c] = "wait" /\ down[c] # <<>> /\ ActionIn(Head(down[c]), c[1])
    /\ down' = [down EXCEPT ![c] = Tail(@)]
    /\ heard' = [heard EXCEPT ![c] = Append(@, [for |-> Head(down[c]).for, from |-> Head(down[c]).from])]
    /\ IF sent[c] = Steps THEN Goto(c, "done") /\ Hangup(c) ELSE Goto(c, "ready") /\ UNCHANGED open
    /\ UNCHANGED <<setup, server, up, hpc, sent, resets, policy, faults>>

RolloutFails(c) ==
    /\ Goto(c, "failed") /\ Hangup(c)
    /\ UNCHANGED <<setup, server, up, down, hpc, sent, resets, heard, policy>>

\* extract_action raises, or the width is not the robot's.
NoAction(c) == /\ cpc[c] = "wait" /\ down[c] # <<>> /\ ~ActionIn(Head(down[c]), c[1])
               /\ RolloutFails(c) /\ UNCHANGED faults

SeesClose(c) == /\ cpc[c] \in {"meta", "ready", "wait"} /\ ~open[c] /\ (cpc[c] = "ready" \/ down[c] = <<>>)
                /\ RolloutFails(c) /\ UNCHANGED faults

StepTimeout(c) == cpc[c] = "wait" /\ client[c[1]] = "mock" /\ down[c] = <<>> /\ Fault /\ RolloutFails(c)
Killed(c) == cpc[c] \in {"meta", "ready", "wait"} /\ Fault /\ RolloutFails(c)

Proceeds(c) == ReadsMetadata(c) \/ MetadataTimeout(c) \/ SendsObs(c) \/ TakesAction(c) \/ NoAction(c) \/ SeesClose(c)
Client(c) == Connects(c) \/ Proceeds(c) \/ SendsReset(c) \/ SendsGarbled(c) \/ StepTimeout(c) \/ Killed(c)

Next ==
    \/ \E p \in Ports : Serve(p) \/ PortTaken(p)
    \/ StopSignal
    \/ \E c \in Conns : Handler(c) \/ Client(c)

Spec == Init /\ [][Next]_vars
\* The event loop runs every handler that can go on, and the evaluator goes on when it can.
FairSpec == Spec /\ \A c \in Conns : WF_vars(Handler(c)) /\ WF_vars(Proceeds(c))

-----------------------------------------------------------------------------
(* Properties *)

StageOf(c) == CASE cpc[c] \in {"none", "meta"} -> "new" [] cpc[c] = "ready" -> "ready"
                [] cpc[c] = "wait" -> "asked" [] Over(c) -> "over"
Conversation == INSTANCE LockStep WITH
    stage <- [c \in Conns |-> StageOf(c)],
    asked <- sent,
    heard <- [c \in Conns |-> [n \in DOMAIN heard[c] |-> heard[c][n].for]]

\* Whatever is late, lost, closed or reset, the n-th action a rollout executes is
\* the one made for its n-th observation (wire.py:18, null_server.py:153: a reply
\* to a reset would shift every later action by one step).
InStep == Conversation!Spec

\* No action comes from a chunk inferred in another rollout, or more than a chunk
\* ago: the handler resets the policy it shares with the port's earlier
\* connections (null_server.py:134, server.py:85).  The exception is the race a
\* shared policy leaves: a frame of a dropped connection handled after the next
\* one began.
EpisodeStartsClean ==
    \A c \in Conns : c[1] \notin mixed =>
        \A n \in DOMAIN heard[c] :
            LET from == heard[c][n].from IN from[1] = c /\ n - from[2] \in 0 .. Horizon - 1

\* Every rollout that connected ends, answered or failed, unless an official
\* client waits for the metadata the server was told not to send (null_server.py:140).
RolloutsEnd ==
    \A c \in Conns :
        (cpc[c] = "meta" /\ (opt.metadata \/ client[c[1]] = "mock")) ~> Over(c)
=============================================================================
