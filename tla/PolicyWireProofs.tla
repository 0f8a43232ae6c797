-------------------------- MODULE PolicyWireProofs --------------------------
(* Proofs about PolicyWire, for every number of ports, rollouts, steps, resets *)
(* and faults, every length of a chunk and every choice of command line.      *)
EXTENDS PolicyWire, TLAPS

Origins == Conns \X (1 .. Steps)
Requests == [kind : {"obs", "reset", "garbled"}, n : 0 .. Steps]
Answers == [kind : {"action"}, key : {"action", "actions"}, for : 1 .. Steps, from : Origins]
Replies == {Meta} \union Answers

\* The types of what the proofs read; `server` and `faults` only guard.
TypeInv ==
    /\ opt \in Options /\ client \in [Ports -> {"official", "mock"}]
    /\ up \in [Conns -> Seq(Requests)] /\ down \in [Conns -> Seq(Replies)]
    /\ open \in [Conns -> BOOLEAN]
    /\ hpc \in [Conns -> {"none", "begin", "run", "end"}]
    /\ cpc \in [Conns -> {"none", "meta", "ready", "wait", "done", "failed"}]
    /\ sent \in [Conns -> 0 .. Steps]
    /\ heard \in [Conns -> Seq([for : 1 .. Steps, from : Origins])]
    /\ chunk \in [Ports -> Seq(Origins)]
    /\ mixed \subseteq Ports

-----------------------------------------------------------------------------
(* Sequences, and the shape of frames *)

LEMMA TailFacts ==
    ASSUME NEW S, NEW s \in Seq(S), s # <<>>
    PROVE  /\ Head(s) \in S /\ Head(s) = s[1] /\ Tail(s) \in Seq(S) /\ Len(s) \in Nat \ {0}
           /\ Len(Tail(s)) = Len(s) - 1 /\ DOMAIN s = 1 .. Len(s)
           /\ DOMAIN Tail(s) = 1 .. Len(s) - 1 /\ \A k \in DOMAIN Tail(s) : Tail(s)[k] = s[k + 1]
  OBVIOUS

LEMMA AppendFacts ==
    ASSUME NEW S, NEW s \in Seq(S), NEW x \in S
    PROVE  /\ Append(s, x) \in Seq(S) /\ Len(s) \in Nat /\ Len(Append(s, x)) = Len(s) + 1
           /\ DOMAIN s = 1 .. Len(s) /\ DOMAIN Append(s, x) = 1 .. Len(s) + 1
           /\ \A k \in DOMAIN s : Append(s, x)[k] = s[k]
           /\ Append(s, x)[Len(s) + 1] = x
  OBVIOUS

LEMMA FrameTypes ==
    /\ Meta \in Replies /\ ResetFrame \in Requests /\ Garbled \in Requests
    /\ \A n \in 1 .. Steps : Obs(n) \in Requests
  BY WireConstants DEF Meta, Replies, ResetFrame, Garbled, Obs, Requests

LEMMA ConnTypes == \A c \in Conns : c[1] \in Ports /\ c[2] \in 1 .. MaxConns /\ c = <<c[1], c[2]>>
  BY DEF Conns

\* A chunk in use is never empty, and it holds origins.
LEMMA ChunkTypes ==
    ASSUME TypeInv, NEW c \in Conns, NEW n \in 1 .. Steps
    PROVE  Chunk(c, n) \in Seq(Origins) /\ Chunk(c, n) # <<>>
  <1>1. <<c, n>> \in Origins BY DEF Origins
  <1>2. c[1] \in Ports BY ConnTypes
  <1>3. CASE chunk[c[1]] = <<>>
    <2> DEFINE fresh == [k \in 1 .. Horizon |-> <<c, n>>]
    <2>1. fresh \in Seq(Origins) BY <1>1, WireConstants
    <2>2. Len(fresh) = Horizon BY WireConstants, <2>1
    <2>3. fresh # <<>> BY <2>2, WireConstants
    <2> QED BY <1>3, <2>1, <2>3 DEF Chunk
  <1>4. CASE chunk[c[1]] # <<>>
    BY <1>2, <1>4 DEF Chunk, TypeInv
  <1> QED BY <1>3, <1>4

LEMMA InferredType ==
    ASSUME TypeInv, NEW c \in Conns, NEW n \in 1 .. Steps
    PROVE  Inferred(c, n) \in Origins /\ Action(c, n, Inferred(c, n)) \in Replies
  <1>1. Inferred(c, n) \in Origins
    BY ChunkTypes, TailFacts DEF Inferred, Origins
  <1>2. opt.key \in {"action", "actions"} BY WireConstants DEF TypeInv
  <1> QED BY <1>1, <1>2 DEF Action, Replies, Answers

\* A step of the specification is one of these; the proofs below have one case each.
LEMMA StepOf ==
    ASSUME TypeInv, [Next]_vars
    PROVE  \/ UNCHANGED vars
           \/ \E p \in Ports : Serve(p)
           \/ \E outcome \in {"crashed", "stopped"} : AllCancelled(outcome)
           \/ \E c \in Conns : HandlerBegins(c) \/ HandlesObs(c) \/ HandlesReset(c)
                               \/ HandlesGarbled(c) \/ HandlerEnds(c)
           \/ \E c \in Conns : Connects(c) \/ ReadsMetadata(c) \/ MetadataTimeout(c) \/ SendsReset(c)
                               \/ TakesAction(c)
           \/ \E c \in Conns : \E frame \in {Obs(sent[c] + 1), Garbled} : frame \in Requests /\ Asks(c, frame)
           \/ \E c \in Conns : cpc[c] \in {"meta", "ready", "wait"} /\ RolloutFails(c)
  <1>1. ASSUME NEW c \in Conns, Handler(c)
        PROVE  HandlerBegins(c) \/ HandlesObs(c) \/ HandlesReset(c) \/ HandlesGarbled(c) \/ HandlerEnds(c)
    BY <1>1 DEF Handler
  <1>2. ASSUME NEW c \in Conns, SendsObs(c)
        PROVE  Obs(sent[c] + 1) \in Requests /\ Asks(c, Obs(sent[c] + 1))
    <2>1. sent[c] + 1 \in 1 .. Steps BY <1>2, WireConstants DEF SendsObs, Asks, TypeInv
    <2> QED BY <1>2, <2>1, FrameTypes DEF SendsObs
  <1>3. ASSUME NEW c \in Conns, SendsGarbled(c)
        PROVE  Garbled \in Requests /\ Asks(c, Garbled)
    BY <1>3, FrameTypes DEF SendsGarbled
  <1>4. ASSUME NEW c \in Conns, NoAction(c) \/ SeesClose(c) \/ StepTimeout(c) \/ Killed(c)
        PROVE  cpc[c] \in {"meta", "ready", "wait"} /\ RolloutFails(c)
    BY <1>4 DEF NoAction, SeesClose, StepTimeout, Killed
  <1>5. ASSUME NEW c \in Conns, Client(c)
        PROVE  \/ Connects(c) \/ ReadsMetadata(c) \/ MetadataTimeout(c) \/ SendsReset(c) \/ TakesAction(c)
               \/ SendsObs(c) \/ SendsGarbled(c) \/ NoAction(c) \/ SeesClose(c) \/ StepTimeout(c) \/ Killed(c)
    BY <1>5 DEF Client, Proceeds
  <1>6. ASSUME NEW p \in Ports, PortTaken(p) PROVE AllCancelled("crashed")
    BY <1>6 DEF PortTaken
  <1>7. ASSUME StopSignal PROVE AllCancelled("stopped")
    BY <1>7 DEF StopSignal
  <1>8. ASSUME NEW c \in Conns, Client(c)
        PROVE  \/ Connects(c) \/ ReadsMetadata(c) \/ MetadataTimeout(c) \/ SendsReset(c) \/ TakesAction(c)
               \/ \E frame \in {Obs(sent[c] + 1), Garbled} : frame \in Requests /\ Asks(c, frame)
               \/ cpc[c] \in {"meta", "ready", "wait"} /\ RolloutFails(c)
    BY <1>2, <1>3, <1>4, <1>5, <1>8
  <1> QED BY <1>1, <1>6, <1>7, <1>8 DEF Next

-----------------------------------------------------------------------------
(* Types *)

LEMMA TypesHold == TypeInv /\ [Next]_vars => TypeInv'
  <1> SUFFICES ASSUME TypeInv, [Next]_vars PROVE TypeInv'
    OBVIOUS
  <1> USE ConnTypes
  <1>1. CASE UNCHANGED vars
    BY <1>1 DEF TypeInv, vars, setup, server, channel, rollout, policy
  <1>2. ASSUME NEW p \in Ports, Serve(p) PROVE TypeInv'
    BY <1>2 DEF Serve, TypeInv, setup, channel, rollout, policy
  <1>3. ASSUME NEW outcome \in {"crashed", "stopped"}, AllCancelled(outcome) PROVE TypeInv'
    BY <1>3 DEF AllCancelled, TypeInv, setup, rollout, policy, Each
  <1>4. ASSUME NEW c \in Conns, HandlerBegins(c) PROVE TypeInv'
    <2>1. down' \in [Conns -> Seq(Replies)]
      BY <1>4, FrameTypes DEF HandlerBegins, TypeInv, Send
    <2>2. chunk' \in [Ports -> Seq(Origins)]
      BY <1>4 DEF HandlerBegins, PolicyReset, TypeInv
    <2> QED BY <1>4, <2>1, <2>2 DEF HandlerBegins, TypeInv, setup, rollout
  <1>5. ASSUME NEW c \in Conns, HandlesObs(c) PROVE TypeInv'
    <2> PICK n \in 1 .. Steps : HandlesObs(c)!(n)
      BY <1>5 DEF HandlesObs
    <2>1. up' \in [Conns -> Seq(Requests)]
      BY TailFacts DEF Takes, TypeInv
    <2> DEFINE answer == Action(c, n, Inferred(c, n))
    <2>a. answer \in Replies BY InferredType
    <2> HIDE DEF answer
    <2>2. down' \in [Conns -> Seq(Replies)]
      <3>1. down' = down \/ down' = Send(down, c, answer) BY DEF answer
      <3>2. Append(down[c], answer) \in Seq(Replies) BY <2>a, AppendFacts DEF TypeInv
      <3> QED BY <3>1, <3>2 DEF TypeInv, Send
    <2>3. Tail(Chunk(c, n)) \in Seq(Origins)
      BY ChunkTypes, TailFacts
    <2>4. chunk' \in [Ports -> Seq(Origins)]
      BY <2>3 DEF Act, TypeInv
    <2>5. mixed' \subseteq Ports
      BY DEF TypeInv
    <2>6. hpc' \in [Conns -> {"none", "begin", "run", "end"}]
      BY DEF TypeInv
    <2> QED BY <2>1, <2>2, <2>4, <2>5, <2>6 DEF TypeInv, setup, rollout
  <1>6. ASSUME NEW c \in Conns, HandlesReset(c) PROVE TypeInv'
    <2>1. up' \in [Conns -> Seq(Requests)]
      BY <1>6, TailFacts DEF HandlesReset, Takes, TypeInv
    <2>2. chunk' \in [Ports -> Seq(Origins)]
      BY <1>6 DEF HandlesReset, PolicyReset, TypeInv
    <2> QED BY <1>6, <2>1, <2>2 DEF HandlesReset, TypeInv, setup, rollout
  <1>7. ASSUME NEW c \in Conns, HandlesGarbled(c) PROVE TypeInv'
    <2>1. up' \in [Conns -> Seq(Requests)]
      BY <1>7, TailFacts DEF HandlesGarbled, Takes, TypeInv
    <2> QED BY <1>7, <2>1 DEF HandlesGarbled, Hangup, TypeInv, setup, rollout, policy
  <1>8. ASSUME NEW c \in Conns, HandlerEnds(c) PROVE TypeInv'
    BY <1>8 DEF HandlerEnds, TypeInv, setup, channel, rollout, policy
  <1>9. ASSUME NEW c \in Conns, Connects(c) PROVE TypeInv'
    BY <1>9 DEF Connects, Goto, TypeInv, setup, policy
  <1>10. ASSUME NEW c \in Conns, ReadsMetadata(c) PROVE TypeInv'
    <2>1. down' \in [Conns -> Seq(Replies)]
      BY <1>10, TailFacts DEF ReadsMetadata, TypeInv
    <2> QED BY <1>10, <2>1 DEF ReadsMetadata, Goto, TypeInv, setup, policy
  <1>11. ASSUME NEW c \in Conns, MetadataTimeout(c) PROVE TypeInv'
    BY <1>11 DEF MetadataTimeout, Goto, TypeInv, setup, channel, policy
  <1>12. ASSUME NEW c \in Conns, SendsReset(c) PROVE TypeInv'
    <2>1. up' \in [Conns -> Seq(Requests)]
      BY <1>12, FrameTypes DEF SendsReset, Send, TypeInv
    <2> QED BY <1>12, <2>1 DEF SendsReset, TypeInv, setup, policy
  <1>13. ASSUME NEW c \in Conns, NEW frame \in Requests, Asks(c, frame) PROVE TypeInv'
    <2>1. up' \in [Conns -> Seq(Requests)]
      BY <1>13 DEF Asks, Send, TypeInv
    <2>2. sent' \in [Conns -> 0 .. Steps]
      BY <1>13, WireConstants DEF Asks, TypeInv
    <2> QED BY <1>13, <2>1, <2>2 DEF Asks, Goto, TypeInv, setup, policy
  <1>14. ASSUME NEW c \in Conns, TakesAction(c) PROVE TypeInv'
    <2>1. Head(down[c]) \in Replies /\ Tail(down[c]) \in Seq(Replies)
      BY <1>14, TailFacts DEF TakesAction, TypeInv
    <2>2. Head(down[c]) \in Answers
      <3>1. Meta.kind # "action" BY DEF Meta
      <3>2. Head(down[c]).kind = "action" BY <1>14 DEF TakesAction, ActionIn
      <3> QED BY <2>1, <3>1, <3>2 DEF Replies
    <2>3. down' \in [Conns -> Seq(Replies)]
      BY <1>14, <2>1 DEF TakesAction, TypeInv
    <2>4. [for |-> Head(down[c]).for, from |-> Head(down[c]).from] \in [for : 1 .. Steps, from : Origins]
      BY <2>2 DEF Answers
    <2> DEFINE taken == [for |-> Head(down[c]).for, from |-> Head(down[c]).from]
    <2> HIDE DEF taken
    <2>5. heard' \in [Conns -> Seq([for : 1 .. Steps, from : Origins])]
      <3>1. heard' = [heard EXCEPT ![c] = Append(@, taken)] BY <1>14 DEF TakesAction, taken
      <3>2. Append(heard[c], taken) \in Seq([for : 1 .. Steps, from : Origins])
        BY <2>4, AppendFacts DEF TypeInv, taken
      <3> QED BY <3>1, <3>2 DEF TypeInv
    <2> QED BY <1>14, <2>3, <2>5 DEF TakesAction, Goto, Hangup, TypeInv, setup, policy
  <1>15. ASSUME NEW c \in Conns, RolloutFails(c) PROVE TypeInv'
    BY <1>15 DEF RolloutFails, Goto, Hangup, TypeInv, setup, policy
  <1> QED
    BY <1>1, <1>2, <1>3, <1>4, <1>5, <1>6, <1>7, <1>8, <1>9, <1>10, <1>11, <1>12, <1>13, <1>14, <1>15, StepOf

\* Every reachable state of the server and its clients has the declared types.
THEOREM WireTypes == Spec => []TypeInv
  <1>1. Init => TypeInv BY WireConstants DEF Init, TypeInv, Each
  <1> QED BY <1>1, TypesHold, PTL DEF Spec

-----------------------------------------------------------------------------
(* Lock step *)

Asked(c) == \E k \in DOMAIN up[c] : up[c][k].kind # "reset"
Answered(c) == \E k \in DOMAIN down[c] : down[c][k].kind = "action"

\* At most one question is on its way or one answer to it, the current one, and
\* none while the client is not waiting.
OneQuestion(c) ==
    /\ \A k, l \in DOMAIN up[c] : up[c][k].kind # "reset" /\ up[c][l].kind # "reset" => k = l
    /\ \A k, l \in DOMAIN down[c] : down[c][k].kind = "action" /\ down[c][l].kind = "action" => k = l
    /\ ~(Asked(c) /\ Answered(c))
    /\ Asked(c) \/ Answered(c) => cpc[c] \in {"wait", "done", "failed"}
    /\ \A k \in DOMAIN up[c] : up[c][k].kind = "obs" => up[c][k].n = sent[c]
    /\ \A k \in DOMAIN down[c] : down[c][k].kind = "action" => down[c][k].for = sent[c]

Untouched(c) ==
    cpc[c] = "none" => hpc[c] = "none" /\ up[c] = <<>> /\ down[c] = <<>> /\ sent[c] = 0 /\ heard[c] = <<>>

\* Every observation but the one being waited for has its answer.
Counted(c) ==
    /\ cpc[c] \in {"none", "meta", "ready", "done"} => Len(heard[c]) = sent[c]
    /\ cpc[c] = "wait" => Len(heard[c]) + 1 = sent[c]

Disciplined(c) == OneQuestion(c) /\ Untouched(c) /\ Counted(c)
WireInv == TypeInv /\ \A c \in Conns : Disciplined(c)

\* What Disciplined(c) reads.
Local(c) == <<up[c], down[c], hpc[c], cpc[c], sent[c], heard[c]>>

LEMMA Elsewhere ==
    ASSUME NEW c \in Conns, Disciplined(c), Local(c)' = Local(c)
    PROVE  Disciplined(c)'
  BY DEF Disciplined, OneQuestion, Untouched, Counted, Asked, Answered, Local

LEMMA OnlyQuestions ==
    ASSUME NEW c \in Conns, Disciplined(c), cpc[c] # "none", UNCHANGED <<cpc, sent, heard>>, OneQuestion(c)'
    PROVE  Disciplined(c)'
  <1>1. Untouched(c)' BY DEF Untouched
  <1>2. Counted(c)' BY DEF Disciplined, Counted
  <1> QED BY <1>1, <1>2 DEF Disciplined

\* A handler's step touches its own connection only, and keeps its discipline.
LEMMA HandlerDisciplined ==
    ASSUME WireInv, TypeInv', NEW c \in Conns,
           HandlerBegins(c) \/ HandlesObs(c) \/ HandlesReset(c) \/ HandlesGarbled(c) \/ HandlerEnds(c)
    PROVE  Disciplined(c)' /\ \A d \in Conns \ {c} : Local(d)' = Local(d)
  <1>1. \A d \in Conns \ {c} : Local(d)' = Local(d)
    <2>1. UNCHANGED <<cpc, sent, heard>>
      BY DEF HandlerBegins, HandlesObs, HandlesReset, HandlesGarbled, HandlerEnds, rollout
    <2>2. \A d \in Conns \ {c} : up'[d] = up[d]
      BY DEF HandlerBegins, HandlesObs, HandlesReset, HandlesGarbled, HandlerEnds, Takes, channel, WireInv, TypeInv
    <2>3. \A d \in Conns \ {c} : hpc'[d] = hpc[d]
      BY DEF HandlerBegins, HandlesObs, HandlesReset, HandlesGarbled, HandlerEnds, WireInv, TypeInv
    <2>4. \A d \in Conns \ {c} : down'[d] = down[d]
      <3>1. CASE HandlesObs(c)
        <4> PICK n \in 1 .. Steps : HandlesObs(c)!(n)
          BY <3>1 DEF HandlesObs
        <4>1. down' = down \/ down' = Send(down, c, Action(c, n, Inferred(c, n))) OBVIOUS
        <4> QED BY <4>1 DEF Send, WireInv, TypeInv
      <3>2. CASE ~HandlesObs(c)
        BY <3>2 DEF HandlerBegins, HandlesReset, HandlesGarbled, HandlerEnds, Send, channel, WireInv, TypeInv
      <3> QED BY <3>1, <3>2
    <2> QED BY <2>1, <2>2, <2>3, <2>4 DEF Local
  <1>u. Disciplined(c) /\ cpc[c] # "none"
    BY DEF WireInv, Disciplined, Untouched, HandlerBegins, HandlesObs, HandlesReset, HandlesGarbled,
           HandlerEnds, Takes
  <1>2. CASE HandlerBegins(c)
    <2>1. down[c]' = down[c] \/ down[c]' = Append(down[c], Meta)
      BY <1>2 DEF HandlerBegins, Send, WireInv, TypeInv
    <2>2. UNCHANGED <<up, cpc, sent, heard>> BY <1>2 DEF HandlerBegins, rollout
    <2>3. Meta.kind # "action" /\ Meta \in Replies /\ down[c] \in Seq(Replies)
      BY FrameTypes DEF Meta, WireInv, TypeInv
    <2>4. \A k \in DOMAIN down[c]' : down[c]'[k].kind = "action" => k \in DOMAIN down[c] /\ down[c]'[k] = down[c][k]
      BY <2>1, <2>3, AppendFacts
    <2>5. Answered(c)' => Answered(c) BY <2>4 DEF Answered
    <2>6. OneQuestion(c)' BY <1>u, <2>2, <2>4, <2>5 DEF Disciplined, OneQuestion, Asked
    <2> QED BY <1>u, <2>2, <2>6, <1>1, OnlyQuestions
  <1>3. CASE HandlesObs(c)
    <2> PICK n \in 1 .. Steps : HandlesObs(c)!(n)
      BY <1>3 DEF HandlesObs
    <2> DEFINE answer == Action(c, n, Inferred(c, n))
    <2>a. answer \in Replies BY InferredType DEF WireInv
    <2>b. answer.for = n /\ answer.kind = "action" BY DEF Action
    <2>c. down[c]' = down[c] \/ down[c]' = Append(down[c], answer)
      BY DEF Send, WireInv, TypeInv
    <2> HIDE DEF answer
    <2>1. up[c] \in Seq(Requests) /\ up[c] # <<>> /\ Head(up[c]) = Obs(n) /\ up[c]' = Tail(up[c])
      BY DEF Takes, WireInv, TypeInv
    <2>2. up[c][1].kind = "obs" /\ up[c][1].n = n /\ 1 \in DOMAIN up[c]
      BY <2>1, TailFacts DEF Obs
    <2>3. \A k \in DOMAIN up[c]' : up[c]'[k].kind = "reset"
      <3> SUFFICES ASSUME NEW k \in DOMAIN up[c]' PROVE up[c]'[k].kind = "reset"
        OBVIOUS
      <3>1. k + 1 \in DOMAIN up[c] /\ up[c]'[k] = up[c][k + 1] /\ k + 1 # 1 BY <2>1, TailFacts
      <3> QED BY <1>u, <2>2, <3>1 DEF Disciplined, OneQuestion
    <2>4. n = sent[c] /\ Asked(c) BY <1>u, <2>2 DEF Disciplined, OneQuestion, Asked
    <2>5. \A k \in DOMAIN down[c] : down[c][k].kind # "action"
      BY <1>u, <2>4 DEF Disciplined, OneQuestion, Answered
    <2>d. down[c] \in Seq(Replies) BY DEF WireInv, TypeInv
    <2>6. \A k \in DOMAIN down[c]' : down[c]'[k].kind = "action" => k = Len(down[c]) + 1 /\ down[c]'[k] = answer
      <3>1. CASE down[c]' = down[c] BY <2>5, <3>1
      <3>2. CASE down[c]' = Append(down[c], answer)
        <4>1. \A k \in DOMAIN down[c]' : k \in DOMAIN down[c] \/ k = Len(down[c]) + 1
          BY <2>a, <2>d, <3>2, AppendFacts
        <4> QED BY <2>a, <2>d, <2>5, <3>2, <4>1, AppendFacts
      <3> QED BY <2>c, <3>1, <3>2
    <2>7. \A k \in DOMAIN down[c]' : down[c]'[k].kind = "action" => down[c]'[k].for = sent[c]
      BY <2>b, <2>4, <2>6
    <2>8. UNCHANGED <<cpc, sent, heard>> BY DEF rollout
    <2>9. cpc[c] \in {"wait", "done", "failed"} BY <1>u, <2>4 DEF Disciplined, OneQuestion
    <2>10. OneQuestion(c)' BY <2>3, <2>6, <2>7, <2>8, <2>9 DEF OneQuestion, Asked, Answered
    <2> QED BY <1>u, <2>8, <2>10, <1>1, OnlyQuestions
  <1>4. CASE HandlesReset(c) \/ HandlesGarbled(c)
    <2>1. up[c] \in Seq(Requests) /\ up[c] # <<>> /\ up[c]' = Tail(up[c])
      BY <1>4 DEF HandlesReset, HandlesGarbled, Takes, WireInv, TypeInv
    <2>2. UNCHANGED <<down, cpc, sent, heard>> BY <1>4 DEF HandlesReset, HandlesGarbled, rollout
    <2>3. \A k \in DOMAIN up[c]' : k + 1 \in DOMAIN up[c] /\ up[c]'[k] = up[c][k + 1] /\ k \in Int
      BY <2>1, TailFacts
    <2>4. Asked(c)' => Asked(c) BY <2>3 DEF Asked
    <2>5. OneQuestion(c)' BY <1>u, <2>2, <2>3, <2>4 DEF Disciplined, OneQuestion, Answered
    <2> QED BY <1>u, <2>2, <2>5, <1>1, OnlyQuestions
  <1>5. CASE HandlerEnds(c)
    <2>1. UNCHANGED <<up, down, cpc, sent, heard>> BY <1>5 DEF HandlerEnds, channel, rollout
    <2>2. OneQuestion(c)' BY <1>u, <2>1 DEF Disciplined, OneQuestion, Asked, Answered
    <2> QED BY <1>u, <2>1, <2>2, <1>1, OnlyQuestions
  <1> QED BY <1>1, <1>2, <1>3, <1>4, <1>5

\* So does a client's.
LEMMA ClientDisciplined ==
    ASSUME WireInv, TypeInv', NEW c \in Conns,
           \/ Connects(c) \/ ReadsMetadata(c) \/ MetadataTimeout(c) \/ SendsReset(c) \/ TakesAction(c)
           \/ \E frame \in {Obs(sent[c] + 1), Garbled} : frame \in Requests /\ Asks(c, frame)
           \/ cpc[c] \in {"meta", "ready", "wait"} /\ RolloutFails(c)
    PROVE  Disciplined(c)' /\ \A d \in Conns \ {c} : Local(d)' = Local(d)
  <1>t. /\ up[c] \in Seq(Requests) /\ down[c] \in Seq(Replies) /\ sent[c] \in Nat
        /\ heard[c] \in Seq([for : 1 .. Steps, from : Origins]) /\ Len(heard[c]) \in Nat
    <2>1. sent[c] \in 0 .. Steps BY DEF WireInv, TypeInv
    <2>2. heard[c] \in Seq([for : 1 .. Steps, from : Origins]) BY DEF WireInv, TypeInv
    <2>3. up[c] \in Seq(Requests) /\ down[c] \in Seq(Replies) BY DEF WireInv, TypeInv
    <2> QED BY <2>1, <2>2, <2>3, WireConstants
  <1>u. OneQuestion(c) /\ Untouched(c) /\ Counted(c) BY DEF WireInv, Disciplined
  <1>1. CASE Connects(c)
    <2>1. \A d \in Conns \ {c} : Local(d)' = Local(d) BY <1>1 DEF Connects, Goto, Local
    <2>2. up'[c] = <<>> /\ down'[c] = <<>> /\ sent'[c] = 0 /\ heard'[c] = <<>> /\ cpc'[c] = "meta"
      BY <1>1, <1>u DEF Connects, Goto, Untouched, WireInv, TypeInv
    <2>3. OneQuestion(c)' BY <2>2 DEF OneQuestion, Asked, Answered
    <2>4. Untouched(c)' /\ Counted(c)' BY <2>2 DEF Untouched, Counted
    <2> QED BY <2>1, <2>3, <2>4 DEF Disciplined
  <1>2. CASE ReadsMetadata(c)
    <2>1. \A d \in Conns \ {c} : Local(d)' = Local(d) BY <1>2 DEF ReadsMetadata, Goto, Local
    <2>2. UNCHANGED <<up, sent, heard>> /\ cpc[c] = "meta" /\ cpc'[c] = "ready"
      BY <1>2 DEF ReadsMetadata, Goto, WireInv, TypeInv
    <2>3. down[c] # <<>> /\ down'[c] = Tail(down[c]) BY <1>2 DEF ReadsMetadata, WireInv, TypeInv
    <2>4. ~Asked(c) /\ ~Answered(c) BY <1>u, <2>2 DEF OneQuestion
    <2>5. \A k \in DOMAIN down'[c] : down'[c][k].kind # "action"
      <3>1. \A k \in DOMAIN down'[c] : k + 1 \in DOMAIN down[c] /\ down'[c][k] = down[c][k + 1]
        BY <1>t, <2>3, TailFacts
      <3> QED BY <2>4, <3>1 DEF Answered
    <2>6. OneQuestion(c)' BY <1>u, <2>2, <2>4, <2>5 DEF OneQuestion, Asked, Answered
    <2>7. Untouched(c)' /\ Counted(c)' BY <1>u, <2>2 DEF Untouched, Counted
    <2> QED BY <2>1, <2>6, <2>7 DEF Disciplined
  <1>3. CASE MetadataTimeout(c)
    <2>1. \A d \in Conns \ {c} : Local(d)' = Local(d) BY <1>3 DEF MetadataTimeout, Goto, Local, channel
    <2>2. UNCHANGED <<up, down, sent, heard>> /\ cpc[c] = "meta" /\ cpc'[c] = "ready"
      BY <1>3 DEF MetadataTimeout, Goto, channel, WireInv, TypeInv
    <2>3. OneQuestion(c)' BY <1>u, <2>2 DEF OneQuestion, Asked, Answered
    <2>4. Untouched(c)' /\ Counted(c)' BY <1>u, <2>2 DEF Untouched, Counted
    <2> QED BY <2>1, <2>3, <2>4 DEF Disciplined
  <1>4. CASE SendsReset(c)
    <2>1. \A d \in Conns \ {c} : Local(d)' = Local(d) BY <1>4 DEF SendsReset, Send, Local
    <2>2. UNCHANGED <<down, cpc, sent, heard>> /\ cpc[c] = "ready" BY <1>4 DEF SendsReset
    <2>3. up'[c] = Append(up[c], ResetFrame) BY <1>4 DEF SendsReset, Send, WireInv, TypeInv
    <2>4. ~Asked(c) /\ ~Answered(c) BY <1>u, <2>2 DEF OneQuestion
    <2>5. \A k \in DOMAIN up'[c] : up'[c][k].kind = "reset"
      <3>1. ResetFrame.kind = "reset" BY DEF ResetFrame
      <3>2. \A k \in DOMAIN up'[c] : k \in DOMAIN up[c] \/ k = Len(up[c]) + 1
        BY <1>t, <2>3, FrameTypes, AppendFacts
      <3> QED BY <1>t, <2>3, <2>4, <3>1, <3>2, FrameTypes, AppendFacts DEF Asked
    <2>6. OneQuestion(c)' BY <1>u, <2>2, <2>4, <2>5 DEF OneQuestion, Asked, Answered
    <2> QED BY <1>u, <2>1, <2>2, <2>6, OnlyQuestions DEF Disciplined
  <1>5. ASSUME NEW frame \in {Obs(sent[c] + 1), Garbled}, frame \in Requests, Asks(c, frame)
        PROVE  Disciplined(c)' /\ \A d \in Conns \ {c} : Local(d)' = Local(d)
    <2>1. \A d \in Conns \ {c} : Local(d)' = Local(d) BY <1>5 DEF Asks, Goto, Send, Local
    <2>2. UNCHANGED <<down, heard>> /\ cpc[c] = "ready" /\ cpc'[c] = "wait" /\ sent'[c] = sent[c] + 1
      BY <1>5 DEF Asks, Goto, WireInv, TypeInv
    <2>3. up'[c] = Append(up[c], frame) BY <1>5 DEF Asks, Send, WireInv, TypeInv
    <2>4. ~Asked(c) /\ ~Answered(c) BY <1>u, <2>2 DEF OneQuestion
    <2>5. \A k \in DOMAIN up'[c] : up'[c][k].kind # "reset" => k = Len(up[c]) + 1 /\ up'[c][k] = frame
      <3>1. \A k \in DOMAIN up'[c] : k \in DOMAIN up[c] \/ k = Len(up[c]) + 1
        BY <1>5, <1>t, <2>3, AppendFacts
      <3> QED BY <1>5, <1>t, <2>3, <2>4, <3>1, AppendFacts DEF Asked
    <2>6. frame.kind = "obs" => frame.n = sent'[c] BY <2>2 DEF Obs, Garbled
    <2>7. OneQuestion(c)' BY <2>2, <2>4, <2>5, <2>6 DEF OneQuestion, Asked, Answered
    <2>8. Untouched(c)' /\ Counted(c)' BY <1>t, <1>u, <2>2 DEF Untouched, Counted
    <2> QED BY <2>1, <2>7, <2>8 DEF Disciplined
  <1>6. CASE TakesAction(c)
    <2>1. \A d \in Conns \ {c} : Local(d)' = Local(d) BY <1>6 DEF TakesAction, Goto, Local, WireInv, TypeInv
    <2>2. UNCHANGED <<up, sent>> /\ cpc[c] = "wait" BY <1>6 DEF TakesAction
    <2>3. down[c] # <<>> /\ down'[c] = Tail(down[c]) /\ Head(down[c]).kind = "action"
      BY <1>6 DEF TakesAction, ActionIn, WireInv, TypeInv
    <2>4. cpc'[c] \in {"ready", "done"} BY <1>6 DEF TakesAction, Goto, WireInv, TypeInv
    <2>5. Answered(c) /\ ~Asked(c) /\ 1 \in DOMAIN down[c] /\ down[c][1].kind = "action"
      BY <1>t, <1>u, <2>3, TailFacts DEF OneQuestion, Answered
    <2>6. \A k \in DOMAIN down'[c] : down'[c][k].kind # "action"
      <3> SUFFICES ASSUME NEW k \in DOMAIN down'[c] PROVE down'[c][k].kind # "action"
        OBVIOUS
      <3>1. k + 1 \in DOMAIN down[c] /\ down'[c][k] = down[c][k + 1] /\ k + 1 # 1
        BY <1>t, <2>3, TailFacts
      <3> QED BY <1>u, <2>5, <3>1 DEF OneQuestion
    <2>7. OneQuestion(c)' BY <1>u, <2>2, <2>5, <2>6 DEF OneQuestion, Asked, Answered
    <2> DEFINE taken == [for |-> Head(down[c]).for, from |-> Head(down[c]).from]
    <2>8. heard'[c] = Append(heard[c], taken) BY <1>6 DEF TakesAction, WireInv, TypeInv
    <2>9. Len(heard'[c]) = Len(heard[c]) + 1
      <3> HIDE DEF taken
      <3> QED BY <1>t, <2>8
    <2>10. Untouched(c)' BY <2>4 DEF Untouched
    <2>11. Counted(c)' BY <1>t, <1>u, <2>2, <2>4, <2>9 DEF Counted
    <2> QED BY <2>1, <2>7, <2>10, <2>11 DEF Disciplined
  <1>7. CASE cpc[c] \in {"meta", "ready", "wait"} /\ RolloutFails(c)
    <2>1. \A d \in Conns \ {c} : Local(d)' = Local(d) BY <1>7 DEF RolloutFails, Goto, Local
    <2>2. UNCHANGED <<up, down, sent, heard>> /\ cpc'[c] = "failed"
      BY <1>7 DEF RolloutFails, Goto, WireInv, TypeInv
    <2>3. OneQuestion(c)' BY <1>u, <2>2 DEF OneQuestion, Asked, Answered
    <2>4. Untouched(c)' /\ Counted(c)' BY <2>2 DEF Untouched, Counted
    <2> QED BY <2>1, <2>3, <2>4 DEF Disciplined
  <1> QED BY <1>1, <1>2, <1>3, <1>4, <1>5, <1>6, <1>7

LEMMA WireInvHolds == WireInv /\ [Next]_vars => WireInv'
  <1> SUFFICES ASSUME WireInv, [Next]_vars PROVE WireInv'
    OBVIOUS
  <1>t. TypeInv /\ TypeInv' BY TypesHold DEF WireInv
  <1>1. CASE UNCHANGED vars \/ \E p \in Ports : Serve(p)
    <2>1. \A c \in Conns : Local(c)' = Local(c) BY <1>1 DEF vars, Serve, channel, rollout, Local
    <2> QED BY <1>t, <2>1, Elsewhere DEF WireInv
  <1>2. CASE \E outcome \in {"crashed", "stopped"} : AllCancelled(outcome)
    <2>1. UNCHANGED <<up, down, cpc, sent, heard>> BY <1>2 DEF AllCancelled, rollout
    <2>2. \A c \in Conns : hpc[c] = "none" => hpc'[c] = "none" BY <1>2 DEF AllCancelled
    <2>3. \A c \in Conns : OneQuestion(c)' BY <2>1 DEF WireInv, Disciplined, OneQuestion, Asked, Answered
    <2>4. \A c \in Conns : Untouched(c)' BY <2>1, <2>2 DEF WireInv, Disciplined, Untouched
    <2>5. \A c \in Conns : Counted(c)' BY <2>1 DEF WireInv, Disciplined, Counted
    <2> QED BY <1>t, <2>3, <2>4, <2>5 DEF WireInv, Disciplined
  <1>3. ASSUME NEW c \in Conns, Disciplined(c)', \A d \in Conns \ {c} : Local(d)' = Local(d)
        PROVE  WireInv'
    <2>1. \A d \in Conns \ {c} : Disciplined(d)' BY <1>3, Elsewhere DEF WireInv
    <2> QED BY <1>3, <1>t, <2>1 DEF WireInv
  <1> QED BY <1>t, <1>1, <1>2, <1>3, StepOf, HandlerDisciplined, ClientDisciplined

LEMMA WireCorrect == Spec => []WireInv
  <1>1. Init => WireInv
    <2>1. Init => TypeInv BY WireConstants DEF Init, TypeInv, Each
    <2>2. ASSUME Init, NEW c \in Conns PROVE Disciplined(c)
      <3>1. /\ up[c] = <<>> /\ down[c] = <<>> /\ hpc[c] = "none" /\ cpc[c] = "none"
            /\ sent[c] = 0 /\ heard[c] = <<>>
        BY <2>2 DEF Init, Each
      <3> QED BY <3>1 DEF Disciplined, OneQuestion, Untouched, Counted, Asked, Answered
    <2> QED BY <2>1, <2>2 DEF WireInv
  <1> QED BY <1>1, WireInvHolds, PTL DEF Spec

\* A step of the rollout c alone, seen by LockStep.
Stages == [c \in Conns |-> StageOf(c)]
Fors == [c \in Conns |-> [n \in DOMAIN heard[c] |-> heard[c][n].for]]

LEMMA QuietForLockStep ==
    ASSUME UNCHANGED <<cpc, sent, heard>>
    PROVE  UNCHANGED <<Stages, sent, Fors>>
  BY DEF Stages, Fors, StageOf, Over

LEMMA StageChanges ==
    ASSUME TypeInv, TypeInv', NEW c \in Conns, \A d \in Conns \ {c} : cpc'[d] = cpc[d]
    PROVE  Stages' = [Stages EXCEPT ![c] = StageOf(c)']
  BY DEF Stages, StageOf, Over, TypeInv

LEMMA StepsInLockStep == WireInv /\ WireInv' /\ [Next]_vars => [Conversation!Next]_<<Stages, sent, Fors>>
  <1> SUFFICES ASSUME WireInv, WireInv', [Next]_vars
               PROVE  Conversation!Next \/ UNCHANGED <<Stages, sent, Fors>>
    OBVIOUS
  <1>t. TypeInv /\ TypeInv' BY DEF WireInv
  <1>1. CASE \/ UNCHANGED vars \/ \E p \in Ports : Serve(p)
             \/ \E outcome \in {"crashed", "stopped"} : AllCancelled(outcome)
             \/ \E c \in Conns : HandlerBegins(c) \/ HandlesObs(c) \/ HandlesReset(c)
                                 \/ HandlesGarbled(c) \/ HandlerEnds(c) \/ SendsReset(c)
    <2>1. UNCHANGED <<cpc, sent, heard>>
      BY <1>1 DEF vars, Serve, AllCancelled, HandlerBegins, HandlesObs, HandlesReset, HandlesGarbled,
                  HandlerEnds, SendsReset, rollout
    <2> QED BY <2>1, QuietForLockStep
  <1>2. ASSUME NEW c \in Conns, Connects(c) PROVE UNCHANGED <<Stages, sent, Fors>>
    <2>1. UNCHANGED <<sent, heard>> /\ cpc[c] = "none" /\ cpc' = [cpc EXCEPT ![c] = "meta"]
      BY <1>2 DEF Connects, Goto
    <2>2. \A d \in Conns : StageOf(d)' = StageOf(d) BY <1>t, <2>1 DEF StageOf, Over, TypeInv
    <2> QED BY <2>1, <2>2 DEF Stages, Fors
  <1>3. ASSUME NEW c \in Conns, ReadsMetadata(c) \/ MetadataTimeout(c) PROVE Conversation!Greet(c)
    <2>1. UNCHANGED <<sent, heard>> /\ cpc[c] = "meta" /\ cpc' = [cpc EXCEPT ![c] = "ready"]
      BY <1>3 DEF ReadsMetadata, MetadataTimeout, Goto
    <2>2. StageOf(c) = "new" /\ StageOf(c)' = "ready" BY <1>t, <2>1 DEF StageOf, Over, TypeInv
    <2>3. Stages' = [Stages EXCEPT ![c] = "ready"] BY <1>t, <2>1, <2>2, StageChanges
    <2> QED BY <2>1, <2>2, <2>3 DEF Conversation!Greet, Stages, Fors
  <1>4. ASSUME NEW c \in Conns, NEW frame, Asks(c, frame) PROVE Conversation!Ask(c)
    <2>1. /\ UNCHANGED heard /\ cpc[c] = "ready" /\ cpc' = [cpc EXCEPT ![c] = "wait"]
          /\ sent' = [sent EXCEPT ![c] = @ + 1]
      BY <1>4 DEF Asks, Goto
    <2>2. StageOf(c) = "ready" /\ StageOf(c)' = "asked" BY <1>t, <2>1 DEF StageOf, Over, TypeInv
    <2>3. Stages' = [Stages EXCEPT ![c] = "asked"] BY <1>t, <2>1, <2>2, StageChanges
    <2> QED BY <2>1, <2>2, <2>3 DEF Conversation!Ask, Stages, Fors
  <1>5. ASSUME NEW c \in Conns, TakesAction(c) PROVE Conversation!Answer(c)
    <2> DEFINE taken == [for |-> Head(down[c]).for, from |-> Head(down[c]).from]
    <2>1. /\ UNCHANGED sent /\ cpc[c] = "wait" /\ heard' = [heard EXCEPT ![c] = Append(@, taken)]
          /\ cpc' = [cpc EXCEPT ![c] = "done"] \/ cpc' = [cpc EXCEPT ![c] = "ready"]
      BY <1>5 DEF TakesAction, Goto
    <2>2. StageOf(c) = "asked" /\ StageOf(c)' \in {"ready", "over"} BY <1>t, <2>1 DEF StageOf, Over, TypeInv
    <2>3. Stages' = [Stages EXCEPT ![c] = StageOf(c)'] BY <1>t, <2>1, StageChanges DEF TypeInv
    <2>4. taken.for = sent[c]
      <3>1. down[c] \in Seq(Replies) /\ down[c] # <<>> /\ Head(down[c]).kind = "action"
        BY <1>5 DEF TakesAction, ActionIn, WireInv, TypeInv
      <3>2. 1 \in DOMAIN down[c] /\ Head(down[c]) = down[c][1] BY <3>1, TailFacts
      <3> QED BY <3>1, <3>2 DEF WireInv, Disciplined, OneQuestion
    <2> HIDE DEF taken
    <2>5. Fors' = [Fors EXCEPT ![c] = Append(@, sent[c])]
      <3>1. heard[c] \in Seq([for : 1 .. Steps, from : Origins]) BY <1>t DEF TypeInv
      <3>2. [n \in DOMAIN heard'[c] |-> heard'[c][n].for] = Append([n \in DOMAIN heard[c] |-> heard[c][n].for], sent[c])
        <4>1. heard'[c] = Append(heard[c], taken) BY <2>1, <1>t DEF TypeInv
        <4> QED BY <3>1, <4>1, <2>4
      <3>3. ASSUME NEW d \in Conns, d # c PROVE heard'[d] = heard[d]
        <4>1. DOMAIN heard = Conns BY <1>t DEF TypeInv
        <4> QED BY <2>1, <3>3, <4>1
      <3>4. ASSUME NEW d \in Conns
            PROVE Fors'[d] = IF d = c THEN Append(Fors[c], sent[c]) ELSE Fors[d]
        <4>1. CASE d = c BY <3>2, <4>1 DEF Fors
        <4>2. CASE d # c BY <3>3, <4>2 DEF Fors
        <4> QED BY <4>1, <4>2
      <3>5. /\ DOMAIN Fors = Conns /\ DOMAIN Fors' = Conns
            /\ Fors = [d \in Conns |-> Fors[d]] /\ Fors' = [d \in Conns |-> Fors'[d]]
        BY DEF Fors
      <3> HIDE DEF Fors
      <3> QED BY <3>4, <3>5
    <2> QED BY <2>1, <2>2, <2>3, <2>5 DEF Conversation!Answer, Stages, Fors
  <1>6. ASSUME NEW c \in Conns, cpc[c] \in {"meta", "ready", "wait"}, RolloutFails(c) PROVE Conversation!End(c)
    <2>1. UNCHANGED <<sent, heard>> /\ cpc' = [cpc EXCEPT ![c] = "failed"] BY <1>6 DEF RolloutFails, Goto
    <2>2. StageOf(c) # "over" /\ StageOf(c)' = "over" BY <1>t, <1>6, <2>1 DEF StageOf, Over, TypeInv
    <2>3. Stages' = [Stages EXCEPT ![c] = "over"] BY <1>t, <2>1, <2>2, StageChanges
    <2> QED BY <2>1, <2>2, <2>3 DEF Conversation!End, Stages, Fors
  <1> QED BY <1>t, <1>1, <1>2, <1>3, <1>4, <1>5, <1>6, StepOf DEF Conversation!Next

\* Whatever is late, lost, closed or reset, the n-th action a rollout executes is
\* the answer to its n-th observation, and none is asked for before the last came.
THEOREM AnswersInStep == Spec => InStep
  <1>1. Init => Conversation!Init
    <2>1. ASSUME Init, NEW c \in Conns PROVE StageOf(c) = "new" /\ [n \in DOMAIN heard[c] |-> heard[c][n].for] = <<>>
      <3>1. cpc[c] = "none" /\ heard[c] = <<>> BY <2>1 DEF Init, Each
      <3>2. StageOf(c) = "new" BY <3>1 DEF StageOf, Over
      <3>3. DOMAIN heard[c] = {} BY <3>1
      <3>4. [n \in {} |-> heard[c][n].for] = <<>> OBVIOUS
      <3> QED BY <3>2, <3>3, <3>4
    <2> QED BY <2>1 DEF Init, Each, Conversation!Init
  <1>2. WireInv /\ WireInv' /\ [Next]_vars
        => [Conversation!Next]_<<[c \in Conns |-> StageOf(c)], sent, [c \in Conns |-> [n \in DOMAIN heard[c] |-> heard[c][n].for]]>>
    BY StepsInLockStep DEF Stages, Fors
  <1> QED BY <1>1, <1>2, WireCorrect, PTL DEF Spec, InStep, Conversation!Spec

-----------------------------------------------------------------------------
(* Episodes start clean *)

\* The observation the handler of c takes next.
Due(c) == IF Asked(c) THEN sent[c] ELSE sent[c] + 1
\* An action for observation n made from one of c's own, less than a chunk ago.
Own(c, n, from) == from[1] = c /\ n - from[2] \in 0 .. Horizon - 1

\* A port has one rollout at a time; what its earlier connections left are handlers.
Alone(c) == cpc[c] # "none" => \A d \in Conns : Before(d, c) => Over(d)
HeardOwn(c) == \A n \in DOMAIN heard[c] : Own(c, n, heard[c][n].from)
SentOwn(c) ==
    \A k \in DOMAIN down[c] : down[c][k].kind = "action" => Own(c, down[c][k].for, down[c][k].from)
\* What is left of a chunk was inferred for c, as many steps ago as have been used.
HoldsOwn(c) ==
    \A k \in DOMAIN chunk[c[1]] :
        /\ chunk[c[1]][k][1] = c
        /\ chunk[c[1]][k][2] + Horizon - Len(chunk[c[1]]) = Due(c)
Clean(c) ==
    /\ Alone(c)
    /\ c[1] \notin mixed => HeardOwn(c)
    /\ c[1] \notin mixed /\ ~Over(c) => SentOwn(c)
    /\ c[1] \notin mixed /\ ~Over(c) /\ hpc[c] = "run" => HoldsOwn(c)
Fit == \A p \in Ports : Len(chunk[p]) <= Horizon /\ (opt.policy = "null" => chunk[p] = <<>>)
CleanInv == Fit /\ \A c \in Conns : Clean(c)

LEMMA SamePort ==
    ASSUME NEW c \in Conns, NEW d \in Conns, c # d, c[1] = d[1]
    PROVE  Before(c, d) \/ Before(d, c)
  BY DEF Conns, Before

\* Over is for good, and so is what Alone(c) says.
LEMMA AloneHolds ==
    ASSUME TypeInv, [Next]_vars, \A c \in Conns : Alone(c)
    PROVE  \A c \in Conns : Alone(c)' /\ (Over(c) => Over(c)')
  <1>t. DOMAIN cpc = Conns BY DEF TypeInv
  <1>1. \/ UNCHANGED cpc
        \/ \E c \in Conns : Connects(c)
        \/ \E c \in Conns : \E pc \in {"ready", "wait", "done", "failed"} :
             Goto(c, pc) /\ cpc[c] \notin {"none", "done", "failed"}
    <2>1. ASSUME NEW c \in Conns, HandlerBegins(c) \/ HandlesObs(c) \/ HandlesReset(c) \/ HandlesGarbled(c) \/ HandlerEnds(c)
          PROVE  UNCHANGED cpc
      BY <2>1 DEF HandlerBegins, HandlesObs, HandlesReset, HandlesGarbled, HandlerEnds, rollout
    <2>2. ASSUME NEW c \in Conns, ReadsMetadata(c) \/ MetadataTimeout(c) \/ TakesAction(c)
          PROVE  \E pc \in {"ready", "wait", "done", "failed"} : Goto(c, pc) /\ cpc[c] \notin {"none", "done", "failed"}
      BY <2>2 DEF ReadsMetadata, MetadataTimeout, TakesAction
    <2>3. ASSUME NEW c \in Conns, SendsReset(c) PROVE UNCHANGED cpc
      BY <2>3 DEF SendsReset
    <2>4. ASSUME NEW c \in Conns, NEW frame, Asks(c, frame)
          PROVE  Goto(c, "wait") /\ cpc[c] \notin {"none", "done", "failed"}
      BY <2>4 DEF Asks
    <2>5. ASSUME NEW c \in Conns, cpc[c] \in {"meta", "ready", "wait"}, RolloutFails(c)
          PROVE  Goto(c, "failed") /\ cpc[c] \notin {"none", "done", "failed"}
      BY <2>5 DEF RolloutFails
    <2>6. ASSUME UNCHANGED vars \/ (\E p \in Ports : Serve(p))
                   \/ \E outcome \in {"crashed", "stopped"} : AllCancelled(outcome)
          PROVE  UNCHANGED cpc
      BY <2>6 DEF vars, rollout, Serve, AllCancelled
    <2> QED BY <2>1, <2>2, <2>3, <2>4, <2>5, <2>6, StepOf
  <1>2. CASE UNCHANGED cpc BY <1>2 DEF Alone, Over
  <1>3. ASSUME NEW c \in Conns, Connects(c) PROVE \A d \in Conns : Alone(d)' /\ (Over(d) => Over(d)')
    BY <1>t, <1>3 DEF Connects, Goto, Alone, Over
  <1>4. ASSUME NEW c \in Conns, NEW pc \in {"ready", "wait", "done", "failed"}, Goto(c, pc),
               cpc[c] \notin {"none", "done", "failed"}
        PROVE  \A d \in Conns : Alone(d)' /\ (Over(d) => Over(d)')
    BY <1>t, <1>4 DEF Goto, Alone, Over
  <1> QED BY <1>1, <1>2, <1>3, <1>4

\* A connection of which nothing new can be said keeps what it had.
LEMMA CleanElsewhere ==
    ASSUME NEW d \in Conns, Clean(d), Alone(d)',
           UNCHANGED <<up[d], down[d], cpc[d], sent[d], heard[d]>>,
           hpc'[d] = "run" => hpc[d] = "run",
           mixed \subseteq mixed',
           chunk'[d[1]] \in {chunk[d[1]], <<>>} \/ d[1] \in mixed' \/ Over(d) \/ hpc'[d] # "run"
    PROVE  Clean(d)'
  BY DEF Clean, HeardOwn, SentOwn, HoldsOwn, Own, Due, Asked, Over

LEMMA FitHolds ==
    ASSUME TypeInv, Fit, [Next]_vars
    PROVE  Fit' /\ mixed \subseteq mixed'
  <1>t. opt \in Options /\ DOMAIN chunk = Ports /\ Horizon \in Nat \ {0}
    BY WireConstants DEF TypeInv
  <1>1. ASSUME NEW p \in Ports, opt' = opt, mixed' = mixed, chunk' = chunk \/ chunk' = [chunk EXCEPT ![p] = <<>>]
        PROVE  Fit' /\ mixed \subseteq mixed'
    BY <1>1, <1>t DEF Fit
  <1>2. ASSUME NEW c \in Conns, HandlesObs(c) PROVE Fit' /\ mixed \subseteq mixed'
    <2> PICK n \in 1 .. Steps : HandlesObs(c)!(n) BY <1>2 DEF HandlesObs
    <2>1. opt' = opt /\ mixed \subseteq mixed' BY DEF setup
    <2>2. CASE opt.policy = "null" BY <1>t, <2>1, <2>2 DEF Act, Fit
    <2>3. CASE opt.policy # "null"
      <3>1. chunk' = [chunk EXCEPT ![c[1]] = Tail(Chunk(c, n))] BY <2>3 DEF Act
      <3>2. Chunk(c, n) \in Seq(Origins) /\ Chunk(c, n) # <<>> BY ChunkTypes
      <3>3. Len(Tail(Chunk(c, n))) = Len(Chunk(c, n)) - 1 /\ Len(Chunk(c, n)) \in Nat
        BY <3>2, TailFacts
      <3>4. Len(Chunk(c, n)) <= Horizon
        <4>1. CASE chunk[c[1]] = <<>>
          <5>1. Chunk(c, n) = [k \in 1 .. Horizon |-> <<c, n>>] BY <4>1 DEF Chunk
          <5>2. Chunk(c, n) \in Seq({<<c, n>>}) /\ Len(Chunk(c, n)) = Horizon BY <5>1, <1>t
          <5> QED BY <5>2, <1>t
        <4>2. CASE chunk[c[1]] # <<>> BY <4>2, ConnTypes DEF Chunk, Fit
        <4> QED BY <4>1, <4>2
      <3>5. Len(Tail(Chunk(c, n))) <= Horizon BY <3>3, <3>4, <1>t
      <3> QED BY <1>t, <2>1, <2>3, <3>1, <3>5 DEF Fit
    <2> QED BY <2>2, <2>3
  <1>3. ASSUME NEW c \in Conns, HandlerBegins(c) \/ HandlesReset(c) \/ HandlesGarbled(c) \/ HandlerEnds(c)
        PROVE  Fit' /\ mixed \subseteq mixed'
    BY <1>1, <1>3, ConnTypes DEF HandlerBegins, HandlesReset, HandlesGarbled, HandlerEnds, PolicyReset, setup, policy
  <1>4. ASSUME UNCHANGED <<opt, chunk, mixed>> PROVE Fit' /\ mixed \subseteq mixed'
    BY <1>4 DEF Fit
  <1>5. ASSUME NEW c \in Conns, \/ Connects(c) \/ ReadsMetadata(c) \/ MetadataTimeout(c) \/ SendsReset(c)
                                \/ TakesAction(c) \/ RolloutFails(c) \/ \E frame : Asks(c, frame)
        PROVE  UNCHANGED <<opt, chunk, mixed>>
    BY <1>5 DEF Connects, ReadsMetadata, MetadataTimeout, SendsReset, TakesAction, RolloutFails, Asks, setup, policy
  <1>6. ASSUME UNCHANGED vars \/ (\E p \in Ports : Serve(p))
                 \/ \E outcome \in {"crashed", "stopped"} : AllCancelled(outcome)
        PROVE  UNCHANGED <<opt, chunk, mixed>>
    BY <1>6 DEF vars, Serve, AllCancelled, setup, policy
  <1> QED BY <1>2, <1>3, <1>4, <1>5, <1>6, StepOf

\* The answer to an observation comes from a chunk of its own rollout, and leaves in
\* the chunk what the next observation needs.
LEMMA ObsClean ==
    ASSUME WireInv, WireInv', Fit, NEW c \in Conns, Clean(c), Alone(c)', HandlesObs(c)
    PROVE  Clean(c)'
  <1> PICK n \in 1 .. Steps : HandlesObs(c)!(n) BY DEF HandlesObs
  <1>t. /\ TypeInv /\ Horizon \in Nat \ {0} /\ n \in Nat /\ c[1] \in Ports
        /\ hpc[c] = "run" /\ sent[c] \in Nat /\ DOMAIN chunk = Ports /\ down[c] \in Seq(Replies)
    <2>1. sent[c] \in 0 .. Steps /\ DOMAIN chunk = Ports /\ down[c] \in Seq(Replies) /\ TypeInv
      BY DEF WireInv, TypeInv
    <2>2. hpc[c] = "run" BY DEF Takes
    <2> QED BY <2>1, <2>2, WireConstants, ConnTypes
  <1>1. UNCHANGED <<cpc, sent, heard>> /\ mixed \subseteq mixed' BY DEF rollout
  <1>2. n = sent[c] /\ Asked(c)
    <2>1. up[c] \in Seq(Requests) /\ up[c] # <<>> /\ Head(up[c]) = Obs(n)
      BY DEF Takes, WireInv, TypeInv
    <2>2. up[c][1].kind = "obs" /\ up[c][1].n = n /\ 1 \in DOMAIN up[c]
      BY <2>1, TailFacts DEF Obs
    <2> QED BY <2>2 DEF WireInv, Disciplined, OneQuestion, Asked
  <1>3. CASE c[1] \in mixed' \/ Over(c) BY <1>1, <1>3 DEF Clean, HeardOwn, Own, Over
  <1>4. CASE c[1] \notin mixed' /\ ~Over(c)
    <2>1. HoldsOwn(c) /\ SentOwn(c) BY <1>1, <1>4, <1>t DEF Clean
    <2> DEFINE from == Inferred(c, n)
    <2>2. Own(c, n, from)
      <3>1. CASE opt.policy = "null" BY <3>1, <1>t DEF Inferred, Own
      <3>2. CASE opt.policy # "null" /\ chunk[c[1]] = <<>>
        <4>1. from = Head([k \in 1 .. Horizon |-> <<c, n>>]) BY <3>2 DEF Inferred, Chunk
        <4>2. [k \in 1 .. Horizon |-> <<c, n>>] \in Seq({<<c, n>>}) BY <1>t
        <4>3. from = <<c, n>> BY <4>1, <1>t
        <4> QED BY <4>3, <1>t DEF Own
      <3>3. CASE opt.policy # "null" /\ chunk[c[1]] # <<>>
        <4>1. chunk[c[1]] \in Seq(Origins) BY <1>t DEF TypeInv
        <4>2. Len(chunk[c[1]]) \in 1 .. Horizon /\ 1 \in DOMAIN chunk[c[1]] /\ from = chunk[c[1]][1]
          BY <3>3, <4>1, <1>t, TailFacts DEF Inferred, Chunk, Fit
        <4>3. from[1] = c /\ from[2] + Horizon - Len(chunk[c[1]]) = n
          BY <2>1, <4>2, <1>2 DEF HoldsOwn, Due
        <4>4. from[2] \in Int
          <5>1. from \in Origins BY <4>1, <4>2, <1>t
          <5> QED BY <5>1 DEF Origins
        <4> QED BY <4>2, <4>3, <4>4, <1>t DEF Own
      <3> QED BY <3>1, <3>2, <3>3
    <2>3. SentOwn(c)'
      <3> DEFINE answer == Action(c, n, from)
      <3>1. answer \in Replies /\ answer.for = n /\ answer.from = from BY InferredType, <1>t DEF Action
      <3>2. down'[c] = down[c] \/ down'[c] = Append(down[c], answer) BY <1>t DEF Send, TypeInv
      <3> HIDE DEF answer, from
      <3>3. CASE down'[c] = down[c] BY <2>1, <3>3 DEF SentOwn, Own
      <3>4. CASE down'[c] = Append(down[c], answer)
        <4>1. \A k \in DOMAIN down'[c] :
                 (k \in DOMAIN down[c] /\ down'[c][k] = down[c][k]) \/ down'[c][k] = answer
          BY <1>t, <3>1, <3>4, AppendFacts
        <4> QED BY <2>1, <2>2, <3>1, <4>1 DEF SentOwn, Own
      <3> QED BY <3>2, <3>3, <3>4
    <2>4. hpc'[c] = "run" => HoldsOwn(c)'
      <3> SUFFICES ASSUME hpc'[c] = "run" PROVE HoldsOwn(c)'
        OBVIOUS
      <3>1. open[c] BY <1>t DEF TypeInv
      <3>2. ~Asked(c)'
        <4> DEFINE answer == Action(c, n, from)
        <4>1. answer \in Replies /\ answer.kind = "action" BY InferredType, <1>t DEF Action
        <4>2. down'[c] = Append(down[c], answer) BY <3>1, <1>t DEF Send, TypeInv
        <4> HIDE DEF answer
        <4>3. Answered(c)' BY <4>1, <4>2, <1>t, AppendFacts DEF Answered
        <4> QED BY <4>3 DEF WireInv, Disciplined, OneQuestion
      <3>3. Due(c)' = n + 1 BY <3>2, <1>1, <1>2 DEF Due
      <3>4. CASE opt.policy = "null" BY <3>4, <1>t DEF Act, Fit, HoldsOwn
      <3>5. CASE opt.policy # "null"
        <4>1. chunk'[c[1]] = Tail(Chunk(c, n)) BY <3>5, <1>t DEF Act
        <4>2. Chunk(c, n) \in Seq(Origins) /\ Chunk(c, n) # <<>> BY ChunkTypes, <1>t
        <4>3. \A k \in DOMAIN Chunk(c, n) :
                 Chunk(c, n)[k][1] = c /\ Chunk(c, n)[k][2] + Horizon - Len(Chunk(c, n)) = n
          <5>1. CASE chunk[c[1]] = <<>>
            <6>1. Chunk(c, n) = [k \in 1 .. Horizon |-> <<c, n>>] BY <5>1 DEF Chunk
            <6>2. Chunk(c, n) \in Seq({<<c, n>>}) /\ Len(Chunk(c, n)) = Horizon BY <6>1, <1>t
            <6> QED BY <6>1, <6>2, <1>t
          <5>2. CASE chunk[c[1]] # <<>> BY <5>2, <2>1, <1>2 DEF Chunk, HoldsOwn, Due
          <5> QED BY <5>1, <5>2
        <4>4. ASSUME NEW k \in DOMAIN chunk'[c[1]]
              PROVE  chunk'[c[1]][k][1] = c /\ chunk'[c[1]][k][2] + Horizon - Len(chunk'[c[1]]) = n + 1
          <5>1. /\ k + 1 \in DOMAIN Chunk(c, n) /\ chunk'[c[1]][k] = Chunk(c, n)[k + 1]
                /\ Len(chunk'[c[1]]) = Len(Chunk(c, n)) - 1 /\ Len(Chunk(c, n)) \in Nat
            BY <4>1, <4>2, <4>4, TailFacts
          <5>2. Chunk(c, n)[k + 1] \in Origins BY <4>2, <5>1
          <5>3. Chunk(c, n)[k + 1][2] \in Int BY <5>2 DEF Origins
          <5> QED BY <4>3, <5>1, <5>3, <1>t
        <4> QED BY <3>3, <4>4 DEF HoldsOwn
      <3> QED BY <3>4, <3>5
    <2>5. HeardOwn(c)' BY <1>1, <1>4 DEF Clean, HeardOwn, Own
    <2> QED BY <2>3, <2>4, <2>5 DEF Clean
  <1> QED BY <1>3, <1>4

LEMMA HandlersClean ==
    ASSUME WireInv, WireInv', CleanInv, NEW c \in Conns, \A d \in Conns : Alone(d)', mixed \subseteq mixed',
           HandlerBegins(c) \/ HandlesObs(c) \/ HandlesReset(c) \/ HandlesGarbled(c) \/ HandlerEnds(c)
    PROVE  \A d \in Conns : Clean(d)'
  <1>t. TypeInv /\ TypeInv' /\ c[1] \in Ports /\ down[c] \in Seq(Replies) /\ Clean(c) /\ Disciplined(c)
    BY ConnTypes DEF WireInv, TypeInv, CleanInv
  <1>1. ASSUME NEW d \in Conns, d # c PROVE Clean(d)'
    <2>1. Local(d)' = Local(d) BY <1>1, <1>t, HandlerDisciplined
    <2>2. chunk'[d[1]] \in {chunk[d[1]], <<>>} \/ d[1] \in mixed' \/ Over(d) \/ hpc'[d] # "run"
      <3>1. CASE HandlesObs(c)
        <4> PICK n \in 1 .. Steps : HandlesObs(c)!(n) BY <3>1 DEF HandlesObs
        <4>1. CASE d[1] # c[1]
          <5> DEFINE rest == Tail(Chunk(c, n))
          <5>1. chunk' = chunk \/ chunk' = [chunk EXCEPT ![c[1]] = rest] BY DEF Act
          <5>2. DOMAIN chunk = Ports /\ d[1] \in Ports BY <1>t, ConnTypes DEF TypeInv
          <5> HIDE DEF rest
          <5> QED BY <4>1, <5>1, <5>2
        <4>2. CASE d[1] = c[1] /\ Before(d, c)
          <5>1. cpc[c] # "none" BY <1>t DEF Disciplined, Untouched, Takes
          <5> QED BY <5>1, <4>2, <1>t DEF Clean, Alone
        <4>3. CASE d[1] = c[1] /\ Before(c, d) /\ hpc'[d] = "run"
          <5>1. hpc[d] = "run" BY <4>3, <2>1 DEF Local
          <5> QED BY <4>3, <5>1
        <4> QED BY <1>1, <4>1, <4>2, <4>3, SamePort
      <3>2. CASE ~HandlesObs(c)
        BY <3>2, <1>t, ConnTypes DEF HandlerBegins, HandlesReset, HandlesGarbled, HandlerEnds, PolicyReset, policy, TypeInv
      <3> QED BY <3>1, <3>2
    <2> QED BY <2>1, <2>2, CleanElsewhere DEF Local, CleanInv
  <1>2. Clean(c)'
    <2>1. CASE HandlesObs(c) BY <2>1, <1>t, ObsClean DEF CleanInv
    <2>2. CASE HandlesReset(c)
      BY <2>2, <1>t DEF HandlesReset, PolicyReset, Clean, HeardOwn, SentOwn, HoldsOwn, Own, Over, rollout, TypeInv
    <2>3. CASE HandlesGarbled(c) \/ HandlerEnds(c)
      <3>1. hpc'[c] = "end" /\ UNCHANGED <<down, cpc, heard, mixed>>
        BY <2>3 DEF HandlesGarbled, HandlerEnds, rollout, policy, channel, WireInv, TypeInv
      <3> QED BY <3>1, <1>t DEF Clean, HeardOwn, SentOwn, Own, Over
    <2>4. CASE HandlerBegins(c)
      <3>1. down'[c] = down[c] \/ down'[c] = Append(down[c], Meta)
        BY <2>4 DEF HandlerBegins, Send, WireInv, TypeInv
      <3>2. UNCHANGED <<cpc, heard, mixed>> /\ chunk'[c[1]] = <<>>
        BY <2>4, <1>t DEF HandlerBegins, PolicyReset, rollout, TypeInv
      <3>3. \A k \in DOMAIN down'[c] : down'[c][k].kind = "action" => k \in DOMAIN down[c] /\ down'[c][k] = down[c][k]
        <4>1. Meta \in Replies /\ Meta.kind # "action" BY FrameTypes DEF Meta
        <4> HIDE DEF Meta
        <4> QED BY <1>t, <3>1, <4>1, AppendFacts
      <3> QED BY <1>t, <3>2, <3>3 DEF Clean, HeardOwn, SentOwn, HoldsOwn, Own, Over
    <2> QED BY <2>1, <2>2, <2>3, <2>4
  <1> QED BY <1>1, <1>2

LEMMA ClientsClean ==
    ASSUME WireInv, WireInv', CleanInv, NEW c \in Conns, \A d \in Conns : Alone(d)', mixed \subseteq mixed',
           \/ Connects(c) \/ ReadsMetadata(c) \/ MetadataTimeout(c) \/ SendsReset(c) \/ TakesAction(c)
           \/ \E frame \in {Obs(sent[c] + 1), Garbled} : frame \in Requests /\ Asks(c, frame)
           \/ cpc[c] \in {"meta", "ready", "wait"} /\ RolloutFails(c)
    PROVE  \A d \in Conns : Clean(d)'
  <1>t. /\ TypeInv /\ TypeInv' /\ c[1] \in Ports /\ Clean(c) /\ Disciplined(c) /\ Disciplined(c)' /\ Alone(c)'
        /\ down[c] \in Seq(Replies) /\ up[c] \in Seq(Requests) /\ sent[c] \in Int
        /\ heard[c] \in Seq([for : 1 .. Steps, from : Origins])
    <2>1. sent[c] \in 0 .. Steps BY DEF WireInv, TypeInv
    <2>2. /\ down[c] \in Seq(Replies) /\ up[c] \in Seq(Requests)
          /\ heard[c] \in Seq([for : 1 .. Steps, from : Origins])
      BY DEF WireInv, TypeInv
    <2>3. TypeInv /\ TypeInv' /\ Disciplined(c) /\ Disciplined(c)' BY DEF WireInv
    <2>4. Clean(c) BY DEF CleanInv
    <2> QED BY <2>1, <2>2, <2>3, <2>4, ConnTypes, WireConstants
  <1>c. UNCHANGED <<chunk, mixed>>
    BY DEF Connects, ReadsMetadata, MetadataTimeout, SendsReset, TakesAction, RolloutFails, Asks, policy
  <1>1. ASSUME NEW d \in Conns, d # c PROVE Clean(d)'
    <2>1. Local(d)' = Local(d) BY <1>1, <1>t, ClientDisciplined
    <2> QED BY <2>1, <1>c, CleanElsewhere DEF Local, CleanInv
  <1>2. Clean(c)'
    <2>1. CASE Connects(c)
      <3>1. cpc[c] = "none" /\ hpc'[c] = "begin" /\ UNCHANGED <<down, heard>>
        BY <2>1 DEF Connects, WireInv, TypeInv
      <3>2. down'[c] = <<>> /\ heard'[c] = <<>> BY <1>t, <3>1 DEF Disciplined, Untouched
      <3> QED BY <1>t, <3>1, <3>2 DEF Clean, HeardOwn, SentOwn
    <2>2. CASE ReadsMetadata(c)
      <3>1. /\ UNCHANGED <<up, hpc, sent, heard>> /\ down[c] # <<>> /\ down'[c] = Tail(down[c])
            /\ cpc[c] = "meta"
        BY <2>2 DEF ReadsMetadata, WireInv, TypeInv
      <3>2. \A k \in DOMAIN down'[c] : k + 1 \in DOMAIN down[c] /\ down'[c][k] = down[c][k + 1]
        BY <1>t, <3>1, TailFacts
      <3> QED BY <1>t, <1>c, <3>1, <3>2 DEF Clean, HeardOwn, SentOwn, HoldsOwn, Own, Due, Asked, Over
    <2>3. CASE MetadataTimeout(c)
      <3>1. UNCHANGED <<up, down, hpc, sent, heard>> /\ cpc[c] = "meta"
        BY <2>3 DEF MetadataTimeout, channel
      <3> QED BY <1>t, <1>c, <3>1 DEF Clean, HeardOwn, SentOwn, HoldsOwn, Own, Due, Asked, Over
    <2>4. CASE SendsReset(c)
      <3>1. UNCHANGED <<down, hpc, cpc, sent, heard>> /\ cpc[c] = "ready" BY <2>4 DEF SendsReset
      <3>2. ~Asked(c) /\ ~Asked(c)' BY <1>t, <3>1 DEF Disciplined, OneQuestion
      <3> QED BY <1>t, <1>c, <3>1, <3>2 DEF Clean, HeardOwn, SentOwn, HoldsOwn, Own, Due, Over
    <2>5. ASSUME NEW frame \in {Obs(sent[c] + 1), Garbled}, frame \in Requests, Asks(c, frame) PROVE Clean(c)'
      <3>1. /\ UNCHANGED <<down, hpc, heard>> /\ cpc[c] = "ready" /\ sent'[c] = sent[c] + 1
            /\ up'[c] = Append(up[c], frame)
        BY <2>5 DEF Asks, Send, WireInv, TypeInv
      <3>2. ~Asked(c) BY <1>t, <3>1 DEF Disciplined, OneQuestion
      <3>3. frame.kind # "reset" BY DEF Obs, Garbled
      <3>4. Asked(c)'
        <4>1. Len(up[c]) + 1 \in DOMAIN up'[c] /\ up'[c][Len(up[c]) + 1] = frame
          BY <1>t, <2>5, <3>1, AppendFacts
        <4> QED BY <3>3, <4>1 DEF Asked
      <3>5. Due(c)' = Due(c) BY <3>1, <3>2, <3>4 DEF Due
      <3> QED BY <1>t, <1>c, <3>1, <3>5 DEF Clean, HeardOwn, SentOwn, HoldsOwn, Own, Over
    <2>6. CASE TakesAction(c)
      <3> DEFINE taken == [for |-> Head(down[c]).for, from |-> Head(down[c]).from]
      <3>1. /\ UNCHANGED <<up, hpc, sent>> /\ cpc[c] = "wait" /\ down[c] # <<>> /\ down'[c] = Tail(down[c])
            /\ heard'[c] = Append(heard[c], taken) /\ Head(down[c]).kind = "action"
        BY <2>6 DEF TakesAction, ActionIn, WireInv, TypeInv
      <3>2. \A k \in DOMAIN down'[c] : k + 1 \in DOMAIN down[c] /\ down'[c][k] = down[c][k + 1]
        BY <1>t, <3>1, TailFacts
      <3>3. 1 \in DOMAIN down[c] /\ Head(down[c]) = down[c][1] BY <1>t, <3>1, TailFacts
      <3>4. Len(heard[c]) + 1 = down[c][1].for
        BY <1>t, <3>1, <3>3 DEF Disciplined, Counted, OneQuestion
      <3>5. c[1] \notin mixed => Own(c, Len(heard[c]) + 1, taken.from)
        BY <1>t, <3>1, <3>3, <3>4 DEF Clean, SentOwn, Over
      <3>6. taken \in [for : 1 .. Steps, from : Origins]
        <4>1. Head(down[c]) \in Replies BY <1>t, <3>1, TailFacts
        <4>2. Meta.kind # "action" BY DEF Meta
        <4>3. Head(down[c]) \in Answers BY <3>1, <4>1, <4>2 DEF Replies
        <4> QED BY <4>3 DEF Answers
      <3> HIDE DEF taken
      <3>7. \A n \in DOMAIN heard'[c] :
               (n \in DOMAIN heard[c] /\ heard'[c][n] = heard[c][n])
               \/ (n = Len(heard[c]) + 1 /\ heard'[c][n] = taken)
        BY <1>t, <3>1, <3>6, AppendFacts
      <3>8. c[1] \notin mixed => HeardOwn(c)' BY <1>t, <3>5, <3>7 DEF Clean, HeardOwn, Own
      <3>9. c[1] \notin mixed => SentOwn(c)'
        BY <1>t, <3>1, <3>2 DEF Clean, SentOwn, Own, Over
      <3>10. c[1] \notin mixed /\ hpc[c] = "run" => HoldsOwn(c)'
        BY <1>t, <1>c, <3>1 DEF Clean, HoldsOwn, Due, Asked, Over
      <3> QED BY <1>t, <1>c, <3>1, <3>8, <3>9, <3>10 DEF Clean
    <2>7. CASE cpc[c] \in {"meta", "ready", "wait"} /\ RolloutFails(c)
      <3>1. UNCHANGED heard /\ cpc'[c] = "failed" BY <2>7 DEF RolloutFails, Goto, WireInv, TypeInv
      <3> QED BY <1>t, <1>c, <3>1 DEF Clean, HeardOwn, Own, Over
    <2> QED BY <2>1, <2>2, <2>3, <2>4, <2>5, <2>6, <2>7
  <1> QED BY <1>1, <1>2

LEMMA CleanHolds == CleanInv /\ WireInv /\ WireInv' /\ [Next]_vars => CleanInv'
  <1> SUFFICES ASSUME CleanInv, WireInv, WireInv', [Next]_vars PROVE CleanInv'
    OBVIOUS
  <1>t. TypeInv BY DEF WireInv
  <1>1. Fit' /\ mixed \subseteq mixed' BY <1>t, FitHolds DEF CleanInv
  <1>2. \A c \in Conns : Alone(c)' /\ (Over(c) => Over(c)') BY <1>t, AloneHolds DEF CleanInv, Clean
  <1>3. CASE UNCHANGED vars \/ (\E p \in Ports : Serve(p))
               \/ \E outcome \in {"crashed", "stopped"} : AllCancelled(outcome)
    <2>1. UNCHANGED <<up, down, rollout, policy>> BY <1>3 DEF vars, Serve, AllCancelled, channel
    <2>2. \A c \in Conns : hpc'[c] = "run" => hpc[c] = "run" BY <1>3 DEF vars, Serve, AllCancelled
    <2>3. ASSUME NEW c \in Conns PROVE Clean(c)'
      BY <1>2, <2>1, <2>2, CleanElsewhere DEF CleanInv, rollout, policy
    <2> QED BY <1>1, <2>3 DEF CleanInv
  <1> QED BY <1>1, <1>2, <1>3, <1>t, StepOf, HandlersClean, ClientsClean DEF CleanInv

\* No rollout executes an action inferred in another one, or more than a chunk ago.
THEOREM EpisodesStartClean == Spec => []EpisodeStartsClean
  <1>1. Init => CleanInv
    <2>1. ASSUME Init PROVE Fit
      BY <2>1, WireConstants DEF Init, Fit
    <2>2. ASSUME Init, NEW c \in Conns PROVE Clean(c)
      BY <2>2 DEF Init, Each, Clean, Alone, HeardOwn, SentOwn, HoldsOwn
    <2> QED BY <2>1, <2>2 DEF CleanInv
  <1>2. CleanInv => EpisodeStartsClean
    BY DEF CleanInv, Clean, HeardOwn, Own, EpisodeStartsClean
  <1> QED BY <1>1, <1>2, CleanHolds, WireCorrect, PTL DEF Spec
=============================================================================
