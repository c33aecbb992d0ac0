--------------------------- MODULE HttpServerProofs ---------------------------
(***************************************************************************)
(* What HttpServer claims of its requests and of Ctrl-C, proved for any      *)
(* number of requests, workers, places in the channel and presses, and for  *)
(* any polling interval.                                                    *)
(***************************************************************************)
EXTENDS HttpServer, SequenceTheorems, TLAPS

(* The strengthening: http_loop serves a request, and only a machine that is *)
(* in http_accept polls there.                                               *)
Serving ==
  /\ p \in {"handle", "answer", "close"} => req \in Requests
  /\ polling = "accept" => p = "accept"

(* The inductive invariant. *)
Inv == TypeOK /\ Serving /\ NobodyForgotten /\ NoPressLost

(* What taking the next request from the channel leaves. *)
LEMMA TakeLemma ==
  ASSUME TypeOK, Take
  PROVE  /\ req' \in Requests /\ chan' \in Seq(Requests) /\ Len(chan') = Len(chan) - 1
         /\ Queued \subseteq Queued' \cup {req'}
<1>1. chan \in Seq(Requests) /\ chan # <<>> /\ req' = Head(chan) /\ chan' = Tail(chan)
  BY DEF TypeOK, Take
<1>2. /\ req' \in Requests /\ chan' \in Seq(Requests) /\ Len(chan') = Len(chan) - 1
      /\ \A i \in 1..Len(chan') : chan'[i] = chan[i + 1]
  BY <1>1, HeadTailProperties
<1>3. ASSUME NEW i \in 1..Len(chan) PROVE chan[i] \in Queued' \cup {req'}
  <2>1. CASE i = 1
    BY <1>1, <2>1
  <2>2. CASE i # 1
    <3>1. i - 1 \in 1..Len(chan') /\ chan'[i - 1] = chan[i]
      BY <1>1, <1>2, <2>2
    <3> QED BY <3>1 DEF Queued
  <2> QED BY <2>1, <2>2
<1> QED BY <1>2, <1>3 DEF Queued

(* Every variable keeps its type, and the channel its bound: a send waits for *)
(* room.                                                                      *)
LEMMA TypeStep == TypeOK /\ Serving /\ [Next]_vars => TypeOK'
<1> SUFFICES ASSUME TypeOK, Serving, [Next]_vars PROVE TypeOK'
  OBVIOUS
<1> USE HttpAssumption
<1>1. ASSUME NEW r \in Requests, Receive(r) PROVE TypeOK'
  BY <1>1 DEF TypeOK, Receive, pollVars, loopVars
<1>2. ASSUME NEW r \in Requests, Send(r) PROVE TypeOK'
  <2>1. chan' \in Seq(Requests) /\ Len(chan') = Len(chan) + 1
    BY <1>2 DEF TypeOK, Send
  <2>2. Len(chan') <= ChanCap
    BY <1>2, <2>1 DEF TypeOK, Send, HasRoom
  <2> QED BY <1>2, <2>1, <2>2 DEF TypeOK, Send, pollVars
<1>3. ASSUME NEW r \in Requests, WakeUp(r) PROVE TypeOK'
  BY <1>3 DEF TypeOK, WakeUp, pollVars, loopVars
<1>4. CASE CtrlC
  BY <1>4 DEF TypeOK, CtrlC, closureVars, loopVars
<1>5. CASE HttpAccept \/ HttpAcceptThrows
  <2>1. Take /\ Len(chan) <= ChanCap
    BY <1>5 DEF TypeOK, HttpAccept, HttpAcceptThrows
  <2>2. req' \in Requests /\ chan' \in Seq(Requests) /\ Len(chan') <= ChanCap
    BY <2>1, TakeLemma DEF TypeOK
  <2> QED BY <1>5, <2>2 DEF TypeOK, HttpAccept, HttpAcceptThrows, Step, closureVars, pollVars
<1>6. CASE AcceptTimeout \/ AcceptDisconnected
  BY <1>6 DEF TypeOK, AcceptTimeout, AcceptDisconnected, closureVars, loopVars, pollVars
<1>7. CASE HandlerRuns \/ HandlerDone \/ HandlerThrows \/ HttpAnswer \/ ResetBlockFails
  BY <1>7 DEF TypeOK, HandlerRuns, HandlerDone, HandlerThrows, HttpAnswer, ResetBlockFails,
              Step, closureVars, pollVars
<1>8. CASE CloseResponse
  <2>1. req \in Requests
    BY <1>8 DEF TypeOK, Serving, CloseResponse, Step
  <2> QED BY <1>8, <2>1 DEF TypeOK, CloseResponse, DropPayload, Step, pollVars
<1>9. CASE Poll
  BY <1>9 DEF TypeOK, Poll, closureVars
<1>10. CASE FinishPoll
  <2>1. CASE INTERRUPT = loaded /\ loaded
    <3>1. p' \in {"top", "handle", "skipped"}
      BY <1>10, <2>1 DEF FinishPoll, CompareExchange, Interrupt, Landings
    <3>2. closed' \subseteq Requests
      BY <1>10, <2>1 DEF TypeOK, Serving, FinishPoll, CompareExchange, Interrupt
    <3> QED BY <1>10, <2>1, <3>1, <3>2
            DEF TypeOK, FinishPoll, CompareExchange, Interrupt, DropPayload
  <2>2. CASE ~(INTERRUPT = loaded /\ loaded)
    BY <1>10, <2>2 DEF TypeOK, FinishPoll, CompareExchange
  <2> QED BY <2>1, <2>2
<1>11. CASE Bind \/ BindFails
  BY <1>11 DEF TypeOK, Bind, BindFails, loopVars, pollVars
<1>12. CASE UNCHANGED vars
  BY <1>12 DEF TypeOK, vars, closureVars, loopVars, pollVars
<1> QED
  BY <1>1, <1>2, <1>3, <1>4, <1>5, <1>6, <1>7, <1>8, <1>9, <1>10, <1>11, <1>12
  DEF Next, Machine

(* What one step of anybody but the machine does to the loop. *)
LEMMA OthersStep ==
  ASSUME Next, ~Machine
  PROVE  /\ UNCHANGED <<p, req, fail, fuel, closed, polling, loaded, heard>>
         /\ UNCHANGED <<presses, INTERRUPT>> \/ INTERRUPT'
  BY DEF Next, Bind, BindFails, Receive, Send, WakeUp, CtrlC, loopVars, pollVars

(* A request is under way while http_loop serves it, and a poll of           *)
(* http_accept ends where it began.                                          *)
LEMMA ServingStep == TypeOK /\ Serving /\ [Next]_vars => Serving'
<1> SUFFICES ASSUME TypeOK, Serving, [Next]_vars PROVE Serving'
  OBVIOUS
<1>1. CASE HttpAccept \/ HttpAcceptThrows
  <2>1. req' \in Requests
    BY <1>1, TakeLemma DEF HttpAccept, HttpAcceptThrows
  <2> QED BY <1>1, <2>1 DEF Serving, HttpAccept, HttpAcceptThrows, Step, pollVars
<1>2. CASE AcceptTimeout \/ AcceptDisconnected
  BY <1>2 DEF Serving, AcceptTimeout, AcceptDisconnected, loopVars, pollVars
<1>3. CASE HandlerRuns \/ HandlerDone \/ HandlerThrows \/ HttpAnswer \/ ResetBlockFails
             \/ CloseResponse
  BY <1>3 DEF Serving, HandlerRuns, HandlerDone, HandlerThrows, HttpAnswer, ResetBlockFails,
              CloseResponse, Step, pollVars
<1>4. CASE Poll
  BY <1>4 DEF Serving, Poll
<1>5. CASE FinishPoll
  BY <1>5 DEF Serving, FinishPoll, CompareExchange, Interrupt, Landings
<1>6. CASE Next /\ ~Machine
  BY <1>6, OthersStep DEF Serving
<1>7. CASE UNCHANGED vars
  BY <1>7 DEF Serving, vars, loopVars, pollVars
<1> QED BY <1>1, <1>2, <1>3, <1>4, <1>5, <1>6, <1>7 DEF Machine

(* Whoever waits is known to the loop, as long as it goes on. *)
LEMMA ForgottenStep == Inv /\ [Next]_vars => NobodyForgotten'
<1> SUFFICES ASSUME Inv, [Next]_vars, p' \notin {"top", "panicked"},
                    NEW r \in Requests, rpc'[r] = "wait"
             PROVE  r \in Queued' \cup Served' \cup closed'
  BY DEF NobodyForgotten
<1> USE DEF Inv
<1>1. ASSUME NEW q \in Requests, Send(q) PROVE r \in Queued' \cup Served' \cup closed'
  <2>1. /\ chan \in Seq(Requests) /\ Len(chan') = Len(chan) + 1 /\ chan'[Len(chan) + 1] = q
        /\ \A i \in 1..Len(chan) : chan'[i] = chan[i]
    BY <1>1 DEF Send, TypeOK
  <2>2. Queued \cup {q} \subseteq Queued'
    BY <2>1 DEF Queued
  <2>3. UNCHANGED <<p, req, closed>> /\ (r = q \/ rpc[r] = "wait")
    BY <1>1 DEF Send, TypeOK
  <2> QED BY <2>2, <2>3 DEF NobodyForgotten, Served
<1>2. ASSUME NEW q \in Requests, Receive(q) \/ WakeUp(q)
      PROVE  r \in Queued' \cup Served' \cup closed'
  <2>1. UNCHANGED <<p, req, closed, chan>> /\ rpc[r] = "wait"
    BY <1>2 DEF Receive, WakeUp, TypeOK, loopVars
  <2> QED BY <2>1 DEF NobodyForgotten, Served, Queued
<1>3. CASE CtrlC \/ Bind \/ BindFails
  BY <1>3 DEF NobodyForgotten, Served, Queued, CtrlC, Bind, BindFails, closureVars, loopVars
<1>4. CASE HttpAccept
  <2>1. Queued \subseteq Queued' \cup {req'} /\ p = "accept" /\ p' = "handle"
        /\ UNCHANGED <<rpc, closed>>
    BY <1>4, TakeLemma DEF HttpAccept, Step, closureVars
  <2> QED BY <2>1 DEF NobodyForgotten, Served
<1>5. CASE HttpAcceptThrows \/ HandlerThrows \/ ResetBlockFails
  BY <1>5 DEF HttpAcceptThrows, HandlerThrows, ResetBlockFails, Step
<1>6. CASE AcceptTimeout \/ AcceptDisconnected \/ Poll
  BY <1>6 DEF NobodyForgotten, Served, Queued, AcceptTimeout, AcceptDisconnected, Poll,
              closureVars, loopVars
<1>7. CASE HandlerRuns \/ HandlerDone \/ HttpAnswer
  BY <1>7 DEF NobodyForgotten, Served, Queued, HandlerRuns, HandlerDone, HttpAnswer, Step,
              closureVars
<1>8. CASE CloseResponse
  BY <1>8 DEF NobodyForgotten, Served, Queued, CloseResponse, Step
<1>9. CASE FinishPoll
  <2>1. UNCHANGED <<rpc, chan, req>> /\ closed \subseteq closed'
    BY <1>9 DEF FinishPoll, CompareExchange, Interrupt
  <2>2. p \notin {"top", "panicked"} /\ (p' # p => p = "accept")
    BY <1>9 DEF FinishPoll, CompareExchange, Interrupt, Landings, Serving, TypeOK
  <2> QED BY <2>1, <2>2 DEF NobodyForgotten, Served, Queued
<1>10. CASE UNCHANGED vars
  BY <1>10 DEF NobodyForgotten, Served, Queued, vars, closureVars, loopVars
<1> QED BY <1>1, <1>2, <1>3, <1>4, <1>5, <1>6, <1>7, <1>8, <1>9, <1>10 DEF Next, Machine

(* Only an exchange that throws the interrupt takes the flag down. *)
LEMMA PressStep == TypeOK /\ NoPressLost /\ [Next]_vars => NoPressLost'
<1> SUFFICES ASSUME TypeOK, NoPressLost, [Next]_vars PROVE NoPressLost'
  OBVIOUS
<1>1. CASE FinishPoll
  BY <1>1 DEF NoPressLost, TypeOK, FinishPoll, CompareExchange, Interrupt
<1>2. CASE Next /\ ~Machine
  BY <1>2, OthersStep DEF NoPressLost
<1>3. CASE Machine /\ ~FinishPoll
  <2>1. UNCHANGED <<heard, presses, INTERRUPT>>
    BY <1>3 DEF Machine, HttpAccept, HttpAcceptThrows, AcceptTimeout, AcceptDisconnected,
                ResetBlockFails, HandlerRuns, HandlerDone, HandlerThrows, HttpAnswer,
                CloseResponse, Poll, Step, pollVars
  <2> QED BY <2>1 DEF NoPressLost
<1>4. CASE UNCHANGED vars
  BY <1>4 DEF NoPressLost, vars, pollVars
<1> QED BY <1>1, <1>2, <1>3, <1>4

(* Every step keeps the invariant. *)
LEMMA InvStep == Inv /\ [Next]_vars => Inv'
  BY TypeStep, ServingStep, ForgottenStep, PressStep DEF Inv

(* The invariant holds at the start. *)
LEMMA InitInv == Init => Inv
<1> SUFFICES ASSUME Init PROVE Inv
  OBVIOUS
<1>1. TypeOK
  <2>1. <<>> \in Seq(Requests) /\ Len(<<>>) = 0
    BY EmptySeq
  <2>2. PollEvery \in 0..PollEvery /\ 0 \in 0..MaxInterrupts /\ 0 <= ChanCap
    BY HttpAssumption
  <2> QED BY <2>1, <2>2, Zenon DEF Init, TypeOK
<1>2. NoPressLost
  BY DEF Init, NoPressLost
<1>3. NobodyForgotten
  BY DEF Init, NobodyForgotten
<1> QED BY <1>1, <1>2, <1>3 DEF Inv, Serving, Init

(* The invariant holds in every state. *)
LEMMA Invariance == Spec => []Inv
  BY InitInv, InvStep, PTL DEF Spec

(* Every variable keeps its type and the channel of http_listen its bound. *)
THEOREM TypeCorrect == Spec => []TypeOK
  BY Invariance, PTL DEF Inv

(* As long as http_loop goes on, every worker that waits for its response has *)
(* its request in the channel or under way, or its response stream closed.   *)
THEOREM Remembered == Spec => []NobodyForgotten
  BY Invariance, PTL DEF Inv

(* However the load and the exchange of a poll interleave with Ctrl-C, a      *)
(* press that was not thrown yet leaves the flag up.                         *)
THEOREM PressesKept == Spec => []NoPressLost
  BY Invariance, PTL DEF Inv
===============================================================================
