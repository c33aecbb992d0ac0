----------------------------- MODULE HttpServer -----------------------------
(***************************************************************************)
(* The HTTP server: the request closure that http_listen hands to warp, run *)
(* by the Tokio worker threads, and the one machine that serves it with     *)
(* http_loop of library(http/http_server), '$http_accept' and               *)
(* '$http_answer'.  A worker sends its request down a bounded channel and   *)
(* then blocks on a condition variable until the machine has closed the     *)
(* response stream.  The channel is disconnected when the task that serves   *)
(* it dies, as it does when it cannot bind the address.                      *)
(*                                                                          *)
(* Ctrl-C arrives on a thread of its own and only sets the atomic INTERRUPT.*)
(* The machine looks at it after every block of PollEvery instructions and  *)
(* whenever '$http_accept' times out: a load followed by a                  *)
(* compare_exchange, with room for the Ctrl-C thread in between.  An         *)
(* interrupt is a ball: a catch/3 of the running handler may take it, the     *)
(* cleaner that closes the response stream runs when it passes, and           *)
(* otherwise it leaves http_loop for the goal that called http_listen.        *)
(***************************************************************************)
EXTENDS Naturals, Sequences, FiniteSets

CONSTANTS
  Requests,      \* the requests clients make
  TooLong,       \* those whose Content-Length exceeds the limit
  Workers,       \* how many Tokio worker threads there are
  ChanCap,       \* bound of the sync_channel (1024 in the code)
  PollEvery,     \* instructions between two polls (256 in the code)
  MaxInterrupts, \* bound: how often Ctrl-C is pressed
  None

ASSUME HttpAssumption ==
  /\ TooLong \subseteq Requests
  /\ Workers \in Nat \ {0}
  /\ ChanCap \in Nat \ {0}
  /\ PollEvery \in Nat \ {0}
  /\ MaxInterrupts \in Nat
  /\ None \notin Requests

VARIABLES
  server,     \* the task spawned by http_listen
  rpc,        \* per request: how far its closure got
  chan,       \* the channel from the closures to '$http_accept'
  ready,      \* per request: the Mutex<bool> of its HttpResponse
  response,   \* per request: is the Mutex<Option<Response>> filled
  p,          \* where the machine is in http_loop
  req,        \* the request http_loop is serving
  fail,       \* the machine's fail flag
  fuel,       \* instructions left before the next poll
  polling,    \* which poll is between its load and its compare_exchange
  loaded,     \* what that load returned
  INTERRUPT,  \* the atomic flag
  presses,    \* history: how often Ctrl-C was pressed
  heard,      \* history: the presses up to the last interrupt thrown
  closed      \* history: the requests whose response stream was closed

closureVars == <<server, rpc, ready, response>>
loopVars == <<chan, p, req, fail, fuel, closed>>
pollVars == <<polling, loaded, INTERRUPT, presses, heard>>
vars == <<closureVars, loopVars, pollVars>>

Init ==
  /\ server = "binding"
  /\ rpc = [r \in Requests |-> "new"]
  /\ chan = <<>>
  /\ ready = [r \in Requests |-> FALSE]
  /\ response = [r \in Requests |-> FALSE]
  /\ p = "accept" /\ req = None /\ fail = FALSE /\ fuel = PollEvery
  /\ polling = "off" /\ loaded = FALSE /\ INTERRUPT = FALSE
  /\ presses = 0 /\ heard = 0
  /\ closed = {}

-----------------------------------------------------------------------------
(* The task of http_listen, on the Tokio workers. *)

(* warp binds the address and serves it for ever. *)
Bind ==
  /\ server = "binding"
  /\ server' = "up"
  /\ UNCHANGED <<rpc, ready, response, loopVars, pollVars>>

(* warp cannot bind the address: the task panics and drops the sender. *)
BindFails ==
  /\ server = "binding"
  /\ server' = "down"
  /\ UNCHANGED <<rpc, ready, response, loopVars, pollVars>>

Busy == {r \in Requests : rpc[r] \in {"send", "wait"}}

(* A free worker takes request r; one that is too long is answered at once. *)
Receive(r) ==
  /\ server = "up"
  /\ rpc[r] = "new"
  /\ Cardinality(Busy) < Workers
  /\ rpc' = [rpc EXCEPT ![r] = IF r \in TooLong THEN "rejected" ELSE "send"]
  /\ UNCHANGED <<server, ready, response, loopVars, pollVars>>

(* The sync_channel has room for one more request. *)
HasRoom == Len(chan) < ChanCap

(* tx.send(http_request): blocks while the channel is full. *)
Send(r) ==
  /\ rpc[r] = "send"
  /\ HasRoom
  /\ chan' = Append(chan, r)
  /\ rpc' = [rpc EXCEPT ![r] = "wait"]
  /\ UNCHANGED <<server, ready, response, p, req, fail, fuel, closed, pollVars>>

(* The worker wakes, notified or not, and looks at `ready` again. *)
WakeUp(r) ==
  /\ rpc[r] = "wait"
  /\ IF ready[r] THEN /\ rpc' = [rpc EXCEPT ![r] = "replied"]
                      /\ response' = [response EXCEPT ![r] = FALSE]
                 ELSE UNCHANGED <<rpc, response>>
  /\ UNCHANGED <<server, ready, loopVars, pollVars>>

-----------------------------------------------------------------------------
(* The handler run_binary installs: it runs at any time, on its own thread. *)
CtrlC ==
  /\ presses < MaxInterrupts
  /\ presses' = presses + 1
  /\ INTERRUPT' = TRUE
  /\ UNCHANGED <<closureVars, loopVars, polling, loaded, heard>>

-----------------------------------------------------------------------------
(* The machine.  Every instruction costs one unit of fuel. *)

Step(from, to) ==
  /\ p = from /\ p' = to
  /\ polling = "off" /\ fuel > 0
  /\ fuel' = fuel - 1
  /\ UNCHANGED <<fail, pollVars>>

(* recv_timeout returns the oldest request in the channel. *)
Take ==
  /\ chan # <<>>
  /\ req' = Head(chan)
  /\ chan' = Tail(chan)

(* '$http_accept' when a request arrives before the time-out. *)
HttpAccept == Step("accept", "handle") /\ Take /\ UNCHANGED <<closureVars, closed>>

(* The request does not fit the heap, or its stream cannot be added: it is    *)
(* dropped and '$http_accept' throws.                                        *)
HttpAcceptThrows == Step("accept", "top") /\ Take /\ UNCHANGED <<closureVars, closed>>

(* Mutant: a time-out only goes round the loop again. *)
AcceptTimeoutNoPoll ==
  /\ p = "accept" /\ polling = "off" /\ fuel > 0
  /\ chan = <<>> /\ server # "down"
  /\ UNCHANGED vars

(* recv_timeout times out: '$http_accept' looks at the flag itself. *)
AcceptTimeout ==
  /\ p = "accept" /\ polling = "off" /\ fuel > 0
  /\ chan = <<>> /\ server # "down"
  /\ polling' = "accept"
  /\ loaded' = INTERRUPT
  /\ UNCHANGED <<closureVars, loopVars, INTERRUPT, presses, heard>>

(* The sender is gone: '$http_accept' fails, and calls recv_timeout again     *)
(* without looking at the flag.                                              *)
AcceptDisconnected ==
  /\ p = "accept" /\ polling = "off" /\ fuel > 0
  /\ chan = <<>> /\ server = "down"
  /\ fail' = TRUE
  /\ UNCHANGED <<closureVars, chan, p, req, fuel, closed, pollVars>>

(* The '$reset_block' that an interrupted '$http_accept' went on with (see     *)
(* Landings) finds no block in its register and fails: to the same choice     *)
(* point, whose alternative is now run from its start.                        *)
ResetBlockFails == Step("skipped", "top") /\ UNCHANGED <<closureVars, chan, req, closed>>

(* http_loop matches a handler and runs it, for as long as it likes. *)
HandlerRuns == Step("handle", "handle") /\ UNCHANGED <<closureVars, chan, req, closed>>

(* The handler succeeds, fails (500) or does not exist (404): each way the   *)
(* request is answered.                                                      *)
HandlerDone == Step("handle", "answer") /\ UNCHANGED <<closureVars, chan, req, closed>>

(* Mutant: http_loop goes on with the next request when a handler throws. *)
HandlerThrowsGoesOn == Step("handle", "accept") /\ UNCHANGED <<closureVars, chan, req, closed>>

(* http_loop does not catch the handler's exceptions, and it fails when       *)
(* send_response knows no such response.                                     *)
HandlerThrows == Step("handle", "top") /\ UNCHANGED <<closureVars, chan, req, closed>>

(* '$http_answer' opens the response stream. *)
HttpAnswer == Step("answer", "close") /\ UNCHANGED <<closureVars, chan, req, closed>>

(* Dropping the payload of an HttpWriteStream.  The type has an inherent     *)
(* method called `drop`, which would fill in the response and notify the     *)
(* worker, but it does not implement Drop: nothing calls it.                 *)
DropPayload(r) == UNCHANGED <<ready, response>>

(* close(ResponseStream); then http_loop calls itself, unless writing the    *)
(* response raised the error that call_cleanup closed the stream for.        *)
CloseResponse ==
  /\ Step("close", "accept") \/ Step("close", "top")
  /\ DropPayload(req)
  /\ closed' = closed \cup {req}
  /\ UNCHANGED <<server, rpc, chan, req>>

(* The instruction block is used up: check_for_interrupt loads the flag. *)
Poll ==
  /\ p \notin {"top", "panicked"} /\ polling = "off" /\ fuel = 0
  /\ polling' = "loop"
  /\ loaded' = INTERRUPT
  /\ fuel' = PollEvery
  /\ UNCHANGED <<closureVars, chan, p, req, fail, closed, INTERRUPT, presses, heard>>

(* Where the machine goes on after throwing the interrupt.  '$http_accept'    *)
(* backtracks and breaks off its loop, but its instruction then advances p:   *)
(* the alternative is entered past its first instruction.  In the dispatch    *)
(* loop nothing is skipped, and a catch/3 of the handler may take the ball.   *)
Landings ==
  IF polling = "accept" THEN {"skipped"}
  ELSE {"top"} \cup {q \in {"handle"} : p = q}

(* The interrupt is thrown; if call_cleanup already guards the response       *)
(* stream, the passing ball closes it.                                       *)
Interrupt ==
  /\ p' \in Landings
  /\ heard' = presses
  /\ closed' \in {closed} \cup {closed \cup {r} : r \in {q \in {req} : p = "close"}}
  /\ DropPayload(req)

(* Mutant: the flag is stored to, whatever it has become since the load. *)
CompareExchangeStores ==
  /\ INTERRUPT' = FALSE
  /\ IF loaded THEN Interrupt ELSE UNCHANGED <<p, heard, closed, ready, response>>

(* INTERRUPT.compare_exchange(loaded, false); a flag that changed since the   *)
(* load is `Err(_) => unreachable!()`.                                        *)
CompareExchange ==
  IF INTERRUPT = loaded
    THEN /\ INTERRUPT' = FALSE
         /\ IF loaded THEN Interrupt ELSE UNCHANGED <<p, heard, closed, ready, response>>
    ELSE /\ p' = "panicked"
         /\ UNCHANGED <<INTERRUPT, heard, closed, ready, response>>

FinishPoll ==
  /\ polling # "off"
  /\ polling' = "off"
  /\ loaded' = FALSE
  /\ CompareExchange
  /\ UNCHANGED <<server, rpc, chan, req, fail, fuel, presses>>

Machine ==
  \/ HttpAccept \/ HttpAcceptThrows \/ AcceptTimeout \/ AcceptDisconnected \/ ResetBlockFails
  \/ HandlerRuns \/ HandlerDone \/ HandlerThrows
  \/ HttpAnswer \/ CloseResponse \/ Poll \/ FinishPoll

Next ==
  \/ Bind \/ BindFails
  \/ \E r \in Requests : Receive(r) \/ Send(r) \/ WakeUp(r)
  \/ CtrlC
  \/ Machine

Spec == Init /\ [][Next]_vars

(* The machine thread keeps executing instructions, and a worker that can    *)
(* run does.  Nothing forces a handler to finish, a client to send, warp to   *)
(* bind or the user to press Ctrl-C.                                          *)
FairSpec ==
  /\ Spec
  /\ WF_vars(Machine)
  /\ \A r \in Requests : WF_vars(Send(r) \/ WakeUp(r))

-----------------------------------------------------------------------------
(* Every variable has its type and the channel never exceeds its bound. *)
TypeOK ==
  /\ server \in {"binding", "up", "down"}
  /\ rpc \in [Requests -> {"new", "rejected", "send", "wait", "replied"}]
  /\ chan \in Seq(Requests) /\ Len(chan) <= ChanCap
  /\ ready \in [Requests -> BOOLEAN] /\ response \in [Requests -> BOOLEAN]
  /\ p \in {"accept", "skipped", "handle", "answer", "close", "top", "panicked"}
  /\ req \in Requests \cup {None} /\ fail \in BOOLEAN
  /\ fuel \in 0..PollEvery
  /\ polling \in {"off", "loop", "accept"} /\ loaded \in BOOLEAN /\ INTERRUPT \in BOOLEAN
  /\ presses \in 0..MaxInterrupts /\ heard \in 0..MaxInterrupts
  /\ closed \subseteq Requests

Queued == {chan[i] : i \in 1..Len(chan)}
Served == {r \in {req} : p \in {"handle", "answer", "close"}}

(* Nobody waits for nothing: while http_loop goes on, a worker blocked on its *)
(* condition variable has its request in the channel or under way in          *)
(* http_loop, or its response stream was closed.  Whatever a handler does     *)
(* and whenever an interrupt comes, no request is forgotten by a loop that    *)
(* goes on with the next one.                                                *)
NobodyForgotten ==
  p \notin {"top", "panicked"} =>
    \A r \in Requests : rpc[r] = "wait" => r \in Queued \cup Served \cup closed

(* No press of Ctrl-C is lost between a load of INTERRUPT and its exchange in *)
(* check_for_interrupt or http_accept: as long as a press has not been        *)
(* thrown as an interrupt, the flag is up.                                   *)
NoPressLost == heard < presses => INTERRUPT

(* Ctrl-C gets through: however busy or idle the server is, every press is    *)
(* thrown as an interrupt, also when a handler caught an earlier one and      *)
(* never returns.  The exceptions are a machine that has left http_loop or    *)
(* panicked in the exchange, and http_accept on a disconnected channel, which *)
(* never looks at the flag.                                                  *)
InterruptHeard ==
  \A n \in 1..MaxInterrupts :
    presses >= n ~> heard >= n \/ p \in {"top", "panicked"} \/ server = "down"

(* The assertion `Err(_) => unreachable!()` of check_for_interrupt and of    *)
(* http_accept: the flag cannot change between the load and the exchange.    *)
(* The code does not have it: a second Ctrl-C in between is enough.          *)
NeverPanics == p # "panicked"

(* "we wait for the Response info from Prolog" (http_listen): the worker of  *)
(* a request whose response stream was closed gets that response.            *)
ResponseArrives == \A r \in Requests : r \in closed ~> rpc[r] = "replied"
==============================================================================
