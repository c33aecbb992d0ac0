----------------------------- MODULE Exceptions -----------------------------
(* Blocks, balls, cleaners and inference limits: catch/3, throw/1,
   setup_call_cleanup/3 and call_with_inference_limit/3 as the Prolog clauses
   of lib/builtins.pl and lib/iso_ext.pl drive the registers block, scc_block,
   ball, ball_stack, cont_pts and cwil of the machine.

   A program is a goal; the machine runs the continuation k, a sequence of
   goals and of the library's own steps, over a stack of choice points.  The
   straight-line stretches of library code between two calls of user goals
   are one step: nothing can interrupt them, since the library's predicates
   are not counted.  Terms and bindings are left out: a ball is an atom, and a
   catcher is an atom or AnyBall.                                           *)
EXTENDS Integers, Sequences, FiniteSets, TLC

CONSTANTS Programs,     \* the goals to run
          AnyBall           \* a catcher that is a variable

VARIABLES
  mode,       \* "run", "fail" (backtrack next) or "done"
  k,          \* the continuation
  orf,        \* or-frames by address: [alts, prev]
  b,          \* the newest choice point, 0 for none
  block,      \* the newest catch or limit, a choice point's address
  scc,        \* scc_block
  ball,       \* the ball thrown, or AnyBall when there is none
  balls,      \* ball_stack
  conts,      \* cont_pts: [id, cleaner, cutoff, prev]
  cleaning,   \* run_cleaners_fn is run_cleaners
  cwil,       \* [local, limits, exceeded]
  ran,        \* how often each cleaner installed so far has been run
  spent       \* counted calls made below each limit installed so far: [limit, used]

vars == <<mode, k, orf, b, block, scc, ball, balls, conts, cleaning, cwil, ran, spent>>
handlers == <<block, scc, ball, balls>>
cleaners == <<conts, cleaning, ran>>
limits == <<cwil, spent>>

(* Goals. *)
Atomic(op) == [op |-> op]
Throw(t) == [op |-> "throw", ball |-> t]
And(g, h) == [op |-> "and", g |-> g, h |-> h]
Or(g, h) == [op |-> "or", g |-> g, h |-> h]
Once(g) == [op |-> "once", g |-> g]
Catch(g, c, r) == [op |-> "catch", g |-> g, catcher |-> c, r |-> r]
Scc(g, c) == [op |-> "scc", g |-> g, cleaner |-> c]
Limit(g, l) == [op |-> "limit", g |-> g, l |-> l]

Init == /\ \E g \in Programs : k = <<g>>
        /\ mode = "run" /\ orf = <<>> /\ b = 0
        /\ block = 0 /\ scc = 0 /\ ball = AnyBall /\ balls = <<>>
        /\ conts = <<>> /\ cleaning = FALSE /\ ran = <<>>
        /\ cwil = [local |-> 0, limits |-> <<>>, exceeded |-> FALSE] /\ spent = <<>>

Rest == Tail(k)
At(op) == mode = "run" /\ k # <<>> /\ Head(k).op = op
PushFrame(alts) == orf' = Append(SubSeq(orf, 1, b), [alts |-> alts, prev |-> b]) /\ b' = b + 1
PrevOf(a) == orf[a].prev
Least(x, y) == IF x < y THEN x ELSE y
EffectiveBlock == IF block > scc THEN block ELSE scc
UnwindTo(bl, sc) == b' = (IF bl > sc THEN bl ELSE sc) /\ mode' = "fail"

---------------------------------------------------------------------------
(* Control. *)
True == /\ At("true") /\ k' = Rest
        /\ UNCHANGED <<mode, orf, b, handlers, cleaners, limits>>
Fail == /\ At("fail") /\ mode' = "fail"
        /\ UNCHANGED <<k, orf, b, handlers, cleaners, limits>>
Conjunction == /\ At("and") /\ k' = <<Head(k).g, Head(k).h>> \o Rest
               /\ UNCHANGED <<mode, orf, b, handlers, cleaners, limits>>
(* try_me_else; the trust_me the alternative starts with is a counted inference. *)
Disjunction == /\ At("or") /\ PushFrame(<<<<Atomic("tick"), Head(k).h>> \o Rest>>) /\ k' = <<Head(k).g>> \o Rest
               /\ UNCHANGED <<mode, handlers, cleaners, limits>>
CallOnce == /\ At("once") /\ k' = <<Head(k).g, [op |-> "cut", to |-> b]>> \o Rest
            /\ UNCHANGED <<mode, orf, b, handlers, cleaners, limits>>
Done == /\ mode = "run" /\ k = <<>> /\ mode' = "done"
        /\ UNCHANGED <<k, orf, b, handlers, cleaners, limits>>

(* backtrack: the next alternative of the newest choice point; the last one
   pops it.  Blocks, balls and limits are not restored.                     *)
Backtrack == /\ mode = "fail" /\ b > 0 /\ mode' = "run"
             /\ LET f == orf[b]
                IN /\ k' = Head(f.alts)
                   /\ IF Len(f.alts) = 1 THEN b' = f.prev /\ UNCHANGED orf
                      ELSE orf' = [orf EXCEPT ![b].alts = Tail(@)] /\ UNCHANGED b
             /\ UNCHANGED <<handlers, cleaners, limits>>
Exhausted == /\ mode = "fail" /\ b = 0 /\ mode' = "done"
             /\ UNCHANGED <<k, orf, b, handlers, cleaners, limits>>

(* Cut and CutPrev: lower b, then run the cleaners whose frames are gone.
   The cleaners' own cut point is passed as a Fixnum in the second case.    *)
CleanersDue(cut) == cleaning /\ conts # <<>> /\ cut < conts[Len(conts)].cutoff
RunCleaners == IF EffectiveBlock > conts[Len(conts)].prev THEN [op |-> "clean_h"]
               ELSE [op |-> "clean", cp |-> -1]
Cut == /\ At("cut") /\ b' = Least(b, Head(k).to)
       /\ k' = (IF CleanersDue(b') THEN <<RunCleaners>> ELSE <<>>) \o Rest
       /\ UNCHANGED <<mode, orf, handlers, cleaners, limits>>
SetCpByDefault == /\ At("set_cp") /\ b' = Least(b, Head(k).to) /\ k' = Rest
                  /\ UNCHANGED <<mode, orf, handlers, cleaners, limits>>

---------------------------------------------------------------------------
(* catch/3 and throw/1. *)
CallCatch == /\ At("catch")
             /\ PushFrame(<<<<[op |-> "recover", bb |-> block, catcher |-> Head(k).catcher, r |-> Head(k).r]>> \o Rest>>)
             /\ block' = b'
             /\ k' = <<Head(k).g, [op |-> "end_block", bb |-> block, nbb |-> b']>> \o Rest
             /\ UNCHANGED <<mode, scc, ball, balls, cleaners, limits>>

(* clean_up_block: a goal that left no choice point takes its own with it. *)
CleanUpBlock(nb) == IF nb = b THEN PrevOf(nb) ELSE b + 1
EndBlock == /\ At("end_block")
            /\ LET nbb == Head(k).nbb
                   f == [alts |-> <<<<[op |-> "reenter", nbb |-> nbb]>> \o Rest>>, prev |-> b]
               IN orf' = Append(SubSeq(orf, 1, b), f) /\ b' = CleanUpBlock(nbb)
            /\ block' = Head(k).bb /\ k' = Rest
            /\ UNCHANGED <<mode, scc, ball, balls, cleaners, limits>>
ReenterWithoutReset == At("reenter") /\ mode' = "fail"
                       /\ UNCHANGED <<k, orf, b, handlers, cleaners, limits>>
Reenter == /\ At("reenter") /\ block' = Head(k).nbb /\ mode' = "fail"
           /\ UNCHANGED <<k, orf, b, scc, ball, balls, cleaners, limits>>

SetBall == /\ At("throw") /\ ball' = Head(k).ball /\ UnwindTo(block, scc)
           /\ UNCHANGED <<k, orf, block, scc, balls, cleaners, limits>>

(* The second clause of catch/4, and handle_ball/3. *)
Caught(c) == c \in {AnyBall, ball}
Recover == /\ At("recover") /\ block' = Head(k).bb
           /\ IF ball = AnyBall THEN mode' = "fail" /\ UNCHANGED <<k, b, ball, balls>>
              ELSE IF Caught(Head(k).catcher)
              THEN ball' = AnyBall /\ k' = <<Head(k).r>> \o Rest /\ UNCHANGED <<mode, b, balls>>
              ELSE UnwindTo(block', scc) /\ UNCHANGED <<k, ball, balls>>
           /\ UNCHANGED <<orf, scc, cleaners, limits>>

---------------------------------------------------------------------------
(* setup_call_cleanup/3.  Its setup goal is taken to have succeeded. *)
CallScc == /\ At("scc")
           /\ PushFrame(<<<<[op |-> "scc_ball", bb |-> scc]>> \o Rest,
                          <<[op |-> "clean", cp |-> b], Atomic("fail")>> \o Rest>>)
           /\ scc' = b' /\ cleaning' = TRUE
           /\ conts' = Append(conts, [id |-> Len(ran) + 1, cleaner |-> Head(k).cleaner, cutoff |-> b', prev |-> scc])
           /\ ran' = Append(ran, 0)
           /\ k' = <<Head(k).g, [op |-> "scc_exit", cp |-> b, bb |-> scc]>> \o Rest
           /\ UNCHANGED <<mode, block, ball, balls, limits>>

(* $check_cp: was the goal deterministic?  If not, the disjunction's choice
   point stays, to fail back into the goal.                                 *)
Deterministic(cp) == PrevOf(b) <= cp
SccExit == /\ At("scc_exit")
           /\ IF Deterministic(Head(k).cp)
              THEN /\ scc' = Head(k).bb /\ k' = <<[op |-> "clean", cp |-> Head(k).cp]>> \o Rest
                   /\ UNCHANGED <<orf, b>>
              ELSE PushFrame(<<<<Atomic("fail")>> \o Rest>>) /\ k' = Rest /\ UNCHANGED scc
           /\ UNCHANGED <<mode, block, ball, balls, cleaners, limits>>
SccBall == /\ At("scc_ball") /\ scc' = Head(k).bb
           /\ IF ball = AnyBall THEN mode' = "fail" /\ UNCHANGED <<k, ball, balls>>
              ELSE /\ balls' = Append(balls, ball) /\ ball' = AnyBall
                   /\ k' = <<[op |-> "clean_h"], [op |-> "rethrow"]>> \o Rest /\ UNCHANGED mode
           /\ UNCHANGED <<orf, b, block, cleaners, limits>>
Rethrow == /\ At("rethrow") /\ balls # <<>>
           /\ ball' = balls[Len(balls)] /\ balls' = SubSeq(balls, 1, Len(balls) - 1)
           /\ UnwindTo(block, scc)
           /\ UNCHANGED <<k, orf, block, scc, cleaners, limits>>

(* run_cleaners_with_handling/0 and run_cleaners_without_handling/1: while
   $get_scc_cleaner finds a cleaner, call it, discard its choice points and go
   round; the second clause ends the loop.                                  *)
HasCleanerBelow == conts # <<>> /\ b < conts[Len(conts)].cutoff
HasCleaner == conts # <<>> /\ b <= conts[Len(conts)].cutoff
PeekSccCleaner == scc' = conts[Len(conts)].prev /\ UNCHANGED <<conts, ran>>
GetSccCleaner == /\ conts' = SubSeq(conts, 1, Len(conts) - 1)
                 /\ scc' = conts[Len(conts)].prev
                 /\ ran' = [ran EXCEPT ![conts[Len(conts)].id] = @ + 1]
CleanersLoop(op, last, Call(_)) ==
  /\ At(op) /\ PushFrame(<<<<last>> \o Rest>>)
  /\ IF HasCleaner
     THEN /\ GetSccCleaner
          /\ k' = <<Call(conts[Len(conts)].cleaner), [op |-> "set_cp", to |-> b], Head(k)>> \o Rest
          /\ UNCHANGED mode
     ELSE mode' = "fail" /\ UNCHANGED <<k, scc, conts, ran>>
  /\ UNCHANGED <<block, ball, balls, cleaning, limits>>
RunCleanersWithHandling ==
  LET Call(c) == Catch(c, AnyBall, Atomic("true"))
  IN CleanersLoop("clean_h", [op |-> "restore", cp |-> b], Call)
RunCleanersWithoutHandling ==
  LET Call(c) == c
  IN CleanersLoop("clean", [op |-> "restore", cp |-> Head(k).cp], Call)
RestoreCutPolicy == /\ At("restore")
                    /\ IF Head(k).cp < 0 THEN mode' = "fail" /\ UNCHANGED <<k, b, cleaning>>
                       ELSE /\ b' = Least(b, Head(k).cp) /\ k' = Rest /\ UNCHANGED mode
                            /\ cleaning' = (cleaning /\ conts # <<>>)
                    /\ UNCHANGED <<orf, handlers, conts, ran, limits>>

---------------------------------------------------------------------------
(* call_with_inference_limit/3 and the counting of calls. *)
AddLimit(c, l, bl) == LET m == l + c.local
                          n == Len(c.limits)
                      IN IF n > 0 /\ c.limits[n].limit <= m THEN c
                         ELSE [c EXCEPT !.limits = Append(@, [limit |-> m, block |-> bl])]
RemoveLimit(c, bl) == LET n == Len(c.limits)
                      IN IF n > 0 /\ c.limits[n].block = bl THEN [c EXCEPT !.limits = SubSeq(@, 1, n - 1)] ELSE c
RemoveCallPolicyCheck(c, same) == IF same /\ c.limits = <<>>
                                  THEN [local |-> 0, limits |-> <<>>, exceeded |-> FALSE] ELSE c

CallLimit == /\ At("limit")
             /\ PushFrame(<<<<[op |-> "limit_retry", bb |-> block, b |-> b]>> \o Rest>>)
             /\ block' = b' /\ cwil' = AddLimit(cwil, Head(k).l, b')
             /\ spent' = Append(spent, [limit |-> Head(k).l, used |-> 0])
             /\ k' = <<Head(k).g, [op |-> "limit_exit", l |-> Head(k).l, bb |-> block, nbb |-> b', b |-> b,
                                   count |-> cwil.local, id |-> Len(spent) + 1]>> \o Rest
             /\ UNCHANGED <<mode, scc, ball, balls, cleaners>>
LimitExit == /\ At("limit_exit")
             /\ LET h == Head(k)
                    diff == h.l - (cwil.local - h.count)
                    f == [alts |-> <<<<[op |-> "limit_reenter", nbb |-> h.nbb, l |-> diff]>>>>, prev |-> b]
                IN /\ orf' = Append(SubSeq(orf, 1, b), f) /\ b' = CleanUpBlock(h.nbb)
                   /\ block' = h.bb /\ k' = Rest
                   /\ cwil' = RemoveCallPolicyCheck(RemoveLimit(cwil, h.nbb), b' = h.b)
             /\ UNCHANGED <<mode, scc, ball, balls, cleaners, spent>>
LimitReenter == /\ At("limit_reenter") /\ block' = Head(k).nbb /\ mode' = "fail"
                /\ cwil' = AddLimit(cwil, Head(k).l, Head(k).nbb)
                /\ UNCHANGED <<k, orf, b, scc, ball, balls, cleaners, spent>>
LimitRetry == /\ At("limit_retry") /\ block' = Head(k).bb
              /\ cwil' = RemoveCallPolicyCheck(RemoveLimit(cwil, block), b = Head(k).b)
              /\ IF ball # AnyBall THEN UnwindTo(block', scc) /\ UNCHANGED k
                 ELSE UNCHANGED b /\ (IF cwil.exceeded THEN k' = Rest /\ UNCHANGED mode
                                      ELSE mode' = "fail" /\ UNCHANGED k)
              /\ UNCHANGED <<orf, scc, ball, balls, cleaners, spent>>

Active(id) == \E i \in DOMAIN k : k[i].op = "limit_exit" /\ k[i].id = id
ReachedLate(c) == c.local > c.limits[Len(c.limits)].limit
Reached(c) == c.local = c.limits[Len(c.limits)].limit
IncrementCallCount ==
  /\ At("tick")
  /\ LET n == Len(cwil.limits)
         free == cwil.exceeded \/ ball # AnyBall \/ n = 0
     IN IF ~free /\ Reached(cwil)
        THEN /\ cwil' = [cwil EXCEPT !.exceeded = TRUE] /\ block' = cwil.limits[n].block
             /\ UnwindTo(block', scc) /\ UNCHANGED <<k, spent>>
        ELSE /\ cwil' = (IF free THEN cwil ELSE [cwil EXCEPT !.local = @ + 1])
             /\ spent' = [i \in DOMAIN spent |-> IF Active(i) THEN [spent[i] EXCEPT !.used = @ + 1] ELSE spent[i]]
             /\ k' = Rest /\ UNCHANGED <<mode, b, block>>
  /\ UNCHANGED <<orf, scc, ball, balls, cleaners>>

Control == True \/ Fail \/ Conjunction \/ Disjunction \/ CallOnce \/ Done \/ Backtrack \/ Exhausted \/ Cut \/ SetCpByDefault
Handlers == CallCatch \/ EndBlock \/ Reenter \/ SetBall \/ Recover
Cleaners == CallScc \/ SccExit \/ SccBall \/ Rethrow \/ RunCleanersWithHandling \/ RunCleanersWithoutHandling \/ RestoreCutPolicy
Limits == CallLimit \/ LimitExit \/ LimitReenter \/ LimitRetry \/ IncrementCallCount
Next == Control \/ Handlers \/ Cleaners \/ Limits
Spec == Init /\ [][Next]_vars /\ WF_vars(Next)
---------------------------------------------------------------------------
(* Properties. *)

(* The handler in power is the one of the innermost catch/3 or inference
   limit whose goal is still running: whatever mixture of exits, failures,
   exceptions and cuts led here, $reset_block has brought block to it, and its
   choice point is still on the stack to receive a ball.  While a ball passes
   through setup_call_cleanup/3 (up to its rethrow) block is the thrower's.  *)
Transits == {"recover", "reenter", "limit_reenter", "limit_retry", "scc_ball", "rethrow"}
Handled == {i \in DOMAIN k : k[i].op \in {"end_block", "limit_exit"} \cup Transits}
BlockMatchesContinuation ==
  mode = "run" =>
     IF Handled = {} THEN block = 0
     ELSE LET i == CHOOSE j \in Handled : \A m \in Handled : j <= m
          IN k[i].op \in Transits \/ (block = k[i].nbb /\ block <= b)

(* A cleanup goal is called at most once, however its goal is left, and once
   every goal is over it has been called: setup_call_cleanup/3 loses no
   cleaner to an exception, to a cut or to another cleaner that fails.       *)
CleanupOnce == /\ \A i \in DOMAIN ran : ran[i] <= 1
               /\ mode = "done" /\ b = 0 => \A i \in DOMAIN ran : ran[i] = 1

(* A goal under call_with_inference_limit/3 never makes more counted calls
   than its limit: increment_call_count stops it.                            *)
LimitRespected == \A i \in DOMAIN spent : spent[i].used <= spent[i].limit

(* Every program comes to an end: no combination of balls, cleaners and
   limits sends the machine back into a handler it has left.                 *)
Terminates == <>(mode = "done")
=============================================================================
