----------------------------- MODULE SmallGraphs -----------------------------
(***************************************************************************)
(* Small graphs for checking GraphKernel.  Each exercises one mechanism of *)
(* the runtime: Lanes and the Terminal barrier, serializable State, a fork *)
(* with a Join, a Wait on an event, an authored pause.  The parameter is   *)
(* the number of activations the run has room for.                         *)
(***************************************************************************)
EXTENDS Naturals, TLC

CONSTANTS e1, none

Node(type) == [type |-> type, lane |-> none, status |-> none, expects |-> {},
               mode |-> "all", event |-> none, timed |-> FALSE]
Agent(lane)      == [Node("agent") EXCEPT !.lane = lane]
Terminal(st)     == [Node("terminal") EXCEPT !.status = st]
Wait(event)      == [Node("wait") EXCEPT !.event = event, !.timed = TRUE]
Join(mode, expects, timed) ==
  [Node("join") EXCEPT !.mode = mode, !.expects = expects, !.timed = timed]

Route(id, from, on, to, updates) ==
  [id |-> id, from |-> from, on |-> on, to |-> to, updates |-> updates]

Limits(pool) == [running |-> 2, perNode |-> 9, total |-> pool, live |-> 9,
           timers |-> 9, cost |-> 9, fanOut |-> 9]

\* A Function and an Agent that update a serializable State; the Function leads to
\* the Agent once more, so two of its activations share its Lane.
SerialGraph(pool) ==
  [nodes |-> "f" :> Node("function") @@ "g" :> Agent("lane") @@ "t" :> Terminal("done"),
   routes |-> {Route("fg", "f", "success", {"g"}, TRUE), Route("gt", "g", "success", {"t"}, TRUE),
               Route("fx", "f", "exhausted", {"t"}, FALSE), Route("gx", "g", "exhausted", {"t"}, TRUE)},
   entry |-> <<"f", "g">>, limits |-> [Limits(pool) EXCEPT !.cost = 2], serializable |-> TRUE, faulty |-> {}]

\* A fan-out into two Functions that meet again in a Join.
ForkGraph(pool) ==
  [nodes |-> "s" :> Node("function") @@ "f" :> Node("function") @@ "g" :> Node("function")
             @@ "j" :> Join("all", {"fj", "gj"}, FALSE) @@ "t" :> Terminal("done"),
   routes |-> {Route("fork", "s", "success", {"f", "g"}, FALSE),
               Route("fj", "f", "always", {"j"}, TRUE), Route("gj", "g", "always", {"j"}, TRUE),
               Route("jt", "j", "success", {"t"}, FALSE)},
   entry |-> <<"s">>, limits |-> [Limits(pool) EXCEPT !.perNode = 1], serializable |-> FALSE, faulty |-> {}]
TimedForkGraph(pool) ==
  [ForkGraph(pool) EXCEPT !.nodes["j"].timed = TRUE, !.limits = Limits(pool),
                    !.routes = @ \cup {Route("jx", "j", "timeout", {"t"}, FALSE)}]

\* A timed Join whose third member is an Agent that may park for long.
LateGraph(pool) ==
  [nodes |-> "f" :> Node("function") @@ "g" :> Node("function") @@ "h" :> Agent("lane")
             @@ "j" :> Join("all", {"fj", "gj", "hj"}, TRUE) @@ "t" :> Terminal("done"),
   routes |-> {Route("fj", "f", "always", {"j"}, FALSE), Route("gj", "g", "always", {"j"}, FALSE),
               Route("hj", "h", "always", {"j"}, FALSE),
               Route("jt", "j", "success", {"t"}, FALSE), Route("jx", "j", "timeout", {"t"}, FALSE)},
   entry |-> <<"f", "g", "h">>, limits |-> Limits(pool), serializable |-> FALSE, faulty |-> {}]

\* Two Agents on Lanes of their own under tight limits.
BudgetGraph(pool) ==
  [nodes |-> "a" :> Agent("l1") @@ "b" :> Agent("l2") @@ "t" :> Terminal("done"),
   routes |-> {Route("at", "a", "success", {"t"}, FALSE), Route("ax", "a", "exhausted", {"b"}, FALSE),
               Route("bt", "b", "success", {"a", "t"}, FALSE)},
   entry |-> <<"a", "b">>, limits |-> [Limits(pool) EXCEPT !.cost = 1, !.timers = 1, !.live = 2],
   serializable |-> FALSE, faulty |-> {}]

\* A Wait on an event leads to an authored pause, its timeout to a Function; a
\* resume edge fans out, fails, or goes on.
PauseGraph(pool) ==
  [nodes |-> "w" :> Wait(e1) @@ "f" :> Node("function") @@ "p" :> Terminal("paused")
             @@ "q" :> Terminal("failed"),
   routes |-> {Route("wp", "w", "event", {"p"}, FALSE), Route("wf", "w", "timeout", {"f"}, FALSE),
               Route("fp", "f", "success", {"p"}, FALSE), Route("ff", "f", "failure", {"q"}, TRUE),
               Route("pf", "p", "resume", {"f"}, TRUE), Route("pw", "p", "resume", {"w", "f"}, FALSE)},
   entry |-> <<"w">>, limits |-> [Limits(pool) EXCEPT !.live = 1], serializable |-> FALSE,
   faulty |-> {"pf", "fp"}]
=============================================================================
