------------------------------- MODULE MCHost -------------------------------
(***************************************************************************)
(* HostAdmission for three processes of two workspaces.                    *)
(***************************************************************************)
EXTENDS HostAdmission, TLC

CONSTANTS o1, o2, o3, wa, wb, r, s

Tick(ws) == [kind |-> "graph_tick", ws |-> ws, uses |-> {}, exclusive |-> FALSE]
Uses(set, exclusive) == [kind |-> "resource", ws |-> wa, uses |-> set, exclusive |-> exclusive]
Adapter == [kind |-> "adapter_call", ws |-> wa, uses |-> {r}, exclusive |-> FALSE]
\* Ticks of two workspaces; readers and a writer; overlapping sets and an adapter.
MCRequests == {
  o1 :> Tick(wa) @@ o2 :> Tick(wa) @@ o3 :> Tick(wb),
  o1 :> Uses({r}, FALSE) @@ o2 :> Uses({r}, FALSE) @@ o3 :> Uses({r}, TRUE),
  o1 :> Uses({r, s}, FALSE) @@ o2 :> Uses({s}, TRUE) @@ o3 :> Adapter}
=============================================================================
