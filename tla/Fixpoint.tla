------------------------------ MODULE Fixpoint ------------------------------
(***************************************************************************)
(* engine::solve of crates/absint: the worklist solver of a forward        *)
(* dataflow problem, for any abstract domain.  The problem fn is a record  *)
(* with the graph g, its reverse postorder rpo and its loop headers; the   *)
(* domain and the two transfer callbacks are parameters.                   *)
(***************************************************************************)
EXTENDS Naturals, FlowGraph

CONSTANTS
    Bottom,                   \* the least element
    FORCE_WIDEN_AFTER,        \* changes of a node after which it is widened
    Join(_, _), Widen(_, _),  \* the domain
    EntryState(_),            \* the seed of the entry of fn
    TransferBlock(_, _, _),   \* fn, node, state on entry |-> state on exit
    TransferEdge(_, _, _, _)  \* fn, from, to, exit state of from |-> contribution

VARIABLES
    fn,             \* the function to be solved
    in_states,
    out_states,
    worklist,       \* a queue without duplicates: in_worklist is membership
    updates         \* how often each node's entry state has changed

vars == <<fn, in_states, out_states, worklist, updates>>

(* What the control-flow graph hands to solve: an order of some of its nodes that
   has the entry and all the successors of its nodes. *)
WellFormed(f) ==
    /\ f.g.node_count \in Nat
    /\ f.g.succ \in [Nodes(f.g) -> Seq(Nodes(f.g))]
    /\ f.rpo \in Seq(Nodes(f.g))
    /\ f.g.entry \in Range(f.rpo)
    /\ \A u \in Range(f.rpo) : Range(f.g.succ[u]) \subseteq Range(f.rpo)

Init(problems) ==
    /\ fn \in problems
    /\ in_states = [n \in Nodes(fn.g) |-> Bottom]
    /\ out_states = [n \in Nodes(fn.g) |-> Bottom]
    /\ worklist = fn.rpo
    /\ updates = [n \in Nodes(fn.g) |-> 0]

(* The seed at the entry joined with what every predecessor contributes. *)
Joined(f, u, outs) ==
    FoldLeft(LAMBDA acc, p : Join(acc, TransferEdge(f, p, u, outs[p])),
             IF u = f.g.entry THEN EntryState(f) ELSE Bottom,
             Preds(f.g, u))

(* Wrong variant: a node of an undetected cycle is never widened. *)
MutWidensHeadersOnly(u) == u \in fn.headers

(* A loop header, or a node that changed too often. *)
Widens(u) == u \in fn.headers \/ updates[u] >= FORCE_WIDEN_AFTER

(* Successors enter the queue at its end unless they wait in it already. *)
Requeue(queue, succs) ==
    FoldLeft(LAMBDA q, s : IF s \in Range(q) THEN q ELSE Append(q, s), queue, succs)

(* One turn of the loop. *)
Step ==
    /\ worklist # <<>>
    /\ LET u       == Head(worklist)
           joined  == Joined(fn, u, out_states)
           new_in  == IF Widens(u) THEN Widen(in_states[u], joined) ELSE joined
           new_out == TransferBlock(fn, u, new_in)
       IN  IF new_in = in_states[u]
           THEN /\ worklist' = Tail(worklist)
                /\ UNCHANGED <<in_states, out_states, updates>>
           ELSE /\ updates' = [updates EXCEPT ![u] = @ + 1]
                /\ in_states' = [in_states EXCEPT ![u] = new_in]
                /\ out_states' = [out_states EXCEPT ![u] = new_out]
                /\ worklist' = IF new_out = out_states[u] THEN Tail(worklist)
                               ELSE Requeue(Tail(worklist), fn.g.succ[u])
    /\ UNCHANGED fn

Solved == worklist = <<>>

=============================================================================
